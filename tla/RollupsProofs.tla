---------------------------- MODULE RollupsProofs ----------------------------
(***************************************************************************)
(* Theorems of Rollups, for any widths of the two grains, any cap, any     *)
(* number of intervals and of failures: which buckets are written, what    *)
(* they count, and how often a CIP run is.                                 *)
(***************************************************************************)
EXTENDS Rollups, Numbers, SequenceTheorems, FiniteSetTheorems, TLAPS

-----------------------------------------------------------------------------
(* The basic invariant: spans follow each other in time, up to the open    *)
(* interval, and nothing of it changes while the tables are derived.       *)

TimelineInv ==
  /\ Day <= openAt /\ Day <= latest
  /\ pc # "idle" => latest < openAt + Cap
  /\ IsFiniteSet(spans) /\ IsFiniteSet(facts)
  /\ \A s \in spans : Day <= s.start /\ s.start < s.end /\ s.end <= openAt /\ s.end <= latest
  /\ \A s, q \in spans : s = q \/ s.end <= q.start \/ q.end <= s.start
  /\ \A f \in facts : Day <= f.at /\ f.at <= openAt /\ f.at <= latest
  /\ \A f \in facts : f.key = CIPStep => f.kind \in {"step", "cip_result"}
  /\ \A g \in Grains : pc = RowsOf(g) => HasBucket(g)
  /\ \A g \in Grains : cursor[g] % Width(g) = 0

BasicInv == TypeOK /\ TimelineInv

LEMMA Widths ==
  /\ Hour \in Nat \ {0} /\ Day \in Nat \ {0} /\ Day % Hour = 0 /\ Hour <= Day /\ Cap \in Nat
  /\ \A g \in Grains : /\ Width(g) \in Nat \ {0} /\ Width(g) <= Day
                       /\ Width(g) = Hour \/ Width(g) = Day
  /\ Width("hour") = Hour /\ Width("day") = Day
<1>1. Hour \in Nat \ {0} /\ Day \in Nat \ {0} /\ Day % Hour = 0 /\ Cap \in Nat
  BY RollupConstants DEF RollupConstants
<1>2. Hour <= Day
  BY <1>1
<1> QED
  BY <1>1, <1>2 DEF Width, Grains

LEMMA Places ==
  /\ RowsOf("hour") = "hour_rows" /\ RowsOf("day") = "day_rows"
  /\ \A g \in Grains : g \in {"hour", "day"} /\ RowsOf(g) \in {"hour_rows", "day_rows"}
  /\ \A g, h \in Grains : g # RowsOf(h) /\ (RowsOf(g) = RowsOf(h) => g = h)
  /\ \A g \in Grains : g \notin {"idle", "cip"} /\ RowsOf(g) \notin {"idle", "cip"}
BY DEF RowsOf, Grains

LEMMA Fields ==
  ASSUME TypeOK
  PROVE  /\ \A s \in spans : s.state \in States /\ s.start \in Nat /\ s.end \in Nat
         /\ \A f \in facts : /\ f.kind \in Kinds /\ f.at \in Nat
                             /\ f.key \in FaultTypes \cup {CIPStep}
         /\ \A g \in Grains \cup {"cip"} : cursor[g] \in Nat
         /\ Len(rollups) \in Nat /\ DOMAIN rollups = 1 .. Len(rollups)
         /\ Len(cips) \in Nat /\ DOMAIN cips = 1 .. Len(cips)
         /\ \A i \in 1 .. Len(cips) : cips[i].start \in Nat /\ cips[i].end \in Nat
         /\ \A i \in 1 .. Len(rollups) :
              /\ rollups[i].grain \in Grains /\ rollups[i].bucket \in Nat /\ rollups[i].open \in Nat
              /\ rollups[i].kind = "machine" => rollups[i].cols \in [Columns -> Nat]
<1>1. spans \subseteq SpanRow /\ facts \subseteq Fact
  BY DEF TypeOK
<1>2. \A i \in 1 .. Len(cips) : cips[i] \in CIPRun
  BY ElementOfSeq DEF TypeOK
<1>3. \A i \in 1 .. Len(rollups) : rollups[i] \in MachineRow \cup KeyedRow
  BY ElementOfSeq DEF TypeOK
<1>4. \A r \in MachineRow : /\ r.grain \in Grains /\ r.bucket \in Nat /\ r.open \in Nat
                            /\ r.cols \in [Columns -> Nat]
  BY DEF MachineRow
<1>5. \A r \in KeyedRow : /\ r.grain \in Grains /\ r.bucket \in Nat /\ r.open \in Nat
                          /\ r.kind # "machine"
  BY DEF KeyedRow
<1>6. \A i \in 1 .. Len(rollups) :
        /\ rollups[i].grain \in Grains /\ rollups[i].bucket \in Nat /\ rollups[i].open \in Nat
        /\ rollups[i].kind = "machine" => rollups[i].cols \in [Columns -> Nat]
  BY <1>3, <1>4, <1>5
<1>7. \A s \in spans : s.state \in States /\ s.start \in Nat /\ s.end \in Nat
  BY <1>1 DEF SpanRow
<1>8. \A f \in facts : f.kind \in Kinds /\ f.at \in Nat /\ f.key \in FaultTypes \cup {CIPStep}
  BY <1>1 DEF Fact
<1>9. \A i \in 1 .. Len(cips) : cips[i].start \in Nat /\ cips[i].end \in Nat
  BY <1>2 DEF CIPRun
<1> QED
  BY <1>6, <1>7, <1>8, <1>9, LenProperties DEF TypeOK

(* The earliest row, once there is one. *)
LEMMA EarliestIs ==
  ASSUME BasicInv, spans # {}
  PROVE  /\ Earliest \in Nat /\ Day <= Earliest /\ Earliest <= openAt
         /\ \A s \in spans : Earliest <= s.start
         /\ \A f \in facts : Earliest <= f.at
         /\ Earliest \in {s.start : s \in spans} \cup {f.at : f \in facts}
<1> DEFINE S == {s.start : s \in spans} \cup {f.at : f \in facts}
<1>1. S \in SUBSET Nat /\ S # {}
  BY Fields DEF BasicInv
<1>2. \A x \in S : Day <= x /\ x <= openAt
  <2>1. /\ \A s \in spans : s.start \in Nat /\ s.end \in Nat
        /\ \A f \in facts : f.at \in Nat
        /\ openAt \in Nat /\ Day \in Nat
    BY Fields, Widths DEF BasicInv, TypeOK
  <2>2. \A s \in spans : Day <= s.start /\ s.start <= openAt
    BY <2>1 DEF BasicInv, TimelineInv
  <2> QED
    BY <2>1, <2>2 DEF BasicInv, TimelineInv
<1>3. /\ \A s \in spans : s.start \in S
      /\ \A f \in facts : f.at \in S
  OBVIOUS
<1>4. Earliest = Min(S)
  BY DEF Earliest
<1> HIDE DEF S
<1>5. PICK x \in S : \A y \in S : x <= y
  BY <1>1, LeastNumber
<1>6. Min(S) \in S /\ \A y \in S : Min(S) <= y
  BY <1>5 DEF Min
<1>7. Earliest \in S /\ \A y \in S : Earliest <= y
  BY <1>4, <1>6
<1> QED
  BY <1>1, <1>2, <1>3, <1>7 DEF S

(* The next bucket is behind the last and begins on a boundary. *)
LEMMA NextBucketIs ==
  ASSUME BasicInv, NEW g \in Grains, spans # {}
  PROVE  /\ NextBucket(g) \in Nat /\ NextBucket(g) % Width(g) = 0
         /\ cursor[g] < NextBucket(g) /\ NextBucket(g) % Hour = 0
         /\ cursor[g] = 0 => Day <= NextBucket(g) /\ NextBucket(g) <= Earliest
<1> DEFINE w == Width(g)
           c == cursor[g]
           e == Earliest
<1>1. /\ w \in Nat \ {0} /\ c \in Nat /\ Hour \in Nat \ {0} /\ Day \in Nat \ {0}
      /\ Day % Hour = 0 /\ (w = Hour \/ w = Day) /\ c % w = 0
  BY Widths, Fields DEF BasicInv, TimelineInv
<1>2. e \in Nat /\ Day <= e
  BY EarliestIs
<1>3. /\ c = 0 => NextBucket(g) = Floor(Floor(e, Hour), w)
      /\ c # 0 => NextBucket(g) = c + w
  BY DEF NextBucket
<1> HIDE DEF w, c, e
<1>4. CASE c # 0
  <2>1. c + w \in Nat /\ c < c + w /\ (c + w) % w = 0
    BY <1>1, NextMultiple
  <2>2. (c + w) % Hour = 0
    BY <1>1, <2>1, MultipleOfMultiple
  <2> QED
    BY <1>3, <1>4, <2>1, <2>2 DEF c, w
<1>5. CASE c = 0
  <2> DEFINE h == Floor(e, Hour)
             d == Floor(h, w)
  <2>1. h \in Nat /\ h <= e /\ e < h + Hour /\ h % Hour = 0
    BY <1>1, <1>2, RoundedDown DEF Floor
  <2>2. Day <= h
    <3>1. ASSUME h < Day PROVE FALSE
      <4>1. h + Hour <= Day
        BY <1>1, <2>1, <3>1, MultiplesApart
      <4> HIDE DEF h
      <4> QED
        BY <1>1, <1>2, <2>1, <4>1
    <3> HIDE DEF h
    <3> QED
      BY <1>1, <2>1, <3>1
  <2> HIDE DEF h
  <2>3. d \in Nat /\ d <= h /\ h < d + w /\ d % w = 0
    BY <1>1, <2>1, RoundedDown DEF Floor
  <2>4. d % Hour = 0
    BY <1>1, <2>3, MultipleOfMultiple
  <2>5. Day <= d
    <3>1. CASE w = Hour
      <4>1. d = h
        <5> HIDE DEF d
        <5>1. ASSUME d < h PROVE FALSE
          <6>1. d + Hour <= h
            BY <1>1, <2>1, <2>3, <2>4, <5>1, MultiplesApart
          <6> QED
            BY <1>1, <2>1, <2>3, <3>1, <6>1
        <5> QED
          BY <2>1, <2>3, <5>1
      <4> QED
        BY <2>2, <4>1
    <3>2. CASE w = Day
      <4> HIDE DEF d
      <4>1. ASSUME d < Day PROVE FALSE
        <5>1. Day % Day = 0 /\ d % Day = 0
          BY <1>1, <2>3, <3>2
        <5>2. d + Day <= Day
          BY <1>1, <2>3, <4>1, <5>1, MultiplesApart
        <5>3. d = 0
          BY <1>1, <2>3, <5>2
        <5> QED
          BY <1>1, <2>1, <2>2, <2>3, <3>2, <5>3
      <4> QED
        BY <1>1, <2>3, <4>1
    <3> QED
      BY <1>1, <3>1, <3>2
  <2>6. NextBucket(g) = d
    BY <1>3, <1>5 DEF h
  <2> HIDE DEF d
  <2>7. 0 < d /\ d <= e
    BY <1>1, <1>2, <2>1, <2>3, <2>5
  <2> QED
    BY <1>1, <1>5, <2>3, <2>4, <2>5, <2>6, <2>7 DEF c, w, e
<1> QED
  BY <1>4, <1>5

-----------------------------------------------------------------------------
(* What a bucket counts: every column of the row is the size of a set.     *)

Covered(column, bs, be) ==
  {u \in bs .. be - 1 :
     \E s \in spans : ColumnOf(s.state) = column /\ s.start <= u /\ u < s.end}

Counted(c, bs, be) ==
  CASE c \in Occupied       -> Covered(c, bs, be)
    [] c = "orders_started" -> Started(bs, be)
    [] c = "fault_count"    -> FactsIn("fault_type", bs, be)
    [] c = "cip_runs"       -> {i \in DOMAIN cips : bs <= cips[i].start /\ cips[i].start < be}

(* The function that the fold over the spans of a bucket computes. *)
Sums(bs, be, T) ==
  CHOOSE iter : iter = [s \in SUBSET T |->
    IF s = {} THEN 0
    ELSE Overlap(CHOOSE x \in s : TRUE, bs, be) + iter[s \ {CHOOSE x \in s : TRUE}]]

LEMMA OccupancyIs ==
  ASSUME BasicInv, NEW column, NEW bs \in Nat, NEW be \in Nat
  PROVE  /\ IsFiniteSet(Covered(column, bs, be))
         /\ Occupancy(column, bs, be) = Cardinality(Covered(column, bs, be))
<1> DEFINE T == {s \in spans : ColumnOf(s.state) = column /\ s.end > bs /\ s.start < be}
           w == [x \in T |-> Overlap(x, bs, be)]
           U == [x \in T |-> {u \in bs .. be - 1 : x.start <= u /\ u < x.end}]
           G == Sums(bs, be, T)
<1>1. Occupancy(column, bs, be) = G[T]
  BY DEF Occupancy, MapThenSumSet, MapThenFoldSet, Sums
<1>2. IsFiniteSet(T)
  BY FS_Subset DEF BasicInv, TimelineInv
<1>3. \A s \in spans : s.start \in Nat /\ s.end \in Nat /\ s.start < s.end
  BY Fields DEF BasicInv, TimelineInv
<1>4. ASSUME NEW x \in T
      PROVE  IsFiniteSet(U[x]) /\ Overlap(x, bs, be) = Cardinality(U[x]) /\ w[x] \in Nat
  <2> DEFINE lo == IF bs > x.start THEN bs ELSE x.start
             hi == IF be < x.end THEN be ELSE x.end
  <2>1. lo \in Nat /\ hi \in Nat /\ (lo < hi \/ be <= bs)
    BY <1>3
  <2>2. U[x] = lo .. hi - 1
    <3>1. \A a, b, p, q \in Nat : \A u \in Int :
            (a <= u /\ u <= b - 1) /\ (p <= u /\ u < q)
            <=> (IF a > p THEN a ELSE p) <= u /\ u <= (IF b < q THEN b ELSE q) - 1
      OBVIOUS
    <3>2. /\ \A u \in Int : u \in U[x] <=> u \in lo .. hi - 1
          /\ U[x] \subseteq Int /\ lo .. hi - 1 \subseteq Int
      BY <1>3, <2>1, <3>1
    <3> HIDE DEF lo, hi, U
    <3> QED
      BY <3>2
  <2>3. Overlap(x, bs, be) = IF hi <= lo THEN 0 ELSE hi - lo
    BY <2>1 DEF Overlap
  <2>6. w[x] = Overlap(x, bs, be)
    OBVIOUS
  <2> HIDE DEF lo, hi, U, w
  <2>4. lo \in Int /\ hi - 1 \in Int /\ (lo > hi - 1 <=> hi <= lo) /\ hi - 1 - lo + 1 = hi - lo
    BY <2>1
  <2>5. /\ IsFiniteSet(lo .. hi - 1)
        /\ Cardinality(lo .. hi - 1) = IF hi <= lo THEN 0 ELSE hi - lo
    BY <2>4, FS_Interval
  <2> QED
    BY <2>1, <2>2, <2>3, <2>5, <2>6 DEF lo, hi
<1>5. w \in [T -> Nat]
  BY <1>4
<1>6. PICK F \in [SUBSET T -> Nat] : IsSum(F, T, w)
  BY <1>2, <1>5, SumExists
<1>7. \A s \in SUBSET T : s # {} => w[Picked(s)] = Overlap(CHOOSE x \in s : TRUE, bs, be)
  <2> TAKE s \in SUBSET T
  <2> HAVE s # {}
  <2>1. Picked(s) \in s /\ Picked(s) = CHOOSE x \in s : TRUE
    BY <1>2, PickedIs, FS_Subset DEF Picked
  <2> QED
    BY <2>1
<1>8. F = [s \in SUBSET T |->
             IF s = {} THEN 0
             ELSE Overlap(CHOOSE x \in s : TRUE, bs, be) + F[s \ {CHOOSE x \in s : TRUE}]]
  <2> HIDE DEF w, T
  <2> QED
    BY <1>6, <1>7 DEF IsSum, Picked
<1>9. G = [s \in SUBSET T |->
             IF s = {} THEN 0
             ELSE Overlap(CHOOSE x \in s : TRUE, bs, be) + G[s \ {CHOOSE x \in s : TRUE}]]
  <2> HIDE DEF T
  <2> QED
    BY <1>8 DEF Sums
<1>10. IsSum(G, T, w)
  <2> HIDE DEF w, T, G
  <2> QED
    BY <1>7, <1>9 DEF IsSum, Picked
<1>11. \A x \in T : IsFiniteSet(U[x]) /\ w[x] = Cardinality(U[x]) /\ w[x] <= Cardinality(U[x])
  <2>1. \A x \in T : w[x] = Overlap(x, bs, be)
    OBVIOUS
  <2> HIDE DEF T, w, U
  <2> QED
    BY <1>4, <2>1
<1>12. \A x, y \in T : x # y => U[x] \cap U[y] = {}
  <2>1. \A x, y \in T : x = y \/ x.end <= y.start \/ y.end <= x.start
    BY DEF BasicInv, TimelineInv
  <2> QED
    BY <1>3, <2>1
<1>13. UNION {U[x] : x \in T} = Covered(column, bs, be)
  <2>1. ASSUME NEW u \in Covered(column, bs, be) PROVE \E x \in T : u \in U[x]
    <3>1. /\ u \in bs .. be - 1
          /\ \E s \in spans : ColumnOf(s.state) = column /\ s.start <= u /\ u < s.end
      BY <2>1 DEF Covered
    <3>2. PICK s \in spans : ColumnOf(s.state) = column /\ s.start <= u /\ u < s.end
      BY <3>1
    <3>3. s \in T
      BY <1>3, <3>1, <3>2
    <3> QED
      BY <3>1, <3>2, <3>3
  <2>2. ASSUME NEW x \in T, NEW u \in U[x] PROVE u \in Covered(column, bs, be)
    BY <2>2 DEF Covered
  <2> QED
    BY <2>1, <2>2
<1>14. /\ IsFiniteSet(UNION {U[x] : x \in T})
       /\ G[T] = Cardinality(UNION {U[x] : x \in T})
  <2> HIDE DEF T, w, U, G
  <2> QED
    BY <1>2, <1>5, <1>10, <1>11, <1>12, SumOfSizes
<1> QED
  BY <1>1, <1>13, <1>14

LEMMA AggregateIs ==
  ASSUME BasicInv, NEW c \in Columns, NEW bs \in Nat, NEW be \in Nat
  PROVE  /\ IsFiniteSet(Counted(c, bs, be))
         /\ Aggregate(c, bs, be) = Cardinality(Counted(c, bs, be))
         /\ Aggregate(c, bs, be) \in Nat
<1>1. CASE c \in Occupied
  <2>1. Counted(c, bs, be) = Covered(c, bs, be) /\ Aggregate(c, bs, be) = Occupancy(c, bs, be)
    BY <1>1 DEF Counted, Aggregate, Occupied
  <2> QED
    BY <2>1, OccupancyIs, FS_CardinalityType
<1>2. CASE c = "orders_started"
  <2>1. /\ Counted(c, bs, be) = Started(bs, be)
        /\ Aggregate(c, bs, be) = Cardinality(Started(bs, be))
    BY <1>2 DEF Counted, Aggregate, Occupied
  <2>2. Started(bs, be) \in SUBSET spans
    BY DEF Started
  <2> QED
    BY <2>1, <2>2, FS_Subset, FS_CardinalityType DEF BasicInv, TimelineInv
<1>3. CASE c = "fault_count"
  <2>1. /\ Counted(c, bs, be) = FactsIn("fault_type", bs, be)
        /\ Aggregate(c, bs, be) = Cardinality(FactsIn("fault_type", bs, be))
    BY <1>3 DEF Counted, Aggregate, Occupied
  <2>2. FactsIn("fault_type", bs, be) \in SUBSET facts
    BY DEF FactsIn
  <2> QED
    BY <2>1, <2>2, FS_Subset, FS_CardinalityType DEF BasicInv, TimelineInv
<1>4. CASE c = "cip_runs"
  <2> DEFINE runs == {i \in DOMAIN cips : bs <= cips[i].start /\ cips[i].start < be}
  <2>1. Counted(c, bs, be) = runs /\ Aggregate(c, bs, be) = Cardinality(runs)
    BY <1>4 DEF Counted, Aggregate, Occupied
  <2>2. runs \in SUBSET (1 .. Len(cips)) /\ Len(cips) \in Nat
    BY Fields DEF BasicInv
  <2> HIDE DEF runs
  <2>3. IsFiniteSet(1 .. Len(cips))
    BY <2>2, FS_Interval
  <2> QED
    BY <2>1, <2>2, <2>3, FS_Subset, FS_CardinalityType
<1> QED
  BY <1>1, <1>2, <1>3, <1>4 DEF Columns

-----------------------------------------------------------------------------
(* What the steps do that more than one proof needs.                       *)

(* What an interval brings is of its own time. *)
LEMMA FoundIs ==
  ASSUME BasicInv, NEW e \in Times, NEW state \in States, NEW found \in Found(e),
         FlushInterval(e, state, found)
  PROVE  /\ found \subseteq Fact /\ IsFiniteSet(found)
         /\ \A f \in found : openAt <= f.at /\ f.at <= e
         /\ \A f \in found : f.key = CIPStep => f.kind \in {"step", "cip_result"}
<1>1. openAt \in Nat /\ e \in Nat
  BY Widths DEF BasicInv, TypeOK, Times
<1>2. PICK f : /\ found = {} \/ found = {f}
               /\ found = {f} =>
                    /\ f \in Fact
                    /\ f.key = CIPStep => f.kind \in {"step", "cip_result"}
  <2>1. CASE found = {}
    BY <2>1
  <2>2. CASE \E t \in {e}, k \in FaultTypes : found = {[kind |-> "fault_type", at |-> t, key |-> k]}
    <3>1. PICK k \in FaultTypes : found = {[kind |-> "fault_type", at |-> e, key |-> k]}
      BY <2>2
    <3> WITNESS [kind |-> "fault_type", at |-> e, key |-> k]
    <3> QED
      BY <1>1, <3>1, StepIsNoFault DEF StepIsNoFault, Fact, Kinds
  <2>3. CASE \E k \in {"step", "cip_result"} :
                found = {[kind |-> k, at |-> openAt, key |-> CIPStep]}
    <3>1. PICK k \in {"step", "cip_result"} :
                found = {[kind |-> k, at |-> openAt, key |-> CIPStep]}
      BY <2>3
    <3> WITNESS [kind |-> k, at |-> openAt, key |-> CIPStep]
    <3> QED
      BY <1>1, <3>1 DEF Fact, Kinds
  <2> QED
    BY <2>1, <2>2, <2>3 DEF Found
<1>3. IsFiniteSet(found)
  <2>1. IsFiniteSet({f}) /\ IsFiniteSet({})
    BY FS_EmptySet, FS_Singleton
  <2> QED
    BY <1>2, <2>1
<1> QED
  BY <1>2, <1>3 DEF FlushInterval

(* The CIP cursor moves to the end of the last Maintenance span. *)
LEMMA CIPCursorIs ==
  ASSUME BasicInv, EndCIPRuns
  PROVE  /\ cursor' \in [Grains \cup {"cip"} -> Nat]
         /\ \A g \in Grains : cursor'[g] = cursor[g]
         /\ cursor'["cip"] # cursor["cip"] =>
              \E s \in spans : s.state = "Maintenance" /\ cursor'["cip"] = s.end
         /\ \A s \in spans : s.state = "Maintenance" => s.end <= cursor'["cip"]
<1> DEFINE done == {s \in spans : s.state = "Maintenance" /\ s.end <= latest}
           ends == {s.end : s \in done}
<1>1. cursor \in [Grains \cup {"cip"} -> Nat] /\ "cip" \notin Grains
  BY DEF BasicInv, TypeOK, Grains
<1>2. latest \in Nat /\ \A s \in spans : s.end \in Nat /\ s.end <= latest
  BY Fields DEF BasicInv, TimelineInv, TypeOK
<1>3. \A s \in spans : s.state = "Maintenance" => s \in done
  BY <1>2
<1>4. CASE done = {}
  BY <1>1, <1>3, <1>4 DEF EndCIPRuns
<1>5. CASE done # {}
  <2>1. cursor' = [cursor EXCEPT !["cip"] = Max(ends)]
    BY <1>5 DEF EndCIPRuns
  <2>2. ends \in SUBSET (0 .. latest) /\ ends # {}
    BY <1>2, <1>5
  <2>3. Max(ends) \in ends /\ \A y \in ends : y <= Max(ends)
    <3> HIDE DEF ends
    <3>1. PICK x \in ends : \A y \in ends : y <= x
      BY <1>2, <2>2, GreatestNumber
    <3>2. \A y \in ends : x >= y
      BY <3>1, <2>2
    <3>3. Max(ends) \in ends /\ \A y \in ends : Max(ends) >= y
      BY <3>2 DEF Max
    <3> QED
      BY <2>2, <3>3
  <2>4. \E s \in spans : s.state = "Maintenance" /\ Max(ends) = s.end
    BY <2>3
  <2>5. \A s \in spans : s.state = "Maintenance" => s.end <= Max(ends)
    BY <1>3, <2>3
  <2>6. Max(ends) \in Nat
    BY <2>2, <2>3
  <2> HIDE DEF ends, done
  <2> QED
    BY <1>1, <2>1, <2>4, <2>5, <2>6
<1> QED
  BY <1>4, <1>5

(* The row of a key is not a machine row, and belongs to the bucket. *)
LEMMA KeyedRowIs ==
  ASSUME BasicInv, NEW g \in Grains, pc = RowsOf(g), NEW row \in KeyedRows(g)
  PROVE  /\ row \in KeyedRow /\ row.kind # "machine"
         /\ row.grain = g /\ row.bucket = NextBucket(g)
<1> DEFINE b == NextBucket(g)
           found == FactsIn("fault_type", b, b + Width(g)) \cup FactsIn("step", b, b + Width(g))
           Same(f) == {x \in found : x.kind = f.kind /\ x.key = f.key}
<1>1. PICK f \in found :
        row = [grain |-> g, bucket |-> b, kind |-> f.kind, key |-> f.key, open |-> openAt,
               cols |-> [c \in {"occurrences"} |-> Cardinality(Same(f))]]
  BY DEF KeyedRows
<1>2. f \in facts /\ f.kind \in {"fault_type", "step"}
  BY DEF FactsIn
<1>3. f.key \in FaultTypes \cup {CIPStep} /\ openAt \in Nat
  BY <1>2, Fields DEF BasicInv, TypeOK
<1>4. Cardinality(Same(f)) \in Nat
  <2>1. Same(f) \in SUBSET facts
    BY DEF FactsIn
  <2> HIDE DEF Same
  <2> QED
    BY <2>1, FS_Subset, FS_CardinalityType DEF BasicInv, TimelineInv
<1>5. b \in Nat
  BY NextBucketIs DEF BasicInv, TimelineInv, HasBucket
<1> HIDE DEF b, found, Same
<1>6. [c \in {"occurrences"} |-> Cardinality(Same(f))] \in [{"occurrences"} -> Nat]
  BY <1>4
<1>7. row \in KeyedRow
  BY <1>1, <1>2, <1>3, <1>5, <1>6 DEF KeyedRow
<1> QED
  BY <1>1, <1>2, <1>7 DEF b

(* The machine row of a bucket. *)
LEMMA MachineRowIs ==
  ASSUME BasicInv, NEW g \in Grains, EmitMachineRow(g)
  PROVE  \E row \in MachineRow :
           /\ rollups' = Append(rollups, row)
           /\ row.kind = "machine" /\ row.key = None
           /\ row.grain = g /\ row.bucket = NextBucket(g) /\ row.open = openAt
           /\ \A c \in Columns :
                row.cols[c] = Cardinality(Counted(c, NextBucket(g), NextBucket(g) + Width(g)))
<1> DEFINE b == NextBucket(g)
           row == [grain |-> g, bucket |-> b, kind |-> "machine", key |-> None, open |-> openAt,
                   cols |-> [c \in Columns |-> Aggregate(c, b, b + Width(g))]]
<1>1. rollups' = Append(rollups, row)
  BY DEF EmitMachineRow
<1>2. b \in Nat /\ b + Width(g) \in Nat
  <2>1. b \in Nat
    BY NextBucketIs DEF EmitMachineRow, HasBucket
  <2> QED
    BY <2>1, Widths
<1>3. \A c \in Columns :
        /\ Aggregate(c, b, b + Width(g)) = Cardinality(Counted(c, b, b + Width(g)))
        /\ Aggregate(c, b, b + Width(g)) \in Nat
  <2> HIDE DEF b
  <2> QED
    BY <1>2, AggregateIs
<1>4. row.cols \in [Columns -> Nat]
  BY <1>3
<1>5. row \in MachineRow
  <2>1. openAt \in Nat
    BY DEF BasicInv, TypeOK
  <2> QED
    BY <1>2, <1>4, <2>1 DEF MachineRow
<1> QED
  BY <1>1, <1>3, <1>5

LEMMA NextCases ==
  ASSUME Next
  PROVE  \/ \E e \in Times, state \in States : \E found \in Found(e) : FlushInterval(e, state, found)
         \/ \E t \in Times : BeginDerived(t)
         \/ \E span \in todo : EmitCIPRun(span)
         \/ EndCIPRuns
         \/ \E g \in Grains : EmitMachineRow(g)
         \/ \E g \in Grains : pc = RowsOf(g) /\ \E row \in KeyedRows(g) : EmitKeyedRow(g, row)
         \/ \E g \in Grains : SaveCursor(g)
         \/ \E g \in Grains : EndGrain(g)
         \/ TickFails
         \/ \E t \in Times : Crash(t)
BY DEF Next, Derive

-----------------------------------------------------------------------------
LEMMA BasicInit == Init => BasicInv
<1> SUFFICES ASSUME Init PROVE BasicInv
  OBVIOUS
<1>1. openAt \in Nat /\ Day <= openAt /\ latest = openAt
  BY Widths DEF Init
<1>2. TypeOK
  BY <1>1 DEF Init, TypeOK, Grains
<1>3. \A g \in Grains : cursor[g] % Width(g) = 0
  BY Widths DEF Init
<1>4. TimelineInv
  BY <1>1, <1>3, FS_EmptySet, Places DEF Init, TimelineInv
<1> QED
  BY <1>2, <1>4 DEF BasicInv

LEMMA BasicStep == BasicInv /\ [Next]_vars => BasicInv'
<1> SUFFICES ASSUME BasicInv, [Next]_vars PROVE BasicInv'
  OBVIOUS
<1>0. /\ TypeOK /\ TimelineInv
      /\ Day \in Nat /\ Cap \in Nat /\ openAt \in Nat /\ latest \in Nat
  BY Widths DEF BasicInv, TypeOK
<1>1. ASSUME NEW e \in Times, NEW state \in States, NEW found \in Found(e),
             FlushInterval(e, state, found)
      PROVE  BasicInv'
  <2> DEFINE span == [state |-> state, start |-> openAt, end |-> e]
  <2>1. e \in Nat /\ openAt < e /\ latest <= e
    BY <1>0, <1>1 DEF FlushInterval, Times
  <2>2. /\ found \subseteq Fact /\ IsFiniteSet(found)
        /\ \A f \in found : openAt <= f.at /\ f.at <= e
        /\ \A f \in found : f.key = CIPStep => f.kind \in {"step", "cip_result"}
    BY <1>1, FoundIs
  <2>3. span \in SpanRow
    BY <1>0, <2>1 DEF SpanRow
  <2>4. /\ spans' = spans \cup {span} /\ facts' = facts \cup found
        /\ openAt' = e /\ latest' = e /\ flushed' = flushed + 1 /\ pc = "idle"
        /\ UNCHANGED <<cips, rollups, cursor, pc, todo, failures>>
    BY <1>1 DEF FlushInterval
  <2>5. TypeOK'
    BY <1>0, <2>1, <2>2, <2>3, <2>4 DEF TypeOK
  <2>6. IsFiniteSet(spans') /\ IsFiniteSet(facts')
    BY <1>0, <2>2, <2>4, FS_AddElement, FS_Union DEF TimelineInv
  <2>7. \A s \in spans : s.start \in Nat /\ s.end \in Nat
    BY <1>0, Fields
  <2>8. \A s \in spans' : Day <= s.start /\ s.start < s.end /\ s.end <= openAt' /\ s.end <= latest'
    BY <1>0, <2>1, <2>4, <2>7 DEF TimelineInv
  <2>9. \A s, q \in spans' : s = q \/ s.end <= q.start \/ q.end <= s.start
    BY <1>0, <2>1, <2>4, <2>7 DEF TimelineInv
  <2>10. \A f \in facts' : Day <= f.at /\ f.at <= openAt' /\ f.at <= latest'
    <3>1. \A f \in facts \cup found : f.at \in Nat
      BY <1>0, <2>2, Fields DEF Fact
    <3> QED
      BY <1>0, <2>1, <2>2, <2>4, <3>1 DEF TimelineInv
  <2>11. \A f \in facts' : f.key = CIPStep => f.kind \in {"step", "cip_result"}
    BY <1>0, <2>2, <2>4 DEF TimelineInv
  <2>12. \A g \in Grains : cursor'[g] % Width(g) = 0 /\ pc' # RowsOf(g)
    BY <1>0, <2>4, Places DEF TimelineInv
  <2>13. Day <= openAt' /\ Day <= latest'
    BY <1>0, <2>1, <2>4 DEF TimelineInv
  <2> QED
    BY <2>4, <2>5, <2>6, <2>8, <2>9, <2>10, <2>11, <2>12, <2>13 DEF BasicInv, TimelineInv
<1>2. ASSUME NEW t \in Times, BeginDerived(t) PROVE BasicInv'
  <2>1. /\ t \in Nat /\ latest <= t /\ t < openAt + Cap /\ latest' = t /\ pc' = "cip"
        /\ todo' \subseteq spans
        /\ UNCHANGED <<openAt, spans, facts, flushed, cips, rollups, cursor, failures>>
    BY <1>0, <1>2 DEF BeginDerived, Times, replicaVars
  <2>2. TypeOK'
    BY <1>0, <2>1 DEF TypeOK
  <2>3. \A s \in spans : s.end \in Nat /\ s.end <= t
    <3>1. \A s \in spans : s.end \in Nat /\ s.end <= latest
      BY <1>0, Fields DEF TimelineInv
    <3> QED
      BY <1>0, <2>1, <3>1
  <2>4. \A f \in facts : f.at \in Nat /\ f.at <= t
    <3>1. \A f \in facts : f.at \in Nat /\ f.at <= latest
      BY <1>0, Fields DEF TimelineInv
    <3> QED
      BY <1>0, <2>1, <3>1
  <2>5. Day <= t /\ \A g \in Grains : pc' # RowsOf(g)
    BY <1>0, <2>1, Places DEF TimelineInv
  <2> QED
    BY <1>0, <2>1, <2>2, <2>3, <2>4, <2>5 DEF BasicInv, TimelineInv
<1>3. ASSUME UNCHANGED <<openAt, latest, spans, facts>>, TypeOK',
             pc' # "idle" => latest < openAt + Cap,
             \A g \in Grains : cursor'[g] % Width(g) = 0,
             \A g \in Grains : pc' = RowsOf(g) => HasBucket(g)'
      PROVE  BasicInv'
  BY <1>0, <1>3 DEF BasicInv, TimelineInv
<1>4. ASSUME NEW span \in todo, EmitCIPRun(span) PROVE BasicInv'
  <2> DEFINE run == [start |-> span.start, end |-> span.end, completed |-> Completed(span)]
  <2>1. run \in CIPRun
    <3>1. Completed(span) \in BOOLEAN
      BY DEF Completed
    <3> QED
      BY <1>0, <3>1, Fields DEF CIPRun, TypeOK
  <2>2. /\ cips' = Append(cips, run) /\ todo' = todo \ {span} /\ pc = "cip"
        /\ UNCHANGED <<openAt, latest, spans, facts, flushed, rollups, cursor, pc, failures>>
    BY <1>4 DEF EmitCIPRun, envVars, replicaVars
  <2>3. TypeOK'
    BY <1>0, <2>1, <2>2, AppendProperties DEF TypeOK
  <2> QED
    BY <1>0, <1>3, <2>2, <2>3, Places DEF TimelineInv
<1>5. ASSUME EndCIPRuns PROVE BasicInv'
  <2>1. /\ pc = "cip" /\ pc' = "hour"
        /\ UNCHANGED <<openAt, latest, spans, facts, flushed, cips, rollups, todo, failures>>
    BY <1>5 DEF EndCIPRuns, envVars, replicaVars
  <2>2. /\ cursor' \in [Grains \cup {"cip"} -> Nat]
        /\ \A g \in Grains : cursor'[g] = cursor[g]
    BY <1>5, CIPCursorIs
  <2>3. TypeOK'
    BY <1>0, <2>1, <2>2 DEF TypeOK, Grains
  <2> QED
    BY <1>0, <1>3, <2>1, <2>2, <2>3, Places DEF TimelineInv, Grains
<1>6. ASSUME NEW g \in Grains, EmitMachineRow(g) PROVE BasicInv'
  <2>1. PICK row \in MachineRow : rollups' = Append(rollups, row)
    BY <1>6, MachineRowIs
  <2>2. /\ pc = g /\ HasBucket(g) /\ pc' = RowsOf(g)
        /\ UNCHANGED <<openAt, latest, spans, facts, flushed, cips, cursor, todo, failures>>
    BY <1>6 DEF EmitMachineRow, envVars, replicaVars
  <2>3. TypeOK'
    BY <1>0, <2>1, <2>2, AppendProperties DEF TypeOK
  <2>4. HasBucket(g)' /\ \A h \in Grains : pc' = RowsOf(h) => h = g
    BY <2>2, Places DEF HasBucket, NextBucket, Earliest
  <2> QED
    BY <1>0, <1>3, <2>2, <2>3, <2>4, Places DEF TimelineInv
<1>7. ASSUME NEW g \in Grains, pc = RowsOf(g), NEW row \in KeyedRows(g), EmitKeyedRow(g, row)
      PROVE  BasicInv'
  <2>1. row \in KeyedRow
    BY <1>7, KeyedRowIs
  <2>2. /\ rollups' = Append(rollups, row)
        /\ UNCHANGED <<openAt, latest, spans, facts, flushed, cips, cursor, pc, todo, failures>>
    BY <1>7 DEF EmitKeyedRow, envVars, replicaVars
  <2>3. TypeOK'
    BY <1>0, <2>1, <2>2, AppendProperties DEF TypeOK
  <2>4. HasBucket(g)' /\ \A h \in Grains : pc' = RowsOf(h) => h = g
    BY <1>0, <1>7, <2>2, Places DEF HasBucket, NextBucket, Earliest, TimelineInv
  <2> QED
    BY <1>0, <1>3, <2>2, <2>3, <2>4, Places DEF TimelineInv
<1>8. ASSUME NEW g \in Grains, SaveCursor(g) PROVE BasicInv'
  <2>1. /\ pc = RowsOf(g) /\ pc' = g /\ cursor' = [cursor EXCEPT ![g] = NextBucket(g)]
        /\ UNCHANGED <<openAt, latest, spans, facts, flushed, cips, rollups, todo, failures>>
    BY <1>8 DEF SaveCursor, envVars, replicaVars
  <2>2. NextBucket(g) \in Nat /\ NextBucket(g) % Width(g) = 0
    BY <1>0, <2>1, NextBucketIs DEF TimelineInv, HasBucket
  <2>3. TypeOK'
    BY <1>0, <2>1, <2>2 DEF TypeOK
  <2>4. \A h \in Grains : cursor'[h] % Width(h) = 0
    BY <1>0, <2>1, <2>2 DEF TimelineInv, TypeOK
  <2> QED
    BY <1>0, <1>3, <2>1, <2>3, <2>4, Places DEF TimelineInv
<1>9. ASSUME NEW g \in Grains, EndGrain(g) PROVE BasicInv'
  <2>1. /\ pc = g /\ pc' = (IF g = "hour" THEN "day" ELSE "idle")
        /\ UNCHANGED <<openAt, latest, spans, facts, flushed, cips, cursor, rollups, todo, failures>>
    BY <1>9 DEF EndGrain, envVars, replicaVars
  <2>2. TypeOK' /\ \A h \in Grains : pc' # RowsOf(h)
    BY <1>0, <2>1, Places DEF TypeOK, Grains
  <2> QED
    BY <1>0, <1>3, <2>1, <2>2, Places DEF TimelineInv
<1>10. CASE TickFails
  <2>1. /\ pc' = "idle" /\ todo' = {} /\ failures' = failures + 1
        /\ UNCHANGED <<openAt, latest, spans, facts, flushed, cips, cursor, rollups>>
    BY <1>10 DEF TickFails, envVars, replicaVars
  <2>2. TypeOK'
    BY <1>0, <2>1 DEF TypeOK
  <2> QED
    BY <1>0, <1>3, <2>1, <2>2, Places DEF TimelineInv
<1>11. ASSUME NEW t \in Times, Crash(t) PROVE BasicInv'
  <2>1. /\ t \in Nat /\ latest <= t /\ openAt' = t /\ pc' = "idle" /\ todo' = {}
        /\ failures' = failures + 1
        /\ UNCHANGED <<latest, spans, facts, flushed, cips, cursor, rollups>>
    BY <1>0, <1>11 DEF Crash, Times, replicaVars
  <2>2. TypeOK'
    BY <1>0, <2>1 DEF TypeOK
  <2>3. \A s \in spans : s.end \in Nat /\ s.end <= latest
    BY <1>0, Fields DEF TimelineInv
  <2>4. \A f \in facts : f.at \in Nat /\ f.at <= latest
    BY <1>0, Fields DEF TimelineInv
  <2>5. /\ Day <= t /\ \A g \in Grains : pc' # RowsOf(g)
        /\ \A s \in spans : s.end <= t
        /\ \A f \in facts : f.at <= t
    BY <1>0, <2>1, <2>3, <2>4, Places DEF TimelineInv
  <2> QED
    BY <1>0, <2>1, <2>2, <2>5 DEF BasicInv, TimelineInv
<1>12. CASE UNCHANGED vars
  BY <1>0, <1>12 DEF vars, envVars, replicaVars, BasicInv, TypeOK, TimelineInv,
                     HasBucket, NextBucket, Earliest
<1> QED
  BY <1>1, <1>2, <1>4, <1>5, <1>6, <1>7, <1>8, <1>9, <1>10, <1>11, <1>12, NextCases

(* Every field keeps its type; buckets and cursors are natural numbers and *)
(* what a row counts is one, too. *)
THEOREM TypeCorrect == Spec => []TypeOK
<1>1. BasicInv => TypeOK
  BY DEF BasicInv
<1> QED
  BY BasicInit, BasicStep, <1>1, PTL DEF Spec

-----------------------------------------------------------------------------
(* The buckets of a grain follow each other without a gap.  What is        *)
(* written lies up to the saved cursor, except one bucket behind it, whose *)
(* machine row precedes its cursor.                                        *)

Done(g) == {rollups[i].bucket : i \in {j \in RowsOfKind("machine") : rollups[j].grain = g}}

InPlace(i) ==
  LET g == rollups[i].grain
      b == rollups[i].bucket
  IN  /\ spans # {} /\ Day <= b /\ b % Width(g) = 0
      /\ b <= cursor[g] \/ b = NextBucket(g)
      /\ rollups[i].kind = "machine" /\ failures = 0 /\ pc # RowsOf(g) => b <= cursor[g]

CursorInv ==
  /\ \A g \in Grains : cursor[g] > 0 => cursor[g] \in Done(g)
  /\ \A g \in Grains : pc = RowsOf(g) => NextBucket(g) \in Done(g)
  /\ \A i \in DOMAIN rollups : InPlace(i)

BucketsInv == CursorInv /\ BucketsOnce

LEMMA Appended ==
  ASSUME TypeOK, NEW row, rollups' = Append(rollups, row)
  PROVE  /\ DOMAIN rollups' = DOMAIN rollups \cup {Len(rollups) + 1}
         /\ Len(rollups) + 1 \notin DOMAIN rollups
         /\ \A i \in DOMAIN rollups : rollups'[i] = rollups[i]
         /\ rollups'[Len(rollups) + 1] = row
<1>1. rollups \in Seq(MachineRow \cup KeyedRow)
  BY DEF TypeOK
<1>2. /\ Len(rollups) \in Nat /\ DOMAIN rollups = 1 .. Len(rollups)
      /\ DOMAIN rollups' = 1 .. Len(rollups) + 1
      /\ \A i \in 1 .. Len(rollups) : rollups'[i] = rollups[i]
      /\ rollups'[Len(rollups) + 1] = row
  BY <1>1, LenProperties
<1> QED
  BY <1>2

(* The first bucket is the same, whatever is flushed later. *)
LEMMA NextBucketKept ==
  ASSUME BasicInv, Next, spans # {}, NEW g \in Grains, cursor'[g] = cursor[g]
  PROVE  NextBucket(g)' = NextBucket(g)
<1>1. CASE UNCHANGED <<spans, facts>>
  BY <1>1 DEF NextBucket, Earliest
<1>2. ASSUME NEW e \in Times, NEW state \in States, NEW found \in Found(e),
             FlushInterval(e, state, found)
      PROVE  Earliest' = Earliest
  <2> DEFINE S == {s.start : s \in spans} \cup {f.at : f \in facts}
             new == {openAt} \cup {f.at : f \in found}
             m == Earliest
  <2>1. /\ m \in Nat /\ m <= openAt /\ m \in S
        /\ \A s \in spans : m <= s.start
        /\ \A f \in facts : m <= f.at
    BY EarliestIs
  <2>2. /\ found \subseteq Fact
        /\ \A f \in found : openAt <= f.at
    BY <1>2, FoundIs
  <2>3. {s.start : s \in spans'} \cup {f.at : f \in facts'} = S \cup new
    <3> DEFINE span == [state |-> state, start |-> openAt, end |-> e]
    <3>1. spans' = spans \cup {span} /\ facts' = facts \cup found /\ span.start = openAt
      BY <1>2 DEF FlushInterval
    <3> HIDE DEF span
    <3>2. {s.start : s \in spans \cup {span}} = {s.start : s \in spans} \cup {span.start}
      OBVIOUS
    <3>3. {f.at : f \in facts \cup found} = {f.at : f \in facts} \cup {f.at : f \in found}
      OBVIOUS
    <3> QED
      BY <3>1, <3>2, <3>3
  <2>4. \A y \in S \cup new : y \in Nat /\ m <= y
    <3>1. openAt \in Nat /\ \A f \in found : f.at \in Nat
      BY <2>2 DEF BasicInv, TypeOK, Fact
    <3>2. \A y \in S : y \in Nat
      BY Fields DEF BasicInv
    <3>3. \A y \in S : m <= y
      BY <2>1
    <3>4. \A y \in new : y \in Nat /\ m <= y
      <4> HIDE DEF m
      <4> QED
        BY <2>1, <2>2, <3>1
    <3> QED
      BY <3>2, <3>3, <3>4
  <2>5. Earliest' = Min(S \cup new)
    BY <2>3 DEF Earliest
  <2>6. m \in S \cup new
    BY <2>1
  <2> HIDE DEF S, new, m
  <2>7. Min(S \cup new) \in S \cup new /\ Min(S \cup new) <= m
    BY <2>4, <2>6 DEF Min
  <2>8. Min(S \cup new) = m
    BY <2>4, <2>6, <2>7
  <2> QED
    BY <2>5, <2>8 DEF m
<1>3. CASE ~UNCHANGED <<spans, facts>>
  <2>1. PICK e \in Times, state \in States : \E found \in Found(e) : FlushInterval(e, state, found)
    BY <1>3, NextCases DEF BeginDerived, EmitCIPRun, EndCIPRuns, EmitMachineRow, EmitKeyedRow,
                           SaveCursor, EndGrain, TickFails, Crash, envVars, replicaVars
  <2>2. Earliest' = Earliest
    BY <1>2, <2>1
  <2> QED
    BY <2>2 DEF NextBucket
<1> QED
  BY <1>1, <1>3

LEMMA BucketsInit == Init => BucketsInv
<1> SUFFICES ASSUME Init PROVE BucketsInv
  OBVIOUS
<1>1. /\ DOMAIN rollups = {} /\ \A g \in Grains : cursor[g] = 0 /\ pc # RowsOf(g)
  BY Places DEF Init
<1>2. RowsOfKind("machine") = {}
  BY <1>1 DEF RowsOfKind
<1>3. \A g \in Grains : ~(cursor[g] > 0)
  BY <1>1
<1> QED
  BY <1>1, <1>2, <1>3 DEF BucketsInv, CursorInv, BucketsOnce

(* The rows are those that were; only the interval and the place change. *)
LEMMA RowsKept ==
  ASSUME BasicInv, BucketsInv, Next, UNCHANGED rollups,
         \A g \in Grains : cursor'[g] = cursor[g],
         \A g \in Grains : pc' = RowsOf(g) => pc = pc',
         failures' \in Nat,
         failures' = 0 => failures = 0 /\ \A g \in Grains : pc = RowsOf(g) => pc = pc'
  PROVE  BucketsInv'
<1>1. /\ DOMAIN rollups' = DOMAIN rollups
      /\ \A g \in Grains : Done(g)' = Done(g)
      /\ RowsOfKind("machine")' = RowsOfKind("machine")
  BY DEF Done, RowsOfKind
<1>2. \A i \in DOMAIN rollups : rollups[i].grain \in Grains
  BY Fields DEF BasicInv
<1>3. spans # {} => spans' # {} /\ \A g \in Grains : NextBucket(g)' = NextBucket(g)
  <2>1. spans \subseteq spans'
    BY NextCases DEF FlushInterval, BeginDerived, EmitCIPRun, EndCIPRuns, EmitMachineRow,
                     EmitKeyedRow, SaveCursor, EndGrain, TickFails, Crash, envVars, replicaVars
  <2> QED
    BY <2>1, NextBucketKept
<1>4. ASSUME NEW i \in DOMAIN rollups PROVE InPlace(i)'
  <2>1. InPlace(i) /\ rollups[i].grain \in Grains
    BY <1>2 DEF BucketsInv, CursorInv
  <2> QED
    BY <1>3, <2>1 DEF InPlace
<1>5. \A g \in Grains : pc' = RowsOf(g) => NextBucket(g)' \in Done(g)'
  <2>1. ASSUME NEW g \in Grains, pc = RowsOf(g)
        PROVE  NextBucket(g)' = NextBucket(g) /\ NextBucket(g) \in Done(g)
    BY <1>3, <2>1 DEF BucketsInv, CursorInv, BasicInv, TimelineInv, HasBucket
  <2> QED
    BY <1>1, <2>1
<1>6. CursorInv'
  BY <1>1, <1>4, <1>5 DEF BucketsInv, CursorInv
<1>7. BucketsOnce'
  <2>1. failures > 0 => failures' > 0
    BY DEF BasicInv, TypeOK
  <2> QED
    BY <1>1, <2>1 DEF BucketsInv, BucketsOnce, Width
<1> QED
  BY <1>6, <1>7 DEF BucketsInv

LEMMA BucketsStep == BasicInv /\ BucketsInv /\ [Next]_vars => BucketsInv'
<1> SUFFICES ASSUME BasicInv, BucketsInv, [Next]_vars PROVE BucketsInv'
  OBVIOUS
<1>0. /\ failures \in Nat /\ CursorInv /\ BucketsOnce
      /\ Len(rollups) + 1 \notin DOMAIN rollups
  <2>1. Len(rollups) \in Nat /\ DOMAIN rollups = 1 .. Len(rollups)
    BY Fields DEF BasicInv
  <2> QED
    BY <2>1 DEF BasicInv, TypeOK, BucketsInv
<1>1. ASSUME NEW e \in Times, NEW state \in States, NEW found \in Found(e),
             FlushInterval(e, state, found), Next
      PROVE  BucketsInv'
  BY <1>0, <1>1, RowsKept DEF FlushInterval
<1>2. ASSUME NEW t \in Times, BeginDerived(t), Next PROVE BucketsInv'
  BY <1>0, <1>2, Places, RowsKept DEF BeginDerived
<1>3. ASSUME NEW span \in todo, EmitCIPRun(span), Next PROVE BucketsInv'
  BY <1>0, <1>3, RowsKept DEF EmitCIPRun
<1>4. ASSUME EndCIPRuns, Next PROVE BucketsInv'
  BY <1>0, <1>4, CIPCursorIs, Places, RowsKept DEF EndCIPRuns, Grains
<1>5. ASSUME NEW g \in Grains, EmitMachineRow(g), Next PROVE BucketsInv'
  <2> DEFINE n == NextBucket(g)
             k == Len(rollups) + 1
  <2>1. PICK row \in MachineRow :
          /\ rollups' = Append(rollups, row)
          /\ row.kind = "machine" /\ row.key = None /\ row.grain = g /\ row.bucket = n
    BY <1>5, MachineRowIs
  <2>2. /\ pc = g /\ spans # {} /\ pc' = RowsOf(g)
        /\ UNCHANGED <<spans, facts, cursor, failures>>
    BY <1>5 DEF EmitMachineRow, HasBucket, envVars, replicaVars
  <2>3. /\ n \in Nat /\ n % Width(g) = 0 /\ cursor[g] < n /\ cursor[g] \in Nat
        /\ Day <= n
    <3>1. /\ n \in Nat /\ n % Width(g) = 0 /\ cursor[g] < n
          /\ cursor[g] = 0 => Day <= n
      BY <2>2, NextBucketIs
    <3>2. cursor[g] \in Nat /\ cursor[g] % Width(g) = 0 /\ Day \in Nat
      BY Fields, Widths DEF BasicInv, TimelineInv
    <3>3. cursor[g] > 0 => Day <= cursor[g]
      BY <1>0, Fields DEF CursorInv, InPlace, Done, RowsOfKind, BasicInv
    <3> QED
      BY <3>1, <3>2, <3>3
  <2>4. /\ DOMAIN rollups' = DOMAIN rollups \cup {k} /\ k \notin DOMAIN rollups
        /\ \A i \in DOMAIN rollups : rollups'[i] = rollups[i]
        /\ rollups'[k] = row
    BY <2>1, Appended DEF BasicInv
  <2>5. \A h \in Grains : NextBucket(h)' = NextBucket(h)
    BY <2>2 DEF NextBucket, Earliest
  <2>6. \A i \in DOMAIN rollups :
          /\ rollups[i].grain \in Grains /\ rollups[i].bucket \in Nat
          /\ cursor[rollups[i].grain] \in Nat
    BY Fields DEF BasicInv
  <2> HIDE DEF n, k
  <2>7. RowsOfKind("machine")' = RowsOfKind("machine") \cup {k}
    BY <2>1, <2>4 DEF RowsOfKind
  <2>8. /\ Done(g)' = Done(g) \cup {n}
        /\ \A h \in Grains : h # g => Done(h)' = Done(h)
    <3> DEFINE At(h) == {j \in RowsOfKind("machine") : rollups[j].grain = h}
    <3>0. k \notin RowsOfKind("machine") /\ \A i \in RowsOfKind("machine") : i \in DOMAIN rollups
      BY <2>4 DEF RowsOfKind
    <3>1. At(g)' = At(g) \cup {k} /\ k \notin At(g)
      BY <2>1, <2>4, <2>7, <3>0
    <3>2. \A h \in Grains : h # g => At(h)' = At(h)
      BY <2>1, <2>4, <2>7, <3>0
    <3>3. \A h \in Grains : Done(h) = {rollups[i].bucket : i \in At(h)}
      BY DEF Done
    <3>4. \A h \in Grains : Done(h)' = {rollups'[i].bucket : i \in At(h)'}
      BY DEF Done
    <3>5. \A h \in Grains : \A i \in At(h) : rollups'[i] = rollups[i]
      BY <2>4, <3>0
    <3>6. \A h \in Grains : Done(h)' = {rollups'[i].bucket : i \in At(h)'} /\ At(h) \subseteq DOMAIN rollups
      BY <3>0, <3>4
    <3> HIDE DEF At
    <3>7. Done(g)' = {rollups'[i].bucket : i \in At(g)} \cup {rollups'[k].bucket}
      BY <3>1, <3>6
    <3>8. \A h \in Grains : {rollups'[i].bucket : i \in At(h)} = Done(h)
      BY <3>3, <3>5
    <3> QED
      BY <2>1, <2>4, <3>2, <3>6, <3>7, <3>8
  <2>9. \A i \in DOMAIN rollups' : InPlace(i)'
    <3>1. ASSUME NEW i \in DOMAIN rollups PROVE InPlace(i)'
      BY <1>0, <2>2, <2>4, <2>5, <2>6, <3>1, Places DEF CursorInv, InPlace
    <3>2. ASSUME NEW i \in DOMAIN rollups', i = k PROVE InPlace(i)'
      BY <2>1, <2>2, <2>3, <2>4, <2>5, <3>2 DEF InPlace, n
    <3> QED
      BY <2>4, <3>1, <3>2
  <2>10. CursorInv'
    <3>1. \A h \in Grains : pc' = RowsOf(h) => h = g
      BY <2>2, Places
    <3> QED
      BY <1>0, <2>2, <2>5, <2>8, <2>9, <3>1 DEF CursorInv, n
  <2>11. \A h \in Grains : \A b, c \in Done(h)' : \A x \in b .. c : x % Width(h) = 0 => x \in Done(h)'
    <3>0. \A h \in Grains : \A b, c \in Done(h) : \A x \in b .. c : x % Width(h) = 0 => x \in Done(h)
      BY <1>0 DEF BucketsOnce, Done
    <3>1. \A b \in Done(g) : b \in Nat /\ Day <= b /\ (b <= cursor[g] \/ b = n)
      BY <1>0, <2>6 DEF CursorInv, InPlace, Done, RowsOfKind, n
    <3>2. Width(g) \in Nat \ {0} /\ Day \in Nat \ {0} /\ cursor[g] % Width(g) = 0
      BY Widths DEF BasicInv, TimelineInv
    <3>3. ASSUME NEW b \in Done(g) \cup {n}, NEW x \in b .. n, x % Width(g) = 0, x # n
          PROVE  x \in Done(g)
      <4>1. b \in Nat /\ x \in Nat /\ x < n /\ b <= x /\ b # n
        BY <2>3, <3>1, <3>3
      <4>2. b \in Done(g) /\ b <= cursor[g] /\ cursor[g] > 0
        BY <2>3, <3>1, <3>2, <3>3, <4>1
      <4>3. n = cursor[g] + Width(g)
        BY <2>3, <4>2 DEF n, NextBucket
      <4>4. x <= cursor[g]
        <5>1. ASSUME cursor[g] < x PROVE cursor[g] + Width(g) <= x
          BY <2>3, <3>2, <3>3, <4>1, <5>1, MultiplesApart
        <5> QED
          BY <2>3, <3>2, <4>1, <4>3, <5>1
      <4>5. cursor[g] \in Done(g)
        BY <1>0, <4>2 DEF CursorInv
      <4>6. x \in b .. cursor[g]
        BY <2>3, <4>1, <4>4
      <4> QED
        BY <3>0, <3>3, <4>2, <4>5, <4>6
    <3>4. ASSUME NEW c \in Done(g), NEW x \in n .. c PROVE x = n
      BY <2>3, <3>1
    <3>5. \A b, c \in Done(g) \cup {n} : \A x \in b .. c : x % Width(g) = 0 => x \in Done(g) \cup {n}
      <4> TAKE b, c \in Done(g) \cup {n}
      <4> TAKE x \in b .. c
      <4> HAVE x % Width(g) = 0
      <4>1. CASE c = n
        BY <3>3, <4>1
      <4>2. CASE c # n /\ b = n
        BY <3>4, <4>2
      <4>3. CASE c # n /\ b # n
        BY <3>0, <4>3
      <4> QED
        BY <4>1, <4>2, <4>3
    <3> QED
      BY <2>8, <3>0, <3>5
  <2>12. \A i \in RowsOfKind("machine")' : rollups'[i].bucket % Width(rollups'[i].grain) = 0
    BY <2>9 DEF InPlace, RowsOfKind
  <2>13. \A i, j \in DOMAIN rollups' :
           /\ rollups'[i].kind = rollups'[j].kind /\ rollups'[i].key = rollups'[j].key
           /\ rollups'[i].grain = rollups'[j].grain /\ rollups'[i].bucket = rollups'[j].bucket
           => i = j \/ (rollups'[i].kind = "machine" /\ failures' > 0)
    <3>1. \A i \in DOMAIN rollups :
            rollups[i].kind = "machine" /\ rollups[i].grain = g /\ rollups[i].bucket = n
            => failures > 0
      <4>1. pc # RowsOf(g)
        BY <2>2, Places
      <4> QED
        BY <1>0, <2>3, <2>6, <4>1 DEF CursorInv, InPlace
    <3> QED
      BY <1>0, <2>1, <2>2, <2>4, <3>1 DEF BucketsOnce
  <2>14. BucketsOnce'
    BY <2>11, <2>12, <2>13 DEF BucketsOnce, Done, Width
  <2> QED
    BY <2>10, <2>14 DEF BucketsInv
<1>6. ASSUME NEW g \in Grains, pc = RowsOf(g), NEW row \in KeyedRows(g), EmitKeyedRow(g, row), Next
      PROVE  BucketsInv'
  <2> DEFINE k == Len(rollups) + 1
  <2>1. /\ rollups' = Append(rollups, row) /\ ~Conflicts(row)
        /\ UNCHANGED <<spans, facts, cursor, pc, failures>>
    BY <1>6 DEF EmitKeyedRow, envVars, replicaVars
  <2>2. row.kind # "machine" /\ row.grain = g /\ row.bucket = NextBucket(g)
    BY <1>6, KeyedRowIs
  <2>3. /\ DOMAIN rollups' = DOMAIN rollups \cup {k} /\ k \notin DOMAIN rollups
        /\ \A i \in DOMAIN rollups : rollups'[i] = rollups[i]
        /\ rollups'[k] = row
    BY <2>1, Appended DEF BasicInv
  <2> HIDE DEF k
  <2>4. RowsOfKind("machine")' = RowsOfKind("machine") /\ RowsOfKind("machine") \subseteq DOMAIN rollups
    BY <2>2, <2>3 DEF RowsOfKind
  <2>5. \A h \in Grains : Done(h)' = Done(h)
    BY <2>3, <2>4 DEF Done
  <2>6. \A h \in Grains : NextBucket(h)' = NextBucket(h)
    BY <2>1 DEF NextBucket, Earliest
  <2>7. PICK i0 \in DOMAIN rollups : rollups[i0].grain = g /\ rollups[i0].bucket = NextBucket(g)
    BY <1>0, <1>6 DEF CursorInv, Done, RowsOfKind
  <2>8. \A i \in DOMAIN rollups : rollups[i].grain \in Grains
    BY Fields DEF BasicInv
  <2>9. \A i \in DOMAIN rollups' : InPlace(i)'
    <3>1. ASSUME NEW i \in DOMAIN rollups PROVE InPlace(i)'
      BY <1>0, <2>1, <2>3, <2>6, <2>8, <3>1 DEF CursorInv, InPlace
    <3>2. ASSUME NEW i \in DOMAIN rollups', i = k PROVE InPlace(i)'
      BY <1>0, <2>1, <2>2, <2>3, <2>6, <2>7, <3>2 DEF CursorInv, InPlace
    <3> QED
      BY <2>3, <3>1, <3>2
  <2>10. CursorInv'
    BY <1>0, <2>1, <2>5, <2>6, <2>9 DEF CursorInv
  <2>11. \A i, j \in DOMAIN rollups' :
           /\ rollups'[i].kind = rollups'[j].kind /\ rollups'[i].key = rollups'[j].key
           /\ rollups'[i].grain = rollups'[j].grain /\ rollups'[i].bucket = rollups'[j].bucket
           => i = j \/ (rollups'[i].kind = "machine" /\ failures' > 0)
    BY <1>0, <2>1, <2>3 DEF BucketsOnce, Conflicts
  <2>12. BucketsOnce'
    BY <1>0, <2>3, <2>4, <2>5, <2>11 DEF BucketsOnce, Done, Width
  <2> QED
    BY <2>10, <2>12 DEF BucketsInv
<1>7. ASSUME NEW g \in Grains, SaveCursor(g), Next PROVE BucketsInv'
  <2> DEFINE n == NextBucket(g)
  <2>1. /\ pc = RowsOf(g) /\ pc' = g /\ cursor' = [cursor EXCEPT ![g] = n]
        /\ UNCHANGED <<spans, facts, rollups, failures>>
    BY <1>7 DEF SaveCursor, envVars, replicaVars
  <2>2. n \in Nat /\ cursor[g] < n /\ cursor[g] \in Nat /\ n \in Done(g)
    <3>1. spans # {}
      BY <2>1 DEF BasicInv, TimelineInv, HasBucket
    <3> QED
      BY <1>0, <2>1, <3>1, NextBucketIs, Fields DEF BasicInv, CursorInv
  <2>3. cursor'[g] = n /\ \A h \in Grains : h # g => cursor'[h] = cursor[h] /\ NextBucket(h)' = NextBucket(h)
    BY <2>1 DEF BasicInv, TypeOK, NextBucket, Earliest, Width
  <2>4. /\ \A h \in Grains : Done(h)' = Done(h)
        /\ RowsOfKind("machine")' = RowsOfKind("machine")
        /\ DOMAIN rollups' = DOMAIN rollups
    BY <2>1 DEF Done, RowsOfKind
  <2>5. \A i \in DOMAIN rollups : rollups[i].grain \in Grains /\ rollups[i].bucket \in Nat
    BY Fields DEF BasicInv
  <2>6. ASSUME NEW i \in DOMAIN rollups PROVE InPlace(i)'
    <3>1. InPlace(i) /\ rollups[i].grain \in Grains /\ rollups[i].bucket \in Nat
      BY <1>0, <2>5 DEF CursorInv
    <3>2. CASE rollups[i].grain = g
      <4>1. rollups[i].bucket <= cursor[g] \/ rollups[i].bucket = n
        BY <3>1, <3>2 DEF InPlace
      <4>2. rollups[i].bucket <= n
        BY <2>2, <3>1, <4>1
      <4> HIDE DEF n
      <4> QED
        BY <2>1, <2>3, <3>1, <3>2, <4>2 DEF InPlace
    <3>3. CASE rollups[i].grain # g
      <4>1. pc # RowsOf(rollups[i].grain)
        BY <2>1, <3>1, <3>3, Places
      <4> QED
        BY <2>1, <2>3, <3>1, <3>3, <4>1 DEF InPlace
    <3> QED
      BY <3>2, <3>3
  <2>7. CursorInv'
    <3>1. \A h \in Grains : pc' # RowsOf(h)
      BY <2>1, Places
    <3> QED
      BY <1>0, <2>2, <2>3, <2>4, <2>6, <3>1 DEF CursorInv
  <2>8. BucketsOnce'
    <3>1. BucketsOnce /\ rollups' = rollups /\ failures' = failures
      BY <1>0, <2>1
    <3> QED
      BY <3>1 DEF BucketsOnce, RowsOfKind, Width
  <2> QED
    BY <2>7, <2>8 DEF BucketsInv
<1>8. ASSUME NEW g \in Grains, EndGrain(g), Next PROVE BucketsInv'
  BY <1>0, <1>8, Places, RowsKept DEF EndGrain, Grains
<1>9. ASSUME TickFails, Next PROVE BucketsInv'
  BY <1>0, <1>9, Places, RowsKept DEF TickFails
<1>10. ASSUME NEW t \in Times, Crash(t), Next PROVE BucketsInv'
  BY <1>0, <1>10, Places, RowsKept DEF Crash
<1>11. CASE UNCHANGED vars
  <2>1. /\ rollups' = rollups /\ failures' = failures /\ cursor' = cursor /\ pc' = pc
        /\ spans' = spans /\ facts' = facts
    BY <1>11 DEF vars, envVars, replicaVars
  <2>2. BucketsOnce'
    <3>1. BucketsOnce /\ rollups' = rollups /\ failures' = failures
      BY <1>0, <2>1
    <3> QED
      BY <3>1 DEF BucketsOnce, RowsOfKind, Width
  <2>3. CursorInv'
    <3>1. \A g \in Grains : Done(g)' = Done(g) /\ NextBucket(g)' = NextBucket(g)
      BY <2>1 DEF Done, RowsOfKind, NextBucket, Earliest
    <3>2. \A i \in DOMAIN rollups : InPlace(i)' = InPlace(i)
      BY <2>1 DEF InPlace, NextBucket, Earliest
    <3> QED
      BY <1>0, <2>1, <3>1, <3>2 DEF CursorInv
  <2> QED
    BY <2>2, <2>3 DEF BucketsInv
<1> QED
  BY <1>1, <1>2, <1>3, <1>4, <1>5, <1>6, <1>7, <1>8, <1>9, <1>10, <1>11, NextCases

(* A grain's buckets follow each other without a gap and begin on its      *)
(* boundaries; none has two rows of the same key, except the machine row   *)
(* that a failed tick left without its cursor (emitHourly, emitDaily).     *)
THEOREM BucketsWrittenOnce == Spec => []BucketsOnce
<1>1. BasicInv /\ BucketsInv => BucketsOnce
  BY DEF BucketsInv
<1> QED
  BY BasicInit, BasicStep, BucketsInit, BucketsStep, <1>1, PTL DEF Spec

-----------------------------------------------------------------------------
(* A Maintenance span that emitCIPRuns has been past has its run; one that *)
(* it has not, or not since it last failed, has at most one per failure.   *)

Maintenance == {s \in spans : s.state = "Maintenance"}
RunsOf(s) == {i \in DOMAIN cips : cips[i].start = s.start /\ cips[i].end = s.end}
Ran(s) == s.end <= cursor["cip"] \/ (pc = "cip" /\ s \notin todo)
Marked(s) == \E f \in facts : f.key = CIPStep /\ s.start <= f.at /\ f.at < s.end

RunInv(s) ==
  /\ Cardinality(RunsOf(s)) <= failures + (IF Ran(s) THEN 1 ELSE 0)
  /\ Ran(s) => RunsOf(s) # {}
  /\ \A i \in RunsOf(s) : cips[i].completed <=> Marked(s)

RunsInv ==
  /\ cursor["cip"] <= openAt /\ cursor["cip"] <= latest
  /\ \A s \in todo : s \in Maintenance /\ cursor["cip"] < s.end
  /\ \A s \in Maintenance : RunInv(s)
  /\ \A i \in DOMAIN cips : \E s \in Maintenance : i \in RunsOf(s)

LEMMA RunsInit == Init => RunsInv
<1> SUFFICES ASSUME Init PROVE RunsInv
  OBVIOUS
<1>1. openAt \in Nat /\ latest = openAt /\ cursor["cip"] = 0 /\ todo = {} /\ DOMAIN cips = {}
  BY Widths DEF Init
<1> QED
  BY <1>1 DEF Init, RunsInv, Maintenance

LEMMA RunsFinite ==
  ASSUME BasicInv, NEW s
  PROVE  IsFiniteSet(RunsOf(s)) /\ Cardinality(RunsOf(s)) \in Nat
<1>1. RunsOf(s) \in SUBSET (1 .. Len(cips)) /\ Len(cips) \in Nat
  BY Fields DEF BasicInv, RunsOf
<1>2. IsFiniteSet(1 .. Len(cips))
  BY <1>1, FS_Interval
<1>3. IsFiniteSet(RunsOf(s))
  BY <1>1, <1>2, FS_Subset
<1> QED
  BY <1>3, FS_CardinalityType

(* A step that writes no run and closes no interval. *)
LEMMA RunsKept ==
  ASSUME BasicInv, RunsInv, UNCHANGED <<spans, facts, cips>>, failures' \in Nat,
         cursor'["cip"] <= openAt', cursor'["cip"] <= latest',
         \A s \in todo' : s \in Maintenance /\ cursor'["cip"] < s.end,
         \A s \in Maintenance : Ran(s)' => Ran(s),
         \A s \in Maintenance : (failures' = failures /\ Ran(s)' = Ran(s)) \/ failures' = failures + 1
  PROVE  RunsInv'
<1>1. /\ Maintenance' = Maintenance /\ DOMAIN cips' = DOMAIN cips
      /\ \A s \in Maintenance : RunsOf(s)' = RunsOf(s) /\ Marked(s)' = Marked(s)
  BY DEF Maintenance, RunsOf, Marked
<1>2. ASSUME NEW s \in Maintenance PROVE RunInv(s)'
  <2>1. RunInv(s) /\ Cardinality(RunsOf(s)) \in Nat /\ failures \in Nat
    BY RunsFinite DEF RunsInv, BasicInv, TypeOK
  <2>2. (IF Ran(s) THEN 1 ELSE 0) <= 1 /\ (IF Ran(s) THEN 1 ELSE 0) \in Nat
        /\ (IF Ran(s)' THEN 1 ELSE 0) \in Nat
    OBVIOUS
  <2>3. Cardinality(RunsOf(s)') <= failures' + (IF Ran(s)' THEN 1 ELSE 0)
    <3>1. CASE failures' = failures /\ Ran(s)' = Ran(s)
      <4>1. Cardinality(RunsOf(s)) <= failures + (IF Ran(s) THEN 1 ELSE 0)
        BY <2>1 DEF RunInv
      <4> QED
        BY <1>1, <3>1, <4>1
    <3>2. CASE failures' = failures + 1
      BY <1>1, <2>1, <2>2, <3>2 DEF RunInv
    <3> QED
      BY <3>1, <3>2
  <2>4. Ran(s)' => RunsOf(s)' # {}
    BY <1>1, <2>1 DEF RunInv
  <2>5. \A i \in RunsOf(s)' : cips'[i].completed <=> Marked(s)'
    BY <1>1, <2>1 DEF RunInv
  <2> QED
    BY <2>3, <2>4, <2>5 DEF RunInv
<1>3. \A i \in DOMAIN cips' : \E s \in Maintenance' : i \in RunsOf(s)'
  BY <1>1 DEF RunsInv
<1> QED
  BY <1>1, <1>2, <1>3 DEF RunsInv

LEMMA RunsStep == BasicInv /\ RunsInv /\ [Next]_vars => RunsInv'
<1> SUFFICES ASSUME BasicInv, RunsInv, [Next]_vars PROVE RunsInv'
  OBVIOUS
<1>0. /\ openAt \in Nat /\ latest \in Nat /\ failures \in Nat /\ cursor["cip"] \in Nat
      /\ cursor["cip"] <= openAt /\ cursor["cip"] <= latest
      /\ \A s \in spans : /\ s.start \in Nat /\ s.end \in Nat /\ s.start < s.end
                          /\ s.end <= openAt /\ s.end <= latest
      /\ \A s \in todo : s \in Maintenance /\ cursor["cip"] < s.end
      /\ \A s \in Maintenance : s \in spans
  BY Fields DEF BasicInv, TimelineInv, TypeOK, RunsInv, Maintenance
<1>1. ASSUME NEW e \in Times, NEW state \in States, NEW found \in Found(e),
             FlushInterval(e, state, found)
      PROVE  RunsInv'
  <2> DEFINE span == [state |-> state, start |-> openAt, end |-> e]
  <2>1. /\ spans' = spans \cup {span} /\ facts' = facts \cup found /\ pc = "idle"
        /\ span.start = openAt /\ span.end = e /\ e \in Nat /\ openAt < e /\ latest <= e
        /\ openAt' = e /\ latest' = e
        /\ UNCHANGED <<cips, cursor, pc, todo, failures>>
    BY <1>1, Widths DEF FlushInterval, Times
  <2>2. \A f \in found : openAt <= f.at
    BY <1>1 DEF FlushInterval
  <2> HIDE DEF span
  <2>3. \A s : RunsOf(s)' = RunsOf(s) /\ Ran(s)' = Ran(s)
    BY <2>1 DEF RunsOf, Ran
  <2>4. Maintenance \subseteq Maintenance' /\ \A s \in Maintenance' : s \in Maintenance \/ s = span
    BY <2>1 DEF Maintenance
  <2>5. ASSUME NEW s \in Maintenance PROVE Marked(s)' = Marked(s)
    <3>1. \A f \in found : ~ f.at < s.end
      <4>1. \A f \in found : f.at \in Nat
        BY <1>1, FoundIs DEF Fact
      <4> QED
        BY <1>0, <2>2, <4>1
    <3> QED
      BY <2>1, <3>1 DEF Marked
  <2>6. ASSUME NEW s \in Maintenance PROVE RunInv(s)'
    <3>1. RunInv(s)
      BY DEF RunsInv
    <3> QED
      BY <2>1, <2>3, <2>5, <3>1 DEF RunInv
  <2>7. ASSUME NEW s, s = span PROVE RunInv(s)'
    <3>1. RunsOf(s) = {}
      <4> SUFFICES ASSUME NEW i \in RunsOf(s) PROVE FALSE
        OBVIOUS
      <4>1. i \in DOMAIN cips /\ cips[i].start = openAt
        BY <2>1, <2>7 DEF RunsOf
      <4>2. PICK q \in Maintenance : i \in RunsOf(q)
        BY <4>1 DEF RunsInv
      <4>3. q.start = openAt
        BY <4>1, <4>2 DEF RunsOf
      <4> QED
        BY <1>0, <4>3
    <3>2. ~Ran(s)'
      BY <1>0, <2>1, <2>3, <2>7 DEF Ran
    <3>3. Cardinality({}) = 0
      BY FS_EmptySet
    <3>4. RunsOf(s)' = {} /\ failures' \in Nat
      BY <1>0, <2>1, <2>3, <3>1
    <3>5. Cardinality(RunsOf(s)') <= failures' + (IF Ran(s)' THEN 1 ELSE 0)
      BY <3>2, <3>3, <3>4
    <3> QED
      BY <3>2, <3>4, <3>5 DEF RunInv
  <2>8. \A i \in DOMAIN cips' : \E s \in Maintenance' : i \in RunsOf(s)'
    BY <2>1, <2>3, <2>4 DEF RunsInv
  <2>9. cursor'["cip"] <= openAt' /\ cursor'["cip"] <= latest'
    BY <1>0, <2>1
  <2>10. \A s \in todo' : s \in Maintenance' /\ cursor'["cip"] < s.end
    BY <1>0, <2>1, <2>4
  <2>11. \A s \in Maintenance' : RunInv(s)'
    BY <2>4, <2>6, <2>7
  <2> QED
    BY <2>8, <2>9, <2>10, <2>11 DEF RunsInv
<1>2. ASSUME NEW t \in Times, BeginDerived(t) PROVE RunsInv'
  <2>1. /\ t \in Nat /\ latest <= t /\ latest' = t /\ pc = "idle" /\ pc' = "cip"
        /\ todo' = {s \in spans : s.state = "Maintenance" /\ s.end > cursor["cip"] /\ s.end <= t}
        /\ UNCHANGED <<openAt, spans, facts, cips, cursor, failures>>
    BY <1>2, Widths DEF BeginDerived, Times, replicaVars
  <2>2. \A s \in todo' : s \in Maintenance /\ cursor'["cip"] < s.end
    BY <1>0, <2>1 DEF Maintenance
  <2>3. \A s \in Maintenance : Ran(s)' = Ran(s)
    <3>1. \A s \in Maintenance : s \notin todo' => s.end <= cursor["cip"]
      BY <1>0, <2>1 DEF Maintenance
    <3> QED
      BY <2>1, <3>1 DEF Ran
  <2>4. cursor'["cip"] <= openAt' /\ cursor'["cip"] <= latest'
    BY <1>0, <2>1
  <2> QED
    BY <1>0, <2>1, <2>2, <2>3, <2>4, RunsKept
<1>3. ASSUME NEW span \in todo, EmitCIPRun(span) PROVE RunsInv'
  <2> DEFINE k == Len(cips) + 1
             run == [start |-> span.start, end |-> span.end, completed |-> Completed(span)]
  <2>1. /\ cips' = Append(cips, run) /\ todo' = todo \ {span} /\ pc = "cip"
        /\ UNCHANGED <<openAt, latest, spans, facts, cursor, pc, failures>>
    BY <1>3 DEF EmitCIPRun, envVars, replicaVars
  <2>2. run.start = span.start /\ run.end = span.end /\ run.completed = Completed(span)
    OBVIOUS
  <2>3. /\ DOMAIN cips' = DOMAIN cips \cup {k} /\ k \notin DOMAIN cips
        /\ \A i \in DOMAIN cips : cips'[i] = cips[i]
        /\ cips'[k] = run
    <3>1. cips \in Seq(CIPRun)
      BY DEF BasicInv, TypeOK
    <3> HIDE DEF run
    <3>2. /\ Len(cips) \in Nat /\ DOMAIN cips = 1 .. Len(cips)
          /\ DOMAIN cips' = 1 .. Len(cips) + 1
          /\ \A i \in 1 .. Len(cips) : cips'[i] = cips[i]
          /\ cips'[Len(cips) + 1] = run
      BY <2>1, <3>1, LenProperties
    <3> QED
      BY <3>2
  <2> HIDE DEF k, run
  <2>4. span \in Maintenance /\ cursor["cip"] < span.end /\ ~Ran(span)
    BY <1>0 DEF Ran
  <2>5. Maintenance' = Maintenance /\ \A s \in Maintenance : Marked(s)' = Marked(s)
    BY <2>1 DEF Maintenance, Marked
  <2>6. \A s \in Maintenance : s.start = span.start /\ s.end = span.end => s = span
    BY <1>0, <2>4 DEF BasicInv, TimelineInv
  <2>7. ASSUME NEW s \in Maintenance, s # span PROVE RunInv(s)'
    <3>1. RunsOf(s)' = RunsOf(s)
      BY <2>2, <2>3, <2>6, <2>7 DEF RunsOf
    <3>2. Ran(s)' = Ran(s) /\ RunsOf(s) \subseteq DOMAIN cips
      BY <2>1, <2>7 DEF Ran, RunsOf
    <3>3. RunInv(s)
      BY DEF RunsInv
    <3>4. Cardinality(RunsOf(s)') <= failures' + (IF Ran(s)' THEN 1 ELSE 0)
      BY <2>1, <3>1, <3>2, <3>3 DEF RunInv
    <3>5. Ran(s)' => RunsOf(s)' # {}
      BY <3>1, <3>2, <3>3 DEF RunInv
    <3>6. \A i \in RunsOf(s)' : cips'[i].completed <=> Marked(s)'
      BY <2>3, <2>5, <3>1, <3>2, <3>3 DEF RunInv
    <3> QED
      BY <3>4, <3>5, <3>6 DEF RunInv
  <2>8. ASSUME NEW s, s = span PROVE RunInv(s)'
    <3>0. s \in Maintenance /\ ~Ran(s) /\ RunInv(s)
      BY <2>4, <2>8 DEF RunsInv
    <3>1. RunsOf(s)' = RunsOf(s) \cup {k} /\ k \notin RunsOf(s) /\ RunsOf(s) \subseteq DOMAIN cips
      BY <2>2, <2>3, <2>8 DEF RunsOf
    <3>2. IsFiniteSet(RunsOf(s)) /\ Cardinality(RunsOf(s)) \in Nat
      BY RunsFinite
    <3>3. Cardinality(RunsOf(s)') = Cardinality(RunsOf(s)) + 1
      BY <3>1, <3>2, FS_AddElement
    <3>4. Ran(s)'
      BY <2>1, <2>8 DEF Ran
    <3>5. Cardinality(RunsOf(s)) <= failures
      BY <1>0, <3>0, <3>2 DEF RunInv
    <3>6. Completed(s) <=> Marked(s)
      <4>1. \A f \in facts : f.key = CIPStep => f.kind \in {"step", "cip_result"}
        BY DEF BasicInv, TimelineInv
      <4> QED
        BY <4>1 DEF Completed, Marked, FactsIn
    <3>7. \A i \in RunsOf(s)' : cips'[i].completed <=> Marked(s)'
      BY <2>2, <2>3, <2>5, <2>8, <3>0, <3>1, <3>6 DEF RunInv
    <3>8. Cardinality(RunsOf(s)') <= failures' + (IF Ran(s)' THEN 1 ELSE 0)
      BY <1>0, <2>1, <3>2, <3>3, <3>4, <3>5
    <3>9. RunsOf(s)' # {}
      BY <3>1
    <3> QED
      BY <3>7, <3>8, <3>9 DEF RunInv
  <2>9. \A i \in DOMAIN cips' : \E s \in Maintenance' : i \in RunsOf(s)'
    <3>1. ASSUME NEW i \in DOMAIN cips PROVE \E s \in Maintenance' : i \in RunsOf(s)'
      BY <2>3, <2>5 DEF RunsInv, RunsOf
    <3>2. ASSUME NEW i \in DOMAIN cips', i = k PROVE i \in RunsOf(span)'
      BY <2>1, <2>2, <2>3, <3>2 DEF RunsOf
    <3> QED
      BY <2>3, <2>4, <2>5, <3>1, <3>2
  <2>10. \A s \in todo' : s \in Maintenance' /\ cursor'["cip"] < s.end
    BY <1>0, <2>1, <2>5
  <2>11. \A s \in Maintenance' : RunInv(s)'
    BY <2>5, <2>7, <2>8
  <2> QED
    BY <1>0, <2>1, <2>9, <2>10, <2>11 DEF RunsInv
<1>4. ASSUME EndCIPRuns PROVE RunsInv'
  <2>1. /\ pc = "cip" /\ todo = {} /\ pc' = "hour"
        /\ UNCHANGED <<openAt, latest, spans, facts, cips, todo, failures>>
    BY <1>4 DEF EndCIPRuns, envVars, replicaVars
  <2>2. /\ cursor'["cip"] # cursor["cip"] =>
             \E s \in spans : s.state = "Maintenance" /\ cursor'["cip"] = s.end
        /\ \A s \in spans : s.state = "Maintenance" => s.end <= cursor'["cip"]
    BY <1>4, CIPCursorIs
  <2>3. \A s \in Maintenance : Ran(s)' /\ Ran(s)
    BY <2>1, <2>2 DEF Ran, Maintenance
  <2>4. cursor'["cip"] <= openAt' /\ cursor'["cip"] <= latest'
    BY <1>0, <2>1, <2>2
  <2>5. \A s \in Maintenance : Ran(s)' = Ran(s)
    BY <2>3 DEF Ran
  <2> QED
    BY <1>0, <2>1, <2>3, <2>4, <2>5, RunsKept
<1>5. ASSUME UNCHANGED <<openAt, latest, spans, facts, cips, todo, failures>>,
             pc # "cip", pc' # "cip", cursor'["cip"] = cursor["cip"]
      PROVE  RunsInv'
  <2>1. \A s \in Maintenance : Ran(s)' = Ran(s)
    BY <1>5 DEF Ran
  <2> QED
    BY <1>0, <1>5, <2>1, RunsKept
<1>6. ASSUME NEW g \in Grains,
             EmitMachineRow(g) \/ (pc = RowsOf(g) /\ \E row \in KeyedRows(g) : EmitKeyedRow(g, row))
             \/ SaveCursor(g) \/ EndGrain(g)
      PROVE  RunsInv'
  <2>1. UNCHANGED <<openAt, latest, spans, facts, cips, todo, failures>>
    BY <1>6 DEF EmitMachineRow, EmitKeyedRow, SaveCursor, EndGrain, envVars, replicaVars
  <2>2. pc # "cip" /\ pc' # "cip"
    BY <1>6, Places DEF EmitMachineRow, EmitKeyedRow, SaveCursor, EndGrain
  <2>3. cursor'["cip"] = cursor["cip"]
    <3>1. g # "cip" /\ cursor \in [Grains \cup {"cip"} -> Nat]
      BY Places DEF BasicInv, TypeOK
    <3> QED
      BY <1>6, <3>1 DEF EmitMachineRow, EmitKeyedRow, SaveCursor, EndGrain
  <2> QED
    BY <1>5, <2>1, <2>2, <2>3
<1>7. ASSUME TickFails \/ \E t \in Times : Crash(t) PROVE RunsInv'
  <2>1. /\ UNCHANGED <<latest, spans, facts, cips, cursor>>
        /\ pc' = "idle" /\ todo' = {} /\ failures' = failures + 1
        /\ openAt' = openAt \/ (openAt' \in Nat /\ latest <= openAt')
    BY <1>7, Widths DEF TickFails, Crash, Times, envVars, replicaVars
  <2>2. \A s \in Maintenance : Ran(s)' => Ran(s)
    BY <2>1 DEF Ran
  <2>3. cursor'["cip"] <= openAt' /\ cursor'["cip"] <= latest'
    BY <1>0, <2>1
  <2> QED
    BY <1>0, <2>1, <2>2, <2>3, RunsKept
<1>8. CASE UNCHANGED vars
  <2>1. UNCHANGED <<openAt, latest, spans, facts, cips, todo, failures, pc, cursor>>
    BY <1>8 DEF vars, envVars, replicaVars
  <2>2. \A s \in Maintenance : Ran(s)' = Ran(s)
    BY <2>1 DEF Ran
  <2> QED
    BY <1>0, <2>1, <2>2, RunsKept
<1> QED
  BY <1>1, <1>2, <1>3, <1>4, <1>6, <1>7, <1>8, NextCases

(* emitCIPRuns turns each closed Maintenance span into one CIP run, except *)
(* that a tick that fails behind a run leaves it to be written again; no   *)
(* span behind the cursor is without one, and what a run says of its       *)
(* completion stays true.                                                  *)
THEOREM RunsWritten == Spec => []CIPRunsOnce
<1>1. BasicInv /\ RunsInv => CIPRunsOnce
  <2> SUFFICES ASSUME BasicInv, RunsInv PROVE CIPRunsOnce
    OBVIOUS
  <2>1. ASSUME NEW s \in spans, s.state = "Maintenance"
        PROVE  /\ Cardinality(RunsOf(s)) <= 1 + failures
               /\ s.end <= cursor["cip"] => RunsOf(s) # {}
               /\ \A i \in RunsOf(s) : cips[i].completed <=> Marked(s)
    <3>1. RunInv(s) /\ failures \in Nat /\ Cardinality(RunsOf(s)) \in Nat
      BY <2>1, RunsFinite DEF RunsInv, Maintenance, BasicInv, TypeOK
    <3> QED
      BY <3>1 DEF RunInv, Ran
  <2>2. \A i \in DOMAIN cips : \E s \in spans :
          s.state = "Maintenance" /\ cips[i].start = s.start /\ cips[i].end = s.end
    BY DEF RunsInv, Maintenance, RunsOf
  <2> QED
    BY <2>1, <2>2 DEF CIPRunsOnce, RunsOf, Marked
<1> QED
  BY BasicInit, BasicStep, RunsInit, RunsStep, <1>1, PTL DEF Spec

-----------------------------------------------------------------------------
(* What a machine row counts is what its bucket held when it was written,  *)
(* and a bucket only ever gains what belongs to intervals that were open.  *)

EveryCountFinite ==
  \A c \in Columns, bs, be \in Nat :
    IsFiniteSet(Counted(c, bs, be)) /\ Cardinality(Counted(c, bs, be)) \in Nat

LEMMA CountsFinite == BasicInv => EveryCountFinite
BY AggregateIs, FS_CardinalityType DEF EveryCountFinite

LEMMA Grows ==
  ASSUME BasicInv, Next
  PROVE  /\ latest' \in Nat /\ latest <= latest'
         /\ openAt' \in Nat /\ (openAt <= openAt' \/ latest <= openAt')
         /\ spans \subseteq spans' /\ \A s \in spans' : s \in spans \/ s.start = openAt
         /\ facts \subseteq facts'
         /\ \A i \in DOMAIN cips : i \in DOMAIN cips' /\ cips'[i] = cips[i]
<1>0. openAt \in Nat /\ latest \in Nat
  BY DEF BasicInv, TypeOK
<1>1. ASSUME NEW e \in Times, NEW state \in States, NEW found \in Found(e),
             FlushInterval(e, state, found)
      PROVE  /\ latest' \in Nat /\ latest <= latest' /\ openAt' \in Nat /\ openAt <= openAt'
             /\ spans \subseteq spans' /\ \A s \in spans' : s \in spans \/ s.start = openAt
             /\ facts \subseteq facts' /\ cips' = cips
  BY <1>0, <1>1, Widths DEF FlushInterval, Times
<1>2. ASSUME NEW span \in todo, EmitCIPRun(span)
      PROVE  /\ UNCHANGED <<openAt, latest, spans, facts>>
             /\ \A i \in DOMAIN cips : i \in DOMAIN cips' /\ cips'[i] = cips[i]
  <2> DEFINE run == [start |-> span.start, end |-> span.end, completed |-> Completed(span)]
  <2>1. cips' = Append(cips, run) /\ UNCHANGED <<openAt, latest, spans, facts>>
    BY <1>2 DEF EmitCIPRun, envVars, replicaVars
  <2>2. cips \in Seq(CIPRun)
    BY DEF BasicInv, TypeOK
  <2> HIDE DEF run
  <2>3. /\ Len(cips) \in Nat /\ DOMAIN cips = 1 .. Len(cips)
        /\ DOMAIN cips' = 1 .. Len(cips) + 1
        /\ \A i \in 1 .. Len(cips) : cips'[i] = cips[i]
    BY <2>1, <2>2, LenProperties
  <2> QED
    BY <2>1, <2>3
<1>3. ASSUME NEW t \in Times, BeginDerived(t)
      PROVE  latest' \in Nat /\ latest <= latest' /\ UNCHANGED <<openAt, spans, facts, cips>>
  BY <1>0, <1>3, Widths DEF BeginDerived, Times, replicaVars
<1>4. ASSUME NEW t \in Times, Crash(t)
      PROVE  openAt' \in Nat /\ latest <= openAt' /\ UNCHANGED <<latest, spans, facts, cips>>
  BY <1>0, <1>4, Widths DEF Crash, Times, replicaVars
<1>5. CASE UNCHANGED <<openAt, latest, spans, facts, cips>>
  BY <1>0, <1>5
<1>6. \/ \E e \in Times, state \in States : \E found \in Found(e) : FlushInterval(e, state, found)
      \/ \E span \in todo : EmitCIPRun(span)
      \/ \E t \in Times : BeginDerived(t)
      \/ \E t \in Times : Crash(t)
      \/ UNCHANGED <<openAt, latest, spans, facts, cips>>
  BY NextCases DEF EndCIPRuns, EmitMachineRow, EmitKeyedRow, SaveCursor, EndGrain, TickFails,
                   envVars, replicaVars
<1>7. CASE \E e \in Times, state \in States : \E found \in Found(e) : FlushInterval(e, state, found)
  BY <1>0, <1>1, <1>7
<1>8. CASE \E span \in todo : EmitCIPRun(span)
  BY <1>0, <1>2, <1>8
<1>9. CASE (\E t \in Times : BeginDerived(t)) \/ (\E t \in Times : Crash(t))
  BY <1>0, <1>3, <1>4, <1>9
<1> QED
  BY <1>5, <1>6, <1>7, <1>8, <1>9

LEMMA CountsGrow ==
  ASSUME BasicInv, BasicInv', Next, NEW c \in Columns, NEW bs \in Nat, NEW be \in Nat
  PROVE  Cardinality(Counted(c, bs, be)) <= Cardinality(Counted(c, bs, be)')
<1>1. BasicInv' => EveryCountFinite'
  BY CountsFinite, PTL
<1>2. IsFiniteSet(Counted(c, bs, be)')
  BY <1>1 DEF EveryCountFinite
<1>3. Counted(c, bs, be) \subseteq Counted(c, bs, be)'
  <2>1. CASE c \in Occupied
    <3>1. /\ Counted(c, bs, be) = {u \in bs .. be - 1 :
               \E s \in spans : ColumnOf(s.state) = c /\ s.start <= u /\ u < s.end}
          /\ Counted(c, bs, be)' = {u \in bs .. be - 1 :
               \E s \in spans' : ColumnOf(s.state) = c /\ s.start <= u /\ u < s.end}
      BY <2>1 DEF Counted, Covered, Occupied
    <3>2. spans \subseteq spans'
      BY Grows
    <3> QED
      BY <3>1, <3>2
  <2>2. CASE c = "orders_started"
    BY <2>2, Grows DEF Counted, Started, Occupied
  <2>3. CASE c = "fault_count"
    BY <2>3, Grows DEF Counted, FactsIn, Occupied
  <2>4. CASE c = "cip_runs"
    <3>1. /\ Counted(c, bs, be) = {i \in DOMAIN cips : bs <= cips[i].start /\ cips[i].start < be}
          /\ Counted(c, bs, be)' = {i \in DOMAIN cips' : bs <= cips'[i].start /\ cips'[i].start < be}
      BY <2>4 DEF Counted, Occupied
    <3> QED
      BY <3>1, Grows
  <2> QED
    BY <2>1, <2>2, <2>3, <2>4 DEF Columns
<1> QED
  BY <1>2, <1>3, FS_Subset

CountsInv(i) ==
  LET cols == rollups[i].cols
      open == rollups[i].open
      began == {s \in spans : s.start < open}
  IN  /\ open + Cap > EndOf(i) /\ EndOf(i) <= latest
      /\ open <= openAt \/ EndOf(i) <= openAt
      /\ \A c \in Occupied : cols[c] = Cardinality(UnitsBefore(i, c, open))
      /\ cols["orders_started"] =
           Cardinality({s \in began : s.state = "AutoCycle" /\ InBucket(i, s.start)})
      /\ \A c \in Columns, b, e \in Nat :
           b = rollups[i].bucket /\ e = EndOf(i) => cols[c] <= Cardinality(Counted(c, b, e))

RowsInv == \A i \in RowsOfKind("machine") : CountsInv(i)

(* The end of a bucket. *)
LEMMA EndOfIs ==
  ASSUME BasicInv, NEW i \in DOMAIN rollups
  PROVE  /\ EndOf(i) = rollups[i].bucket + Width(rollups[i].grain)
         /\ EndOf(i) \in Nat /\ rollups[i].bucket \in Nat /\ rollups[i].bucket < EndOf(i)
         /\ rollups[i].open \in Nat /\ rollups[i].grain \in Grains
         /\ rollups[i].kind = "machine" => \A c \in Columns : rollups[i].cols[c] \in Nat
<1>1. /\ rollups[i].grain \in Grains /\ rollups[i].bucket \in Nat /\ rollups[i].open \in Nat
      /\ rollups[i].kind = "machine" => rollups[i].cols \in [Columns -> Nat]
  BY Fields DEF BasicInv
<1>2. Width(rollups[i].grain) \in Nat \ {0}
  BY <1>1, Widths
<1> QED
  BY <1>1, <1>2 DEF EndOf

LEMMA RowKept ==
  ASSUME BasicInv, BasicInv', Next, NEW i \in RowsOfKind("machine"), CountsInv(i),
         rollups'[i] = rollups[i]
  PROVE  CountsInv(i)'
<1> DEFINE r == rollups[i]
           open == r.open
           end == EndOf(i)
<1>1. EndOf(i)' = end /\ i \in DOMAIN rollups /\ r.kind = "machine"
  BY DEF EndOf, Width, RowsOfKind
<1>2. /\ open \in Nat /\ end \in Nat /\ r.bucket \in Nat /\ Cap \in Nat
      /\ \A c \in Columns : r.cols[c] \in Nat
      /\ openAt \in Nat /\ latest \in Nat
  BY <1>1, EndOfIs, Widths DEF BasicInv, TypeOK
<1>3. /\ open + Cap > end /\ end <= latest /\ (open <= openAt \/ end <= openAt)
  BY DEF CountsInv
<1>4. /\ latest' \in Nat /\ latest <= latest'
      /\ openAt' \in Nat /\ (openAt <= openAt' \/ latest <= openAt')
      /\ spans \subseteq spans' /\ \A s \in spans' : s \in spans \/ s.start = openAt
  BY Grows
<1> HIDE DEF open, end
<1>5. end <= latest' /\ (open <= openAt' \/ end <= openAt')
  BY <1>2, <1>3, <1>4
<1>6. \A s \in spans' : s \in spans \/ ~ s.start < open \/ end <= s.start
  BY <1>2, <1>3, <1>4
<1>7. \A c \in Occupied : UnitsBefore(i, c, open)' = UnitsBefore(i, c, open)
  <2> TAKE c \in Occupied
  <2>1. /\ UnitsBefore(i, c, open) =
             {u \in r.bucket .. end - 1 :
                \E s \in spans : /\ ColumnOf(s.state) = c /\ s.start < open
                                 /\ s.start <= u /\ u < s.end}
        /\ UnitsBefore(i, c, open)' =
             {u \in r.bucket .. end - 1 :
                \E s \in spans' : /\ ColumnOf(s.state) = c /\ s.start < open
                                  /\ s.start <= u /\ u < s.end}
    BY <1>1 DEF UnitsBefore, open, end
  <2>2. \A u \in r.bucket .. end - 1 : \A s \in spans' :
          s.start < open /\ s.start <= u => s \in spans
    <3>1. \A s \in spans' : s.start \in Nat
      BY <1>4, Fields DEF BasicInv, TypeOK
    <3> QED
      BY <1>2, <1>6, <3>1
  <2> QED
    BY <1>4, <2>1, <2>2
<1>8. {s \in {q \in spans' : q.start < open} : s.state = "AutoCycle" /\ InBucket(i, s.start)'}
      = {s \in {q \in spans : q.start < open} : s.state = "AutoCycle" /\ InBucket(i, s.start)}
  <2>1. /\ \A t : InBucket(i, t) <=> r.bucket <= t /\ t < end
        /\ \A t : InBucket(i, t)' <=> r.bucket <= t /\ t < end
    BY <1>1 DEF InBucket, end
  <2>2. \A s \in spans' : s.start < open /\ s.start < end => s \in spans
    <3>1. \A s \in spans' : s.start \in Nat
      BY <1>4, Fields DEF BasicInv, TypeOK
    <3> QED
      BY <1>2, <1>6, <3>1
  <2> QED
    BY <1>4, <2>1, <2>2
<1>9. ASSUME NEW c \in Columns, NEW b \in Nat, NEW e \in Nat, b = r.bucket, e = end
      PROVE  r.cols[c] <= Cardinality(Counted(c, b, e)')
  <2>1. Cardinality(Counted(c, b, e)) <= Cardinality(Counted(c, b, e)')
    BY CountsGrow
  <2>2. r.cols[c] <= Cardinality(Counted(c, b, e))
    BY <1>9 DEF CountsInv, end
  <2>3. Cardinality(Counted(c, b, e)) \in Nat /\ Cardinality(Counted(c, b, e)') \in Nat
    <3>1. EveryCountFinite /\ EveryCountFinite'
      BY CountsFinite, PTL
    <3> QED
      BY <3>1 DEF EveryCountFinite
  <2> QED
    BY <1>2, <2>1, <2>2, <2>3
<1> QED
  BY <1>1, <1>3, <1>5, <1>7, <1>8, <1>9 DEF CountsInv, open, end

(* The row that is written counts what its bucket holds. *)
LEMMA NewRowCounts ==
  ASSUME BasicInv, NEW g \in Grains, EmitMachineRow(g),
         NEW i \in DOMAIN rollups', i = Len(rollups) + 1
  PROVE  rollups'[i].kind = "machine" /\ CountsInv(i)'
<1> DEFINE n == NextBucket(g)
           end == n + Width(g)
           r == rollups'[i]
<1>1. PICK row \in MachineRow :
        /\ rollups' = Append(rollups, row)
        /\ row.kind = "machine" /\ row.grain = g /\ row.bucket = n /\ row.open = openAt
        /\ \A c \in Columns : row.cols[c] = Cardinality(Counted(c, n, n + Width(g)))
  BY MachineRowIs
<1>2. /\ r.kind = "machine" /\ r.grain = g /\ r.bucket = n /\ r.open = openAt
      /\ \A c \in Columns : r.cols[c] = Cardinality(Counted(c, n, end))
  <2>1. r = row
    BY <1>1, Appended DEF BasicInv
  <2> QED
    BY <1>1, <2>1
<1>3. /\ pc = g /\ spans # {} /\ end <= latest
      /\ UNCHANGED <<openAt, latest, spans, facts, cips, cursor>>
  BY DEF EmitMachineRow, HasBucket, envVars, replicaVars
<1>4. n \in Nat /\ end \in Nat /\ latest \in Nat /\ openAt \in Nat /\ latest < openAt + Cap /\ Cap \in Nat
  <2>1. n \in Nat /\ Width(g) \in Nat /\ pc # "idle"
    BY <1>3, NextBucketIs, Widths, Places
  <2> QED
    BY <2>1, Widths DEF BasicInv, TypeOK, TimelineInv
<1>5. \A s \in spans : s.start \in Nat /\ s.start < openAt
  <2>1. \A s \in spans : s.start \in Nat /\ s.end \in Nat /\ s.start < s.end /\ s.end <= openAt
    BY Fields DEF BasicInv, TimelineInv
  <2> QED
    BY <1>4, <2>1
<1>6. EndOf(i)' = end
  BY <1>2 DEF EndOf, Width
<1> HIDE DEF n, end
<1>7. r.open + Cap > EndOf(i)' /\ EndOf(i)' <= latest' /\ r.open <= openAt'
  BY <1>2, <1>3, <1>4, <1>6
<1>8. ASSUME NEW c \in Occupied PROVE r.cols[c] = Cardinality(UnitsBefore(i, c, openAt)')
  <2>1. UnitsBefore(i, c, openAt)' =
          {u \in n .. end - 1 : \E s \in spans : /\ ColumnOf(s.state) = c /\ s.start < openAt
                                                 /\ s.start <= u /\ u < s.end}
    BY <1>2, <1>3, <1>6 DEF UnitsBefore
  <2>2. Counted(c, n, end) =
          {u \in n .. end - 1 : \E s \in spans : ColumnOf(s.state) = c /\ s.start <= u /\ u < s.end}
    BY <1>8 DEF Counted, Covered, Occupied
  <2>3. UnitsBefore(i, c, openAt)' = Counted(c, n, end)
    BY <1>5, <2>1, <2>2
  <2> QED
    BY <1>2, <2>3 DEF Columns
<1>9. r.cols["orders_started"] =
        Cardinality({s \in {q \in spans' : q.start < openAt} : s.state = "AutoCycle" /\ InBucket(i, s.start)'})
  <2>1. \A t : InBucket(i, t)' <=> n <= t /\ t < end
    BY <1>2, <1>6 DEF InBucket
  <2>2. Counted("orders_started", n, end) =
          {s \in spans : s.state = "AutoCycle" /\ n <= s.start /\ s.start < end}
    BY DEF Counted, Started, Occupied
  <2>3. {s \in {q \in spans' : q.start < openAt} : s.state = "AutoCycle" /\ InBucket(i, s.start)'}
        = Counted("orders_started", n, end)
    BY <1>3, <1>5, <2>1, <2>2
  <2> QED
    BY <1>2, <2>3 DEF Columns
<1>10. ASSUME NEW c \in Columns, NEW b \in Nat, NEW e \in Nat, b = n, e = end
       PROVE  r.cols[c] <= Cardinality(Counted(c, b, e)')
  <2>1. Counted(c, b, e)' = Counted(c, b, e)
    BY <1>3 DEF Counted, Covered, Started, FactsIn
  <2>2. Cardinality(Counted(c, b, e)) \in Nat
    BY CountsFinite DEF EveryCountFinite
  <2> QED
    BY <1>2, <1>10, <2>1, <2>2
<1> QED
  BY <1>2, <1>3, <1>6, <1>7, <1>8, <1>9, <1>10 DEF CountsInv

LEMMA RowsInit == Init => RowsInv
BY DEF Init, RowsInv, RowsOfKind

LEMMA RowsStep == BasicInv /\ BasicInv' /\ RowsInv /\ [Next]_vars => RowsInv'
<1> SUFFICES ASSUME BasicInv, BasicInv', RowsInv, [Next]_vars PROVE RowsInv'
  OBVIOUS
<1>1. ASSUME Next, UNCHANGED rollups PROVE RowsInv'
  BY <1>1, RowKept DEF RowsInv, RowsOfKind
<1>2. ASSUME Next, NEW g \in Grains, EmitMachineRow(g) PROVE RowsInv'
  <2>1. PICK row \in MachineRow : rollups' = Append(rollups, row)
    BY <1>2, MachineRowIs
  <2>2. /\ DOMAIN rollups' = DOMAIN rollups \cup {Len(rollups) + 1}
        /\ \A i \in DOMAIN rollups : rollups'[i] = rollups[i]
    BY <2>1, Appended DEF BasicInv
  <2>3. ASSUME NEW i \in RowsOfKind("machine")' PROVE CountsInv(i)'
    <3>1. i \in DOMAIN rollups' /\ rollups'[i].kind = "machine"
      BY DEF RowsOfKind
    <3>2. CASE i \in DOMAIN rollups
      <4>1. i \in RowsOfKind("machine") /\ CountsInv(i)
        BY <2>2, <3>1, <3>2 DEF RowsOfKind, RowsInv
      <4> QED
        BY <1>2, <2>2, <3>2, <4>1, RowKept
    <3>3. CASE i = Len(rollups) + 1
      BY <1>2, <3>1, <3>3, NewRowCounts
    <3> QED
      BY <2>2, <3>1, <3>2, <3>3
  <2> QED
    BY <2>3 DEF RowsInv
<1>3. ASSUME Next, NEW g \in Grains, pc = RowsOf(g), NEW row \in KeyedRows(g), EmitKeyedRow(g, row)
      PROVE  RowsInv'
  <2>1. row.kind # "machine"
    BY <1>3, KeyedRowIs
  <2>2. /\ DOMAIN rollups' = DOMAIN rollups \cup {Len(rollups) + 1}
        /\ \A i \in DOMAIN rollups : rollups'[i] = rollups[i]
        /\ rollups'[Len(rollups) + 1] = row
    BY <1>3, Appended DEF BasicInv, EmitKeyedRow
  <2>3. RowsOfKind("machine")' = RowsOfKind("machine")
        /\ \A i \in RowsOfKind("machine") : rollups'[i] = rollups[i]
    BY <2>1, <2>2 DEF RowsOfKind
  <2> QED
    BY <1>3, <2>3, RowKept DEF RowsInv
<1>4. CASE UNCHANGED vars
  <2>1. UNCHANGED <<rollups, spans, facts, cips, openAt, latest>>
    BY <1>4 DEF vars, envVars, replicaVars
  <2>2. RowsOfKind("machine")' = RowsOfKind("machine")
    BY <2>1 DEF RowsOfKind
  <2>3. ASSUME NEW i \in RowsOfKind("machine"), CountsInv(i) PROVE CountsInv(i)'
    <3> DEFINE open == rollups[i].open
    <3>1. /\ EndOf(i)' = EndOf(i) /\ rollups'[i] = rollups[i]
          /\ \A t : InBucket(i, t)' <=> InBucket(i, t)
      BY <2>1 DEF EndOf, Width, InBucket
    <3>2. \A c \in Occupied : UnitsBefore(i, c, open)' = UnitsBefore(i, c, open)
      BY <2>1 DEF EndOf, Width, UnitsBefore
    <3>3. \A c, b, e : Counted(c, b, e)' = Counted(c, b, e)
      BY <2>1 DEF Counted, Covered, Started, FactsIn
    <3>4. {s \in {q \in spans' : q.start < open} : s.state = "AutoCycle" /\ InBucket(i, s.start)'}
          = {s \in {q \in spans : q.start < open} : s.state = "AutoCycle" /\ InBucket(i, s.start)}
      BY <2>1, <3>1
    <3> QED
      BY <2>1, <2>3, <3>1, <3>2, <3>3, <3>4 DEF CountsInv
  <2> QED
    BY <2>2, <2>3 DEF RowsInv
<1>5. ASSUME Next
      PROVE  \/ UNCHANGED rollups
             \/ \E g \in Grains : EmitMachineRow(g)
             \/ \E g \in Grains : pc = RowsOf(g) /\ \E row \in KeyedRows(g) : EmitKeyedRow(g, row)
  BY <1>5, NextCases DEF FlushInterval, BeginDerived, EmitCIPRun, EndCIPRuns, SaveCursor, EndGrain,
                         TickFails, Crash
<1> QED
  BY <1>1, <1>2, <1>3, <1>4, <1>5

(* A machine row counts, unit by unit, what the closed intervals put into  *)
(* its bucket when it was written; what it misses lies in the one that was *)
(* open, and that had begun less than the cap before the bucket's end      *)
(* (emitHourly and emitDaily behind lastTimelineMS, aggregate).            *)
THEOREM CountsAreFinal == Spec => []BucketsMissOnlyTheOpenInterval
<1>1. BasicInv /\ RowsInv => BucketsMissOnlyTheOpenInterval
  BY DEF RowsInv, CountsInv, BucketsMissOnlyTheOpenInterval
<1> QED
  BY BasicInit, BasicStep, RowsInit, RowsStep, <1>1, PTL DEF Spec

-----------------------------------------------------------------------------
(* A day counts at least what its hours do: each hour's rows count no more *)
(* than the hour holds, the hours are disjoint, and the day is written     *)
(* behind them all.                                                        *)

Hours(d) == {h \in RowsOfKind("machine") :
               rollups[h].grain = "hour" /\ InBucket(d, rollups[h].bucket)}
Buckets(d) == {rollups[h].bucket : h \in Hours(d)}
MostOf(d, b, c) == Max({rollups[h].cols[c] : h \in {x \in Hours(d) : rollups[x].bucket = b}})
MostOfEach(d, c) == [b \in Buckets(d) |-> MostOf(d, b, c)]

SumsBelow(d) ==
  \A c \in Columns : /\ IsFiniteSet(Buckets(d)) /\ MostOfEach(d, c) \in [Buckets(d) -> Nat]
                     /\ \A F : IsSum(F, Buckets(d), MostOfEach(d, c)) =>
                          /\ F[Buckets(d)] \in Nat
                          /\ \A b, e \in Nat : b = rollups[d].bucket /\ e = EndOf(d) =>
                               F[Buckets(d)] <= Cardinality(Counted(c, b, e))

EveryDaySums ==
  \A d \in RowsOfKind("machine") : rollups[d].grain = "day" => SumsBelow(d)

(* What two hours count is not counted twice, and the day counts it, too. *)
LEMMA CountedApart ==
  ASSUME BasicInv, NEW c \in Columns, NEW a \in Nat, NEW b \in Nat, NEW w \in Nat,
         NEW bs \in Nat, NEW be \in Nat
  PROVE  /\ a + w <= b \/ b + w <= a => Counted(c, a, a + w) \cap Counted(c, b, b + w) = {}
         /\ bs <= a /\ a + w <= be => Counted(c, a, a + w) \subseteq Counted(c, bs, be)
<1>1. CASE c \in Occupied
  <2>1. \A x, y \in Nat : Counted(c, x, y) =
          {u \in x .. y - 1 : \E s \in spans : ColumnOf(s.state) = c /\ s.start <= u /\ u < s.end}
    BY <1>1 DEF Counted, Covered, Occupied
  <2> QED
    BY <2>1
<1>2. CASE c = "orders_started"
  <2>1. \A x, y \in Nat : Counted(c, x, y) =
          {s \in spans : s.state = "AutoCycle" /\ x <= s.start /\ s.start < y}
    BY <1>2 DEF Counted, Started, Occupied
  <2>2. \A s \in spans : s.start \in Nat
    BY Fields DEF BasicInv
  <2> QED
    BY <2>1, <2>2
<1>3. CASE c = "fault_count"
  <2>1. \A x, y \in Nat : Counted(c, x, y) =
          {f \in facts : f.kind = "fault_type" /\ x <= f.at /\ f.at < y}
    BY <1>3 DEF Counted, FactsIn, Occupied
  <2>2. \A f \in facts : f.at \in Nat
    BY Fields DEF BasicInv
  <2> QED
    BY <2>1, <2>2
<1>4. CASE c = "cip_runs"
  <2>1. \A x, y \in Nat : Counted(c, x, y) =
          {i \in DOMAIN cips : x <= cips[i].start /\ cips[i].start < y}
    BY <1>4 DEF Counted, Occupied
  <2>2. \A i \in DOMAIN cips : cips[i].start \in Nat
    BY Fields DEF BasicInv
  <2> QED
    BY <2>1, <2>2
<1> QED
  BY <1>1, <1>2, <1>3, <1>4 DEF Columns

LEMMA SumsBounded == BasicInv /\ BucketsInv /\ RowsInv => EveryDaySums
<1> SUFFICES ASSUME BasicInv, BucketsInv, RowsInv,
                    NEW d \in RowsOfKind("machine"), rollups[d].grain = "day"
             PROVE  SumsBelow(d)
  BY DEF EveryDaySums
<1> DEFINE D == rollups[d].bucket
           E == EndOf(d)
<1>1. /\ D \in Nat /\ E \in Nat /\ E = D + Day /\ D % Hour = 0 /\ E % Hour = 0
      /\ Hour \in Nat \ {0} /\ Day \in Nat \ {0}
  <2>1. d \in DOMAIN rollups /\ D % Day = 0
    BY Widths DEF RowsOfKind, BucketsInv, BucketsOnce
  <2>2. D \in Nat /\ E \in Nat /\ E = D + Day
    BY <2>1, EndOfIs, Widths
  <2>3. /\ Hour \in Nat \ {0} /\ Day \in Nat \ {0} /\ Day % Hour = 0
    BY Widths
  <2> HIDE DEF D, E
  <2>4. E % Day = 0
    BY <2>1, <2>2, <2>3, NextMultiple
  <2> QED
    BY <2>1, <2>2, <2>3, <2>4, MultipleOfMultiple
<1>2. ASSUME NEW h \in Hours(d)
      PROVE  LET b == rollups[h].bucket
             IN  /\ h \in RowsOfKind("machine") /\ b \in Nat /\ EndOf(h) = b + Hour /\ b % Hour = 0
                 /\ D <= b /\ b + Hour <= E
  <2> DEFINE b == rollups[h].bucket
  <2>1. h \in RowsOfKind("machine") /\ h \in DOMAIN rollups /\ rollups[h].grain = "hour"
        /\ D <= b /\ b < E
    BY DEF Hours, RowsOfKind, InBucket
  <2>2. b \in Nat /\ EndOf(h) = b + Hour /\ b % Hour = 0
    BY <2>1, EndOfIs, Widths DEF BucketsInv, BucketsOnce
  <2> HIDE DEF b, D, E
  <2>3. b + Hour <= E
    BY <1>1, <2>1, <2>2, MultiplesApart
  <2> QED
    BY <2>1, <2>2, <2>3 DEF b
<1> HIDE DEF D, E
<1>3. \A b \in Buckets(d) : b \in Nat /\ b % Hour = 0 /\ D <= b /\ b + Hour <= E
  BY <1>2 DEF Buckets
<1>4. IsFiniteSet(Buckets(d))
  <2>1. Buckets(d) \in SUBSET (D .. E)
    BY <1>1, <1>3
  <2>2. IsFiniteSet(D .. E)
    BY <1>1, FS_Interval
  <2> QED
    BY <2>1, <2>2, FS_Subset
<1>5. ASSUME NEW c \in Columns PROVE
        /\ MostOfEach(d, c) \in [Buckets(d) -> Nat]
        /\ \A F : IsSum(F, Buckets(d), MostOfEach(d, c)) =>
             F[Buckets(d)] \in Nat /\ F[Buckets(d)] <= Cardinality(Counted(c, D, E))
  <2> DEFINE T == Buckets(d)
             w == MostOfEach(d, c)
             U == [b \in T |-> Counted(c, b, b + Hour)]
  <2>1. \A x, y \in Nat : IsFiniteSet(Counted(c, x, y)) /\ Cardinality(Counted(c, x, y)) \in Nat
    BY CountsFinite DEF EveryCountFinite
  <2>2. ASSUME NEW b \in T PROVE w[b] \in Nat /\ w[b] <= Cardinality(Counted(c, b, b + Hour))
    <3> DEFINE S == {rollups[h].cols[c] : h \in {x \in Hours(d) : rollups[x].bucket = b}}
               m == Cardinality(Counted(c, b, b + Hour))
    <3>0. b \in Nat /\ b + Hour \in Nat
      BY <1>1, <1>3
    <3>1. b \in Nat /\ b + Hour \in Nat /\ m \in Nat
      BY <2>1, <3>0
    <3>2. w[b] = Max(S)
      BY DEF MostOfEach, MostOf
    <3>3. \A h \in Hours(d) : rollups[h].bucket = b => rollups[h].cols[c] \in Nat /\ rollups[h].cols[c] <= m
      <4> TAKE h \in Hours(d)
      <4> HAVE rollups[h].bucket = b
      <4>1. h \in RowsOfKind("machine") /\ EndOf(h) = b + Hour
        BY <1>2
      <4>2. CountsInv(h) /\ rollups[h].cols[c] \in Nat
        BY <4>1, EndOfIs DEF RowsInv, RowsOfKind
      <4> QED
        BY <3>1, <4>1, <4>2 DEF CountsInv
    <3>4. S \in SUBSET (0 .. m) /\ S # {}
      <4>1. \E h \in Hours(d) : rollups[h].bucket = b
        BY DEF Buckets
      <4> HIDE DEF m
      <4> QED
        BY <3>1, <3>3, <4>1
    <3> HIDE DEF S, m
    <3>5. PICK x \in S : \A y \in S : y <= x
      BY <3>1, <3>4, GreatestNumber
    <3>6. \A y \in S : x >= y
      BY <3>4, <3>5
    <3>7. Max(S) \in S
      BY <3>5, <3>6 DEF Max
    <3>8. Max(S) \in Nat /\ Max(S) <= m
      <4>1. \A z \in 0 .. m : z \in Nat /\ z <= m
        BY <3>1
      <4> QED
        BY <3>4, <3>7, <4>1
    <3> QED
      BY <3>2, <3>8 DEF m
  <2>3. w \in [T -> Nat]
    BY <2>2 DEF MostOfEach
  <2>4. \A b \in T : IsFiniteSet(U[b]) /\ w[b] <= Cardinality(U[b])
    <3>1. \A b \in T : U[b] = Counted(c, b, b + Hour) /\ b \in Nat /\ b + Hour \in Nat
      BY <1>1, <1>3
    <3> HIDE DEF U, T, w
    <3> QED
      BY <2>1, <2>2, <3>1
  <2>5. ASSUME NEW a \in T, NEW b \in T, a # b PROVE U[a] \cap U[b] = {}
    <3>1. /\ U[a] = Counted(c, a, a + Hour) /\ U[b] = Counted(c, b, b + Hour)
          /\ a \in Nat /\ b \in Nat /\ a % Hour = 0 /\ b % Hour = 0
      BY <1>3
    <3> HIDE DEF T, U
    <3>2. a + Hour <= b \/ b + Hour <= a
      <4>1. a < b \/ b < a
        BY <2>5, <3>1
      <4>2. a < b => a + Hour <= b
        BY <1>1, <3>1, MultiplesApart
      <4>3. b < a => b + Hour <= a
        BY <1>1, <3>1, MultiplesApart
      <4> QED
        BY <4>1, <4>2, <4>3
    <3> QED
      BY <1>1, <3>1, <3>2, CountedApart
  <2>6. ASSUME NEW b \in T PROVE U[b] \subseteq Counted(c, D, E)
    <3>1. U[b] = Counted(c, b, b + Hour) /\ b \in Nat /\ D <= b /\ b + Hour <= E
      BY <1>3
    <3> QED
      BY <1>1, <3>1, CountedApart
  <2> HIDE DEF T, w, U
  <2>7. ASSUME NEW F, IsSum(F, T, w)
        PROVE  F[T] \in Nat /\ F[T] <= Cardinality(Counted(c, D, E))
    <3> DEFINE all == UNION {U[b] : b \in T}
    <3>1. IsFiniteSet(T)
      BY <1>4 DEF T
    <3>2. IsFiniteSet(all) /\ F[T] \in Nat /\ F[T] <= Cardinality(all)
      BY <2>3, <2>4, <2>5, <2>7, <3>1, SumOfSizes
    <3>3. all \in SUBSET Counted(c, D, E)
      BY <2>6
    <3>4. IsFiniteSet(Counted(c, D, E)) /\ Cardinality(Counted(c, D, E)) \in Nat
      BY <1>1, <2>1
    <3> HIDE DEF all
    <3>5. Cardinality(all) <= Cardinality(Counted(c, D, E)) /\ Cardinality(all) \in Nat
      BY <3>2, <3>3, <3>4, FS_Subset, FS_CardinalityType
    <3> QED
      BY <3>2, <3>4, <3>5
  <2> QED
    BY <2>3, <2>7 DEF T, w
<1> QED
  BY <1>4, <1>5 DEF SumsBelow, D, E

DayInv(d) ==
  /\ \A h \in Hours(d) : h < d
  /\ \A c \in Columns : \A F :
       IsSum(F, Buckets(d), MostOfEach(d, c)) => rollups[d].cols[c] >= F[Buckets(d)]

DaysInv ==
  /\ pc \in {"day", RowsOf("day")} => spans = {} \/ latest < NextBucket("hour") + Hour
  /\ \A d \in DOMAIN rollups : rollups[d].grain = "day" => EndOf(d) <= NextBucket("hour")
  /\ \A i, j \in DOMAIN rollups : j < i /\ EndOf(i) < EndOf(j) => rollups[i].grain = "day"
  /\ \A d \in RowsOfKind("machine") : rollups[d].grain = "day" => DayInv(d)

LEMMA DaysInit == Init => DaysInv
<1> SUFFICES ASSUME Init PROVE DaysInv
  OBVIOUS
<1>1. DOMAIN rollups = {} /\ pc \notin {"day", RowsOf("day")}
  BY Places DEF Init
<1> QED
  BY <1>1 DEF DaysInv, RowsOfKind

(* The day's row is behind its hours and stays so. *)
LEMMA DayKept ==
  ASSUME NEW d \in RowsOfKind("machine"), rollups'[d] = rollups[d], DayInv(d),
         Hours(d)' = Hours(d), \A h \in Hours(d) : rollups'[h] = rollups[h]
  PROVE  DayInv(d)'
<1>1. Buckets(d)' = Buckets(d)
  BY DEF Buckets
<1>2. \A c \in Columns : MostOfEach(d, c)' = MostOfEach(d, c)
  <2> TAKE c \in Columns
  <2>1. \A b \in Buckets(d) :
          {rollups'[h].cols[c] : h \in {x \in Hours(d)' : rollups'[x].bucket = b}}
          = {rollups[h].cols[c] : h \in {x \in Hours(d) : rollups[x].bucket = b}}
    OBVIOUS
  <2>2. \A b \in Buckets(d) : MostOf(d, b, c)' = MostOf(d, b, c)
    BY <2>1 DEF MostOf
  <2> QED
    BY <1>1, <2>2 DEF MostOfEach
<1> QED
  BY <1>1, <1>2 DEF DayInv

(* A step that writes no row. *)
LEMMA DaysKept ==
  ASSUME BasicInv, BucketsInv, DaysInv, UNCHANGED rollups,
         spans # {} => NextBucket("hour") \in Nat,
         rollups # <<>> => NextBucket("hour")' \in Nat /\ NextBucket("hour") <= NextBucket("hour")',
         pc' \in {"day", RowsOf("day")} => spans' = {} \/ latest' < NextBucket("hour")' + Hour
  PROVE  DaysInv'
<1>1. /\ RowsOfKind("machine")' = RowsOfKind("machine")
      /\ \A i \in DOMAIN rollups : EndOf(i)' = EndOf(i)
      /\ \A d \in RowsOfKind("machine") : Hours(d)' = Hours(d)
  BY DEF RowsOfKind, EndOf, Width, Hours, InBucket
<1>2. ASSUME NEW d \in DOMAIN rollups, rollups[d].grain = "day" PROVE EndOf(d)' <= NextBucket("hour")'
  <2>1. rollups # <<>> /\ spans # {}
    BY DEF BucketsInv, CursorInv, InPlace
  <2>2. EndOf(d) <= NextBucket("hour") /\ EndOf(d) \in Nat
    BY <1>2, EndOfIs DEF DaysInv
  <2> QED
    BY <1>1, <2>1, <2>2
<1>3. \A d \in RowsOfKind("machine") : rollups[d].grain = "day" => DayInv(d)'
  <2> TAKE d \in RowsOfKind("machine")
  <2> HAVE rollups[d].grain = "day"
  <2>1. DayInv(d) /\ \A h \in Hours(d) : rollups'[h] = rollups[h]
    BY DEF DaysInv
  <2> QED
    BY <1>1, <2>1, DayKept
<1> QED
  BY <1>1, <1>2, <1>3 DEF DaysInv

(* A row that is appended behind the others. *)
LEMMA DaysAppended ==
  ASSUME BasicInv, BucketsInv, DaysInv, NEW g \in Grains, NEW row,
         rollups' = Append(rollups, row), row.grain = g, row.bucket = NextBucket(g),
         spans # {}, pc = g \/ pc = RowsOf(g), pc' = RowsOf(g),
         g = "day" => NextBucket("day") + Day <= NextBucket("hour"),
         UNCHANGED <<spans, facts, cursor, latest>>,
         \A d \in RowsOfKind("machine")' : d = Len(rollups) + 1 /\ g = "day" => DayInv(d)'
  PROVE  DaysInv'
<1> DEFINE k == Len(rollups) + 1
           n == NextBucket("hour")
<1>1. /\ DOMAIN rollups' = DOMAIN rollups \cup {k} /\ k \notin DOMAIN rollups
      /\ \A i \in DOMAIN rollups : rollups'[i] = rollups[i]
      /\ rollups'[k] = row
  BY Appended DEF BasicInv
<1>2. /\ k \in Nat /\ \A i \in DOMAIN rollups : i \in Nat /\ i < k
  BY Fields DEF BasicInv
<1>3. /\ n \in Nat /\ cursor["hour"] \in Nat /\ cursor["hour"] < n /\ Hour \in Nat \ {0}
  <2>1. "hour" \in Grains
    BY DEF Grains
  <2> QED
    BY <2>1, NextBucketIs, Fields, Widths DEF BasicInv
<1>4. NextBucket("hour")' = n
  BY DEF NextBucket, Earliest
<1>5. \A i \in DOMAIN rollups : EndOf(i)' = EndOf(i) /\ EndOf(i) \in Nat /\ rollups[i].grain \in Grains
  BY <1>1, EndOfIs DEF EndOf, Width
<1>6. ASSUME NEW i \in DOMAIN rollups PROVE EndOf(i) <= n + Hour
  <2>1. CASE rollups[i].grain = "hour"
    <3>1. EndOf(i) = rollups[i].bucket + Hour /\ rollups[i].bucket \in Nat
      BY <2>1, EndOfIs, Widths
    <3>2. rollups[i].bucket <= cursor["hour"] \/ rollups[i].bucket = n
      BY <2>1 DEF BucketsInv, CursorInv, InPlace
    <3> HIDE DEF n
    <3> QED
      BY <1>3, <3>1, <3>2
  <2>2. CASE rollups[i].grain = "day"
    <3>1. EndOf(i) <= n /\ EndOf(i) \in Nat
      BY <1>5, <2>2 DEF DaysInv
    <3> HIDE DEF n
    <3> QED
      BY <1>3, <3>1
  <2> QED
    BY <1>5, <2>1, <2>2 DEF Grains
<1> HIDE DEF k, n
<1>7. ASSUME NEW i \in DOMAIN rollups', i = k
      PROVE  /\ rollups'[i].grain = g /\ rollups'[i].bucket = NextBucket(g)
             /\ g = "hour" => EndOf(i)' = n + Hour
             /\ g = "day" => EndOf(i)' <= n
  <2>1. rollups'[i].grain = g /\ rollups'[i].bucket = NextBucket(g)
    BY <1>1, <1>7
  <2>2. g = "hour" => EndOf(i)' = n + Hour
    BY <2>1 DEF EndOf, Width, n
  <2>3. g = "day" => EndOf(i)' <= n
    BY <2>1 DEF EndOf, Width, n
  <2> QED
    BY <2>1, <2>2, <2>3
<1>8. \A d \in DOMAIN rollups' : rollups'[d].grain = "day" => EndOf(d)' <= n
  <2>1. ASSUME NEW d \in DOMAIN rollups, rollups'[d].grain = "day" PROVE EndOf(d)' <= n
    BY <1>1, <1>5, <2>1 DEF DaysInv, n
  <2> QED
    BY <1>1, <1>7, <2>1
<1>9. \A i, j \in DOMAIN rollups' : j < i /\ EndOf(i)' < EndOf(j)' => rollups'[i].grain = "day"
  <2> TAKE i, j \in DOMAIN rollups'
  <2> HAVE j < i /\ EndOf(i)' < EndOf(j)'
  <2>1. CASE i \in DOMAIN rollups
    <3>1. j \in DOMAIN rollups
      BY <1>1, <1>2, <2>1
    <3> QED
      BY <1>1, <1>5, <2>1, <3>1 DEF DaysInv
  <2>2. CASE i = k /\ g = "hour"
    <3>1. j \in DOMAIN rollups
      BY <1>1, <1>2, <2>2
    <3>2. EndOf(j)' <= n + Hour /\ EndOf(i)' = n + Hour /\ EndOf(j)' \in Nat
      BY <1>5, <1>6, <1>7, <2>2, <3>1
    <3> QED
      BY <1>3, <3>2
  <2>3. CASE i = k /\ g = "day"
    BY <1>7, <2>3
  <2> QED
    BY <1>1, <2>1, <2>2, <2>3 DEF Grains
<1>10. ASSUME NEW d \in RowsOfKind("machine")', d # k, rollups'[d].grain = "day" PROVE DayInv(d)'
  <2>1. /\ d \in DOMAIN rollups /\ d \in RowsOfKind("machine") /\ rollups'[d] = rollups[d]
        /\ rollups[d].grain = "day"
    BY <1>1, <1>10 DEF RowsOfKind
  <2>2. DayInv(d) /\ EndOf(d) <= n /\ EndOf(d) \in Nat
    BY <1>5, <2>1 DEF DaysInv, n
  <2>4. ASSUME NEW h \in Hours(d)' PROVE h \in DOMAIN rollups
    <3>1. h \in DOMAIN rollups' /\ rollups'[h].grain = "hour" /\ rollups'[h].bucket < EndOf(d)
      BY <1>5, <2>1, <2>4 DEF Hours, RowsOfKind, InBucket
    <3>2. h # k
      BY <1>3, <1>7, <2>2, <3>1 DEF n
    <3> QED
      BY <1>1, <3>1, <3>2
  <2>5. /\ Hours(d)' = {h \in RowsOfKind("machine")' :
                          /\ rollups'[h].grain = "hour"
                          /\ rollups[d].bucket <= rollups'[h].bucket /\ rollups'[h].bucket < EndOf(d)}
        /\ Hours(d) = {h \in RowsOfKind("machine") :
                          /\ rollups[h].grain = "hour"
                          /\ rollups[d].bucket <= rollups[h].bucket /\ rollups[h].bucket < EndOf(d)}
        /\ Hours(d) \subseteq DOMAIN rollups
    BY <1>5, <2>1 DEF Hours, InBucket, RowsOfKind
  <2>6. Hours(d)' = Hours(d)
    BY <1>1, <2>4, <2>5 DEF RowsOfKind
  <2> QED
    BY <1>1, <2>1, <2>2, <2>5, <2>6, DayKept
<1>11. \A d \in RowsOfKind("machine")' : rollups'[d].grain = "day" => DayInv(d)'
  <2> TAKE d \in RowsOfKind("machine")'
  <2> HAVE rollups'[d].grain = "day"
  <2>1. CASE d = k
    <3>1. g = "day" /\ d = Len(rollups) + 1
      BY <1>1, <2>1 DEF k
    <3> QED
      BY <3>1
  <2> QED
    BY <1>10, <2>1
<1>12. pc' \in {"day", RowsOf("day")} => latest' < NextBucket("hour")' + Hour
  <2>1. pc' = RowsOf("day") => pc \in {"day", RowsOf("day")}
    BY Places DEF Grains
  <2>2. pc' # "day"
    BY Places DEF Grains
  <2> QED
    BY <1>4, <2>1, <2>2 DEF DaysInv, n
<1> QED
  BY <1>4, <1>8, <1>9, <1>11, <1>12 DEF DaysInv

(* The row of a day is behind the rows of its hours and counts no less. *)
LEMMA NewDay ==
  ASSUME BasicInv, BasicInv', BucketsInv', RowsInv', EmitMachineRow("day"),
         NEW d \in RowsOfKind("machine")', d = Len(rollups) + 1
  PROVE  DayInv(d)'
<1> DEFINE n == NextBucket("day")
           r == rollups'[d]
<1>0. "day" \in Grains /\ Width("day") = Day /\ Day \in Nat
  BY Widths DEF Grains
<1>1. PICK row \in MachineRow :
        /\ rollups' = Append(rollups, row) /\ row.grain = "day" /\ row.bucket = n
        /\ \A c \in Columns : row.cols[c] = Cardinality(Counted(c, n, n + Day))
  BY <1>0, MachineRowIs
<1>2. /\ r = row /\ DOMAIN rollups' = DOMAIN rollups \cup {d}
      /\ \A i \in DOMAIN rollups : rollups'[i] = rollups[i] /\ i < d
  BY <1>1, Appended, Fields DEF BasicInv
<1>3. UNCHANGED <<spans, facts, cips>> /\ spans # {}
  BY DEF EmitMachineRow, HasBucket, envVars, replicaVars
<1>4. n \in Nat /\ n + Day \in Nat
  <2>1. n \in Nat
    BY <1>0, <1>3, NextBucketIs
  <2> QED
    BY <1>0, <2>1
<1>5. EndOf(d)' = n + Day /\ r.bucket = n /\ r.grain = "day"
  BY <1>1, <1>2 DEF EndOf, Width
<1>6. \A h \in Hours(d)' : h < d
  <2>1. \A h \in Hours(d)' : h \in DOMAIN rollups' /\ rollups'[h].grain = "hour"
    BY DEF Hours, RowsOfKind
  <2> QED
    BY <1>2, <1>5, <2>1
<1>7. EveryDaySums'
  BY SumsBounded, PTL
<1>8. ASSUME NEW c \in Columns, NEW F, IsSum(F, Buckets(d)', MostOfEach(d, c)')
      PROVE  r.cols[c] >= F[Buckets(d)']
  <2>1. SumsBelow(d)'
    BY <1>5, <1>7 DEF EveryDaySums
  <2> HIDE DEF n
  <2>2. F[Buckets(d)'] \in Nat /\ \A b, e \in Nat : b = n /\ e = n + Day =>
          F[Buckets(d)'] <= Cardinality(Counted(c, b, e)')
    BY <1>5, <1>8, <2>1 DEF SumsBelow
  <2>3. \A b, e \in Nat : Counted(c, b, e)' = Counted(c, b, e)
    BY <1>3 DEF Counted, Covered, Started, FactsIn
  <2>4. F[Buckets(d)'] <= Cardinality(Counted(c, n, n + Day))
    BY <1>4, <2>2, <2>3
  <2>5. Cardinality(Counted(c, n, n + Day)) \in Nat
    BY <1>4, CountsFinite DEF EveryCountFinite
  <2>6. r.cols[c] = Cardinality(Counted(c, n, n + Day))
    BY <1>1, <1>2 DEF n
  <2> QED
    BY <2>2, <2>4, <2>5, <2>6
<1> QED
  BY <1>6, <1>8 DEF DayInv

LEMMA DaysStep ==
  BasicInv /\ BasicInv' /\ BucketsInv /\ BucketsInv' /\ RowsInv' /\ DaysInv /\ [Next]_vars => DaysInv'
<1> SUFFICES ASSUME BasicInv, BasicInv', BucketsInv, BucketsInv', RowsInv', DaysInv, [Next]_vars
             PROVE  DaysInv'
  OBVIOUS
<1> DEFINE n == NextBucket("hour")
<1>0. /\ "hour" \in Grains /\ "day" \in Grains /\ Width("hour") = Hour /\ Width("day") = Day
      /\ Hour \in Nat \ {0} /\ Day \in Nat \ {0} /\ Day % Hour = 0 /\ latest \in Nat
  BY Widths DEF Grains, BasicInv, TypeOK
<1>1. spans # {} => /\ n \in Nat /\ n % Hour = 0
                    /\ NextBucket("day") \in Nat /\ NextBucket("day") % Hour = 0
                    /\ NextBucket("day") % Day = 0
  BY <1>0, NextBucketIs
<1>2. rollups # <<>> => spans # {}
  <2>1. rollups # <<>> => 1 \in DOMAIN rollups
    <3>1. rollups \in Seq(MachineRow \cup KeyedRow)
      BY DEF BasicInv, TypeOK
    <3> QED
      BY <3>1, EmptySeq, LenProperties
  <2> QED
    BY <2>1 DEF BucketsInv, CursorInv, InPlace
<1>3. ASSUME Next \/ UNCHANGED vars, UNCHANGED rollups, cursor'["hour"] = cursor["hour"],
             pc' \in {"day", RowsOf("day")} =>
               \/ pc \in {"day", RowsOf("day")} /\ UNCHANGED <<spans, latest>>
               \/ spans' = {} \/ (UNCHANGED <<spans, latest>> /\ latest < n + Hour)
      PROVE  DaysInv'
  <2>1. spans # {} => NextBucket("hour")' = n
    <3>1. CASE Next
      BY <1>0, <1>3, <3>1, NextBucketKept
    <3>2. CASE UNCHANGED vars
      BY <3>2 DEF vars, envVars, replicaVars, NextBucket, Earliest
    <3> QED
      BY <1>3, <3>1, <3>2
  <2> HIDE DEF n
  <2>2. pc' \in {"day", RowsOf("day")} => spans' = {} \/ latest' < NextBucket("hour")' + Hour
    BY <1>3, <2>1 DEF DaysInv, n
  <2>3. spans # {} => NextBucket("hour") \in Nat
    BY <1>1 DEF n
  <2>4. rollups # <<>> => NextBucket("hour")' \in Nat /\ NextBucket("hour") <= NextBucket("hour")'
    BY <1>1, <1>2, <2>1 DEF n
  <2> QED
    BY <1>3, <2>2, <2>3, <2>4, DaysKept
<1>4. ASSUME Next,
             \/ \E e \in Times, state \in States : \E found \in Found(e) : FlushInterval(e, state, found)
             \/ \E t \in Times : BeginDerived(t)
             \/ \E span \in todo : EmitCIPRun(span)
             \/ EndCIPRuns \/ TickFails \/ \E t \in Times : Crash(t)
      PROVE  DaysInv'
  <2>1. UNCHANGED rollups /\ pc' \in {"idle", "cip", "hour"}
    BY <1>4 DEF FlushInterval, BeginDerived, EmitCIPRun, EndCIPRuns, TickFails, Crash
  <2>2. cursor'["hour"] = cursor["hour"]
    BY <1>0, <1>4, CIPCursorIs DEF FlushInterval, BeginDerived, EmitCIPRun, TickFails, Crash
  <2>3. pc' \notin {"day", RowsOf("day")}
    BY <2>1, Places
  <2> QED
    BY <1>3, <1>4, <2>1, <2>2, <2>3
<1>5. ASSUME Next, EmitMachineRow("hour") PROVE DaysInv'
  <2>1. PICK row \in MachineRow :
          rollups' = Append(rollups, row) /\ row.grain = "hour" /\ row.bucket = n
    BY <1>0, <1>5, MachineRowIs
  <2>2. /\ spans # {} /\ pc = "hour" /\ pc' = RowsOf("hour")
        /\ UNCHANGED <<spans, facts, cursor, latest>>
    BY <1>5 DEF EmitMachineRow, HasBucket, envVars, replicaVars
  <2> QED
    BY <1>0, <2>1, <2>2, DaysAppended
<1>6. ASSUME Next, EmitMachineRow("day") PROVE DaysInv'
  <2> DEFINE m == NextBucket("day")
  <2>1. PICK row \in MachineRow :
          rollups' = Append(rollups, row) /\ row.grain = "day" /\ row.bucket = m
    BY <1>0, <1>6, MachineRowIs
  <2>2. /\ spans # {} /\ pc = "day" /\ pc' = RowsOf("day") /\ m + Day <= latest
        /\ UNCHANGED <<spans, facts, cursor, latest>>
    BY <1>0, <1>6 DEF EmitMachineRow, HasBucket, envVars, replicaVars
  <2>3. latest < n + Hour
    BY <2>2 DEF DaysInv
  <2>4. m + Day <= n
    <3>1. m \in Nat /\ n \in Nat /\ m % Day = 0 /\ n % Hour = 0
      BY <1>1, <2>2
    <3> HIDE DEF m, n
    <3>2. (m + Day) \in Nat /\ (m + Day) % Hour = 0
      <4>1. (m + Day) \in Nat /\ (m + Day) % Day = 0
        BY <1>0, <3>1, NextMultiple
      <4> QED
        BY <1>0, <4>1, MultipleOfMultiple
    <3>3. n < m + Day => n + Hour <= m + Day
      BY <1>0, <3>1, <3>2, MultiplesApart
    <3> QED
      BY <1>0, <2>2, <2>3, <3>1, <3>2, <3>3
  <2>5. \A d \in RowsOfKind("machine")' : d = Len(rollups) + 1 => DayInv(d)'
    BY <1>6, NewDay
  <2> QED
    BY <1>0, <2>1, <2>2, <2>4, <2>5, DaysAppended
<1>7. ASSUME Next, NEW g \in Grains, pc = RowsOf(g), NEW row \in KeyedRows(g), EmitKeyedRow(g, row)
      PROVE  DaysInv'
  <2>1. /\ rollups' = Append(rollups, row) /\ pc' = pc
        /\ UNCHANGED <<spans, facts, cursor, latest>>
    BY <1>7 DEF EmitKeyedRow, envVars, replicaVars
  <2>2. row.kind # "machine" /\ row.grain = g /\ row.bucket = NextBucket(g)
    BY <1>7, KeyedRowIs
  <2>3. spans # {}
    BY <1>7 DEF BasicInv, TimelineInv, HasBucket
  <2>4. g = "day" => NextBucket("day") + Day <= NextBucket("hour")
    <3> SUFFICES ASSUME g = "day" PROVE NextBucket("day") + Day <= NextBucket("hour")
      OBVIOUS
    <3>1. PICK i \in DOMAIN rollups : rollups[i].grain = "day" /\ rollups[i].bucket = NextBucket("day")
      BY <1>7 DEF BucketsInv, CursorInv, Done, RowsOfKind
    <3>2. EndOf(i) = NextBucket("day") + Day
      BY <1>0, <3>1, EndOfIs
    <3> QED
      BY <3>1, <3>2 DEF DaysInv
  <2>5. \A d \in RowsOfKind("machine")' : d # Len(rollups) + 1
    BY <2>1, <2>2, Appended DEF BasicInv, RowsOfKind
  <2> QED
    BY <1>7, <2>1, <2>2, <2>3, <2>4, <2>5, DaysAppended
<1>8. ASSUME Next, NEW g \in Grains, SaveCursor(g) PROVE DaysInv'
  <2>1. /\ UNCHANGED <<rollups, spans, facts, latest>> /\ pc = RowsOf(g) /\ pc' = g
        /\ cursor' = [cursor EXCEPT ![g] = NextBucket(g)] /\ cursor \in [Grains \cup {"cip"} -> Nat]
    BY <1>8 DEF SaveCursor, envVars, replicaVars, BasicInv, TypeOK
  <2>2. CASE g = "day"
    <3>1. cursor'["hour"] = cursor["hour"]
      BY <1>0, <2>1, <2>2
    <3> QED
      BY <1>3, <1>8, <2>1, <2>2, <3>1
  <2>3. CASE g = "hour"
    <3>1. spans # {} /\ n \in Nat /\ cursor["hour"] < n /\ cursor["hour"] \in Nat
      <4>1. spans # {}
        BY <2>1 DEF BasicInv, TimelineInv, HasBucket
      <4> QED
        BY <1>0, <2>1, <4>1, NextBucketIs
    <3>2. cursor'["hour"] = n
      BY <1>0, <2>1, <2>3
    <3>3. NextBucket("hour")' = n + Hour
      <4>1. n # 0
        BY <3>1
      <4> HIDE DEF n
      <4> QED
        BY <1>0, <3>2, <4>1 DEF NextBucket
    <3>4. pc' \notin {"day", RowsOf("day")}
      BY <2>1, <2>3, Places
    <3> HIDE DEF n
    <3>5. n <= n + Hour /\ n + Hour \in Nat
      BY <1>0, <3>1
    <3> QED
      BY <2>1, <3>1, <3>3, <3>4, <3>5, DaysKept DEF n
  <2> QED
    BY <2>2, <2>3 DEF Grains
<1>9. ASSUME Next, NEW g \in Grains, EndGrain(g) PROVE DaysInv'
  <2>1. /\ UNCHANGED <<rollups, spans, facts, latest, cursor>> /\ pc = g /\ ~HasBucket(g)
        /\ pc' = IF g = "hour" THEN "day" ELSE "idle"
    BY <1>9 DEF EndGrain, envVars, replicaVars
  <2>2. CASE g = "day"
    <3>1. pc' \notin {"day", RowsOf("day")}
      BY <2>1, <2>2, Places
    <3> QED
      BY <1>3, <1>9, <2>1, <3>1
  <2>3. CASE g = "hour"
    <3>1. spans = {} \/ latest < n + Hour
      <4>1. spans = {} \/ ~(n + Hour <= latest)
        BY <1>0, <2>1, <2>3 DEF HasBucket
      <4>2. spans # {} => n \in Nat
        BY <1>1
      <4> HIDE DEF n
      <4> QED
        BY <1>0, <4>1, <4>2
    <3> QED
      BY <1>3, <1>9, <2>1, <3>1
  <2> QED
    BY <2>2, <2>3 DEF Grains
<1>10. ASSUME UNCHANGED vars PROVE DaysInv'
  <2>1. UNCHANGED <<rollups, cursor, pc, spans, latest>>
    BY <1>10 DEF vars, envVars, replicaVars
  <2> QED
    BY <1>3, <1>10, <2>1
<1>11. ASSUME Next, \E g \in Grains : EmitMachineRow(g) PROVE DaysInv'
  BY <1>5, <1>6, <1>11 DEF Grains
<1> QED
  BY <1>4, <1>7, <1>8, <1>9, <1>10, <1>11, NextCases

(* The function that the fold over the hours of a day computes. *)
DaySums(d, c) ==
  CHOOSE iter : iter = [s \in SUBSET Buckets(d) |->
    IF s = {} THEN 0
    ELSE MostOf(d, CHOOSE x \in s : TRUE, c) + iter[s \ {CHOOSE x \in s : TRUE}]]

LEMMA DaySumsIs ==
  ASSUME NEW d \in RowsOfKind("machine"), SumsBelow(d), NEW c \in Columns
  PROVE  IsSum(DaySums(d, c), Buckets(d), MostOfEach(d, c))
<1> DEFINE T == Buckets(d)
           w == MostOfEach(d, c)
           G == DaySums(d, c)
<1>1. IsFiniteSet(T) /\ w \in [T -> Nat]
  BY DEF SumsBelow
<1>2. PICK F \in [SUBSET T -> Nat] : IsSum(F, T, w)
  <2> HIDE DEF T, w
  <2> QED
    BY <1>1, SumExists
<1>3. \A s \in SUBSET T : s # {} => w[Picked(s)] = MostOf(d, CHOOSE x \in s : TRUE, c)
  <2> TAKE s \in SUBSET T
  <2> HAVE s # {}
  <2>1. Picked(s) \in s /\ Picked(s) = CHOOSE x \in s : TRUE
    BY <1>1, PickedIs, FS_Subset DEF Picked
  <2> QED
    BY <2>1 DEF MostOfEach
<1>4. F = [s \in SUBSET T |->
             IF s = {} THEN 0
             ELSE MostOf(d, CHOOSE x \in s : TRUE, c) + F[s \ {CHOOSE x \in s : TRUE}]]
  <2> HIDE DEF w, T
  <2> QED
    BY <1>2, <1>3 DEF IsSum, Picked
<1>5. G = [s \in SUBSET T |->
             IF s = {} THEN 0
             ELSE MostOf(d, CHOOSE x \in s : TRUE, c) + G[s \ {CHOOSE x \in s : TRUE}]]
  BY <1>4 DEF DaySums
<1> HIDE DEF w, T, G
<1>6. IsSum(G, T, w)
  BY <1>3, <1>5 DEF IsSum, Picked
<1> QED
  BY <1>6 DEF w, T, G

(* emitDaily follows emitHourly in the same tick: the row of a day is      *)
(* behind the rows of its hours, counts at least what they count together, *)
(* and only a day's row ends before one that precedes it.                  *)
THEOREM DaysCover == Spec => []DayCoversHours
<1>1. BasicInv /\ BucketsInv /\ RowsInv /\ DaysInv => DayCoversHours
  <2> SUFFICES ASSUME BasicInv, BucketsInv, RowsInv, DaysInv,
                      NEW d \in RowsOfKind("machine"), rollups[d].grain = "day"
               PROVE  LET hours == {h \in RowsOfKind("machine") :
                                      rollups[h].grain = "hour" /\ InBucket(d, rollups[h].bucket)}
                          buckets == {rollups[h].bucket : h \in hours}
                          Most(b, c) == Max({rollups[h].cols[c] :
                                               h \in {x \in hours : rollups[x].bucket = b}})
                      IN  /\ \A h \in hours : h < d
                          /\ \A i \in DOMAIN rollups : \A j \in 1 .. i - 1 :
                               EndOf(i) < EndOf(j) => rollups[i].grain = "day"
                          /\ \A c \in Columns :
                               rollups[d].cols[c] >= MapThenSumSet(LAMBDA b : Most(b, c), buckets)
    BY DEF DayCoversHours
  <2>1. DayInv(d) /\ SumsBelow(d)
    BY SumsBounded DEF DaysInv, EveryDaySums
  <2>2. \A h \in Hours(d) : h < d
    BY <2>1 DEF DayInv
  <2>3. \A i \in DOMAIN rollups : \A j \in 1 .. i - 1 : EndOf(i) < EndOf(j) => rollups[i].grain = "day"
    <3>1. \A i \in DOMAIN rollups : \A j \in 1 .. i - 1 : j \in DOMAIN rollups /\ j < i
      BY Fields DEF BasicInv
    <3> QED
      BY <3>1 DEF DaysInv
  <2>4. ASSUME NEW c \in Columns
        PROVE  rollups[d].cols[c] >= MapThenSumSet(LAMBDA b : MostOf(d, b, c), Buckets(d))
    <3>1. MapThenSumSet(LAMBDA b : MostOf(d, b, c), Buckets(d)) = DaySums(d, c)[Buckets(d)]
      BY DEF MapThenSumSet, MapThenFoldSet, DaySums
    <3>2. IsSum(DaySums(d, c), Buckets(d), MostOfEach(d, c))
      BY <2>1, DaySumsIs
    <3> QED
      BY <2>1, <3>1, <3>2 DEF DayInv
  <2> QED
    BY <2>2, <2>3, <2>4 DEF Hours, Buckets, MostOf
<1> QED
  BY BasicInit, BasicStep, BucketsInit, BucketsStep, RowsInit, RowsStep, DaysInit, DaysStep,
     <1>1, PTL DEF Spec
=============================================================================

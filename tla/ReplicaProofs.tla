---------------------------- MODULE ReplicaProofs ----------------------------
(***************************************************************************)
(* Theorems of Replica, for any number of orders, intervals and failures:  *)
(* both tables implement EventLog, and what the conflict clause and the    *)
(* recipe fill leave alone.                                                *)
(***************************************************************************)
EXTENDS Replica, SequenceTheorems, FiniteSetTheorems, TLAPS

-----------------------------------------------------------------------------
(* What the row operators do. *)

(* Row new is row old, with its recipe filled if it is of iv's order. *)
FilledBy(iv, old, new) ==
  /\ new.ts = old.ts /\ new.key = old.key
  /\ new.recipe <=> old.recipe \/ (old.key = iv.key /\ iv.recipe)

LEMMA FillRecipeFills ==
  ASSUME NEW rows \in Seq(RowT), NEW iv \in IntervalT
  PROVE  /\ FillRecipe(rows, iv) \in Seq(RowT)
         /\ Len(FillRecipe(rows, iv)) = Len(rows)
         /\ \A i \in 1 .. Len(rows) : FilledBy(iv, rows[i], FillRecipe(rows, iv)[i])
<1> DEFINE n == Len(rows)
           e(i) == IF rows[i].key = iv.key
                   THEN [rows[i] EXCEPT !.recipe = @ \/ iv.recipe] ELSE rows[i]
<1>1. n \in Nat /\ DOMAIN rows = 1 .. n /\ \A i \in 1 .. n : rows[i] \in RowT
  BY LenProperties, ElementOfSeq
<1>2. iv.recipe \in BOOLEAN
  BY DEF IntervalT
<1>3. \A i \in 1 .. n : e(i) \in RowT /\ FilledBy(iv, rows[i], e(i))
  <2> TAKE i \in 1 .. n
  <2>1. rows[i] \in RowT
    BY <1>1
  <2>2. [rows[i] EXCEPT !.recipe = @ \/ iv.recipe] \in RowT
    BY <1>2, <2>1 DEF RowT
  <2> QED
    BY <1>2, <2>1, <2>2 DEF RowT, FilledBy
<1>4. FillRecipe(rows, iv) = [i \in 1 .. n |-> e(i)]
  BY <1>1 DEF FillRecipe
<1> HIDE DEF n, e
<1>5. [i \in 1 .. n |-> e(i)] \in Seq(RowT)
  BY <1>1, <1>3, IsASeq
<1>6. Len([i \in 1 .. n |-> e(i)]) = n
  BY <1>1
<1> QED
  BY <1>1, <1>3, <1>4, <1>5, <1>6 DEF n

KnownIn(rows, key) == \E i \in 1 .. Len(rows) : rows[i].key = key

(* The conflict clause: a known order gets no second row. *)
LEMMA UpsertCycleFills ==
  ASSUME NEW rows \in Seq(RowT), NEW iv \in IntervalT, NEW ts \in Nat
  PROVE  LET up == UpsertCycle(rows, iv, ts)
         IN  /\ up \in Seq(RowT)
             /\ \A i \in 1 .. Len(rows) : FilledBy(iv, rows[i], up[i])
             /\ KnownIn(rows, iv.key) => Len(up) = Len(rows)
             /\ ~KnownIn(rows, iv.key) =>
                  /\ Len(up) = Len(rows) + 1
                  /\ up[Len(up)] = [ts |-> ts, key |-> iv.key, recipe |-> iv.recipe]
<1> DEFINE n == Len(rows)
           row == [ts |-> ts, key |-> iv.key, recipe |-> iv.recipe]
<1>1. n \in Nat /\ DOMAIN rows = 1 .. n /\ \A i \in 1 .. n : rows[i] \in RowT
  BY LenProperties, ElementOfSeq
<1>2. row \in RowT
  BY DEF IntervalT, RowT
<1>3. CASE KnownIn(rows, iv.key)
  <2>1. UpsertCycle(rows, iv, ts) = FillRecipe(rows, iv)
    BY <1>1, <1>3 DEF KnownIn, UpsertCycle
  <2> QED
    BY <1>3, <2>1, FillRecipeFills
<1>4. CASE ~KnownIn(rows, iv.key)
  <2>1. UpsertCycle(rows, iv, ts) = Append(rows, row)
    BY <1>1, <1>4 DEF KnownIn, UpsertCycle
  <2>2. /\ Append(rows, row) \in Seq(RowT) /\ Len(Append(rows, row)) = n + 1
        /\ \A i \in 1 .. n : Append(rows, row)[i] = rows[i]
        /\ Append(rows, row)[n + 1] = row
    BY <1>2, AppendProperties
  <2>3. \A i \in 1 .. n : FilledBy(iv, rows[i], rows[i])
    BY <1>1, <1>4 DEF KnownIn, FilledBy
  <2> QED
    BY <1>4, <2>1, <2>2, <2>3
<1> QED
  BY <1>3, <1>4

(* The child table: its rows are filled, then the dwell is inserted. *)
LEMMA InsertDwellFills ==
  ASSUME NEW rows \in Seq(RowT), NEW iv \in IntervalT
  PROVE  LET up == InsertDwell(FillRecipe(rows, iv), iv)
         IN  /\ up \in Seq(RowT)
             /\ \A i \in 1 .. Len(rows) : FilledBy(iv, rows[i], up[i])
             /\ iv.dwell = NoDwell => Len(up) = Len(rows)
             /\ iv.dwell # NoDwell =>
                  /\ Len(up) = Len(rows) + 1
                  /\ up[Len(up)] = [ts |-> iv.dwell, key |-> iv.key, recipe |-> iv.recipe]
<1> DEFINE filled == FillRecipe(rows, iv)
           n == Len(rows)
           row == [ts |-> iv.dwell, key |-> iv.key, recipe |-> iv.recipe]
<1>1. /\ filled \in Seq(RowT) /\ Len(filled) = n /\ n \in Nat
      /\ \A i \in 1 .. n : FilledBy(iv, rows[i], filled[i])
  BY FillRecipeFills, LenProperties
<1>2. row \in RowT
  BY DEF IntervalT, RowT
<1> HIDE DEF filled
<1>3. CASE iv.dwell = NoDwell
  BY <1>1, <1>3 DEF InsertDwell, filled
<1>4. CASE iv.dwell # NoDwell
  <2>1. InsertDwell(filled, iv) = Append(filled, row)
    BY <1>4 DEF InsertDwell
  <2>2. /\ Append(filled, row) \in Seq(RowT) /\ Len(Append(filled, row)) = n + 1
        /\ \A i \in 1 .. n : Append(filled, row)[i] = filled[i]
        /\ Append(filled, row)[n + 1] = row
    BY <1>1, <1>2, AppendProperties
  <2> QED
    BY <1>1, <1>4, <2>1, <2>2 DEF filled
<1> QED
  BY <1>3, <1>4

-----------------------------------------------------------------------------
(* What a step does, in terms of rows and positions. *)

Intervals ==
  {[key |-> k, end |-> e, dwell |-> d, recipe |-> r] :
     k \in Keys, e \in Times, d \in {NoDwell} \cup Times, r \in BOOLEAN}

LEMMA IntervalsType ==
  ASSUME NEW iv \in Intervals
  PROVE  iv \in IntervalT /\ iv.end \in Times /\ iv.dwell \in {NoDwell} \cup Times
<1>1. Times \subseteq Nat /\ NoDwell \in Nat
  BY ReplicaBounds DEF ReplicaBounds, Times, NoDwell
<1> QED
  BY <1>1 DEF Intervals, IntervalT

LEMMA Fields ==
  ASSUME TypeOK
  PROVE  /\ Len(queue) \in Nat /\ DOMAIN queue = 1 .. Len(queue)
         /\ \A q \in 1 .. Len(queue) : queue[q] \in IntervalT
         /\ Len(todo) \in Nat /\ DOMAIN todo = 1 .. Len(todo)
         /\ \A k \in 1 .. Len(todo) : todo[k] \in MarkT
         /\ \A t \in Tables :
              /\ table[t] \in Seq(RowT)
              /\ Len(table[t]) \in Nat /\ DOMAIN table[t] = 1 .. Len(table[t])
              /\ \A i \in 1 .. Len(table[t]) : table[t][i] \in RowT
              /\ marks[t] \in Nat /\ saved[t] \in Nat
BY LenProperties, ElementOfSeq DEF TypeOK

LEMMA HandOverEffect ==
  ASSUME TypeOK, NEW iv \in Intervals, HandOver(iv)
  PROVE  /\ queue' \in Seq(IntervalT)
         /\ Len(queue') = Len(queue) + 1
         /\ \A q \in 1 .. Len(queue) : queue'[q] = queue[q]
         /\ queue'[Len(queue) + 1] = iv
         /\ lastEnd' \in Nat /\ lastEnd' >= lastEnd /\ lastEnd' >= iv.end
<1>1. iv \in IntervalT
  BY IntervalsType
<1>2. lastEnd' \in Nat /\ lastEnd' >= lastEnd /\ lastEnd' >= iv.end
  BY <1>1 DEF HandOver, AtLeast, TypeOK, IntervalT
<1> QED
  BY <1>1, <1>2, AppendProperties DEF HandOver, TypeOK

LEMMA FlushEffect ==
  ASSUME TypeOK, FlushInterval
  PROVE  LET iv == queue[1]
             ts == AtLeast(iv.end, marks["cycles"])
         IN  /\ iv \in IntervalT /\ ts \in Nat /\ 1 \in 1 .. Len(queue)
             /\ queue' \in Seq(IntervalT) /\ Len(queue') = Len(queue) - 1
             /\ \A q \in 1 .. Len(queue') : queue'[q] = queue[q + 1]
             /\ table' \in [Tables -> Seq(RowT)]
             /\ table'["cycles"] = UpsertCycle(table["cycles"], iv, ts)
             /\ table'["step_dwells"] = InsertDwell(FillRecipe(table["step_dwells"], iv), iv)
             /\ todo' \in Seq(MarkT) /\ Len(todo') = 2
             /\ todo'[1] = [table |-> "cycles", ts |-> ts]
             /\ todo'[2] = [table |-> "step_dwells", ts |-> AtLeast(iv.dwell, ts)]
<1> DEFINE iv == queue[1]
           ts == AtLeast(iv.end, marks["cycles"])
           cycles == UpsertCycle(table["cycles"], iv, ts)
           dwells == InsertDwell(FillRecipe(table["step_dwells"], iv), iv)
<1>1. queue \in Seq(IntervalT) /\ queue # <<>> /\ Head(queue) = iv
  BY DEF FlushInterval, TypeOK
<1>2. /\ iv \in IntervalT /\ 1 \in 1 .. Len(queue)
      /\ queue' \in Seq(IntervalT) /\ Len(queue') = Len(queue) - 1
      /\ \A q \in 1 .. Len(queue') : queue'[q] = queue[q + 1]
  BY <1>1, HeadTailProperties, EmptySeq DEF FlushInterval
<1>3. iv.end \in Nat /\ iv.dwell \in Nat
  BY <1>2 DEF IntervalT
<1>4. ts \in Nat /\ AtLeast(iv.dwell, ts) \in Nat
  BY <1>3, Fields DEF AtLeast, Tables
<1>5. Guard("cycles", Head(queue).end) = ts
  BY <1>1 DEF Guard
<1> HIDE DEF iv, ts
<1>6. cycles \in Seq(RowT) /\ dwells \in Seq(RowT)
  BY <1>2, <1>4, Fields, UpsertCycleFills, InsertDwellFills DEF Tables
<1>7. /\ table' = [cycles |-> cycles, step_dwells |-> dwells]
      /\ todo' = <<[table |-> "cycles", ts |-> ts],
                   [table |-> "step_dwells", ts |-> AtLeast(iv.dwell, ts)]>>
  BY <1>1, <1>5 DEF FlushInterval
<1> HIDE DEF cycles, dwells
<1>8. table' \in [Tables -> Seq(RowT)]
  BY <1>6, <1>7 DEF Tables
<1>9. todo' \in Seq(MarkT) /\ Len(todo') = 2
  <2>1. /\ [table |-> "cycles", ts |-> ts] \in MarkT
        /\ [table |-> "step_dwells", ts |-> AtLeast(iv.dwell, ts)] \in MarkT
    BY <1>4 DEF MarkT, Tables
  <2> QED
    BY <1>7, <2>1
<1> QED
  BY <1>2, <1>4, <1>7, <1>8, <1>9 DEF iv, ts, cycles, dwells

(* The rows after a flush, table by table. *)
LEMMA FlushRows ==
  ASSUME TypeOK, FlushInterval
  PROVE  LET iv == queue[1]
             ts == AtLeast(iv.end, marks["cycles"])
             n == Len(table["cycles"])
             m == Len(table["step_dwells"])
         IN  /\ \A t \in Tables : \A i \in 1 .. Len(table[t]) :
                  FilledBy(iv, table[t][i], table'[t][i])
             /\ \/ KnownIn(table["cycles"], iv.key) /\ Len(table'["cycles"]) = n
                \/ /\ ~KnownIn(table["cycles"], iv.key) /\ Len(table'["cycles"]) = n + 1
                   /\ table'["cycles"][n + 1] = [ts |-> ts, key |-> iv.key, recipe |-> iv.recipe]
             /\ \/ iv.dwell = NoDwell /\ Len(table'["step_dwells"]) = m
                \/ /\ iv.dwell # NoDwell /\ Len(table'["step_dwells"]) = m + 1
                   /\ table'["step_dwells"][m + 1] =
                        [ts |-> iv.dwell, key |-> iv.key, recipe |-> iv.recipe]
<1> DEFINE iv == queue[1]
           ts == AtLeast(iv.end, marks["cycles"])
           cycles == UpsertCycle(table["cycles"], iv, ts)
           dwells == InsertDwell(FillRecipe(table["step_dwells"], iv), iv)
<1>1. /\ iv \in IntervalT /\ ts \in Nat
      /\ table'["cycles"] = cycles /\ table'["step_dwells"] = dwells
  BY FlushEffect
<1>2. table["cycles"] \in Seq(RowT) /\ table["step_dwells"] \in Seq(RowT)
  BY Fields DEF Tables
<1> HIDE DEF iv, ts
<1>3. /\ \A i \in 1 .. Len(table["cycles"]) : FilledBy(iv, table["cycles"][i], cycles[i])
      /\ KnownIn(table["cycles"], iv.key) => Len(cycles) = Len(table["cycles"])
      /\ ~KnownIn(table["cycles"], iv.key) =>
           /\ Len(cycles) = Len(table["cycles"]) + 1
           /\ cycles[Len(cycles)] = [ts |-> ts, key |-> iv.key, recipe |-> iv.recipe]
  BY <1>1, <1>2, UpsertCycleFills
<1>4. /\ \A i \in 1 .. Len(table["step_dwells"]) :
           FilledBy(iv, table["step_dwells"][i], dwells[i])
      /\ iv.dwell = NoDwell => Len(dwells) = Len(table["step_dwells"])
      /\ iv.dwell # NoDwell =>
           /\ Len(dwells) = Len(table["step_dwells"]) + 1
           /\ dwells[Len(dwells)] = [ts |-> iv.dwell, key |-> iv.key, recipe |-> iv.recipe]
  BY <1>1, <1>2, InsertDwellFills
<1> HIDE DEF cycles, dwells
<1>5. \A t \in Tables : t = "cycles" \/ t = "step_dwells"
  BY DEF Tables
<1>6. \A t \in Tables : \A i \in 1 .. Len(table[t]) : FilledBy(iv, table[t][i], table'[t][i])
  BY <1>1, <1>3, <1>4, <1>5
<1> QED
  BY <1>1, <1>3, <1>4, <1>6 DEF iv, ts

LEMMA SetWatermarkEffect ==
  ASSUME TypeOK, NEW persists \in BOOLEAN, SetWatermark(persists)
  PROVE  LET m == todo[1]
         IN  /\ m \in MarkT /\ 1 \in 1 .. Len(todo)
             /\ todo' \in Seq(MarkT) /\ Len(todo') = Len(todo) - 1
             /\ \A k \in 1 .. Len(todo') : todo'[k] = todo[k + 1]
             /\ marks' \in [Tables -> Nat] /\ saved' \in [Tables -> Nat]
             /\ \A t \in Tables :
                  marks'[t] = IF t = m.table THEN AtLeast(m.ts, marks[t]) ELSE marks[t]
             /\ \A t \in Tables :
                  \/ saved'[t] = saved[t]
                  \/ t = m.table /\ saved'[t] = m.ts /\ m.ts > marks[t]
<1> DEFINE m == todo[1]
<1>1. todo \in Seq(MarkT) /\ todo # <<>> /\ Head(todo) = m
  BY DEF SetWatermark, TypeOK
<1>2. /\ m \in MarkT /\ 1 \in 1 .. Len(todo)
      /\ todo' \in Seq(MarkT) /\ Len(todo') = Len(todo) - 1
      /\ \A k \in 1 .. Len(todo') : todo'[k] = todo[k + 1]
  BY <1>1, HeadTailProperties, EmptySeq DEF SetWatermark
<1>3. m.table \in Tables /\ m.ts \in Nat
  BY <1>2 DEF MarkT
<1>4. /\ marks' = [marks EXCEPT ![m.table] = AtLeast(m.ts, @)]
      /\ saved' = saved \/ (saved' = [saved EXCEPT ![m.table] = m.ts] /\ m.ts > marks[m.table])
  BY <1>1 DEF SetWatermark
<1>5. AtLeast(m.ts, marks[m.table]) \in Nat
  BY <1>3, Fields DEF AtLeast
<1> HIDE DEF m
<1> QED
  BY <1>2, <1>3, <1>4, <1>5 DEF m, TypeOK

LEMMA NextCases ==
  Next <=> \/ \E iv \in Intervals : HandOver(iv)
           \/ FlushInterval
           \/ \E persists \in BOOLEAN : SetWatermark(persists)
           \/ FlushFails
           \/ Crash
           \/ \E t \in Tables : \E i \in DOMAIN table[t] : Ship(t, i)
<1>1. (\E k \in Keys, end \in Times, d \in {NoDwell} \cup Times, r \in BOOLEAN :
         HandOver([key |-> k, end |-> end, dwell |-> d, recipe |-> r]))
      <=> \E iv \in Intervals : HandOver(iv)
  <2>1. ASSUME NEW k \in Keys, NEW end \in Times, NEW d \in {NoDwell} \cup Times,
               NEW r \in BOOLEAN, HandOver([key |-> k, end |-> end, dwell |-> d, recipe |-> r])
        PROVE  \E iv \in Intervals : HandOver(iv)
    <3>1. [key |-> k, end |-> end, dwell |-> d, recipe |-> r] \in Intervals
      BY DEF Intervals
    <3> QED
      BY <2>1, <3>1, Zenon
  <2>2. ASSUME NEW iv \in Intervals, HandOver(iv)
        PROVE  \E k \in Keys, end \in Times, d \in {NoDwell} \cup Times, r \in BOOLEAN :
                 HandOver([key |-> k, end |-> end, dwell |-> d, recipe |-> r])
    <3>1. PICK k \in Keys, end \in Times, d \in {NoDwell} \cup Times, r \in BOOLEAN :
            iv = [key |-> k, end |-> end, dwell |-> d, recipe |-> r]
      BY SMT DEF Intervals
    <3> QED
      BY <2>2, <3>1, Zenon
  <2> QED
    BY <2>1, <2>2, Zenon
<1> QED
  BY <1>1, Zenon DEF Next, ShipFrom

LEMMA ShipEffect ==
  ASSUME TypeOK, NEW t \in Tables, NEW i \in DOMAIN table[t], Ship(t, i)
  PROVE  /\ pos' \in [Tables -> [ts : Nat, id : Nat]]
         /\ pos'[t] = [ts |-> table[t][i].ts, id |-> i]
         /\ copies' \in [Tables -> Seq([id : Nat, row : RowT])]
         /\ copies'[t] = Append(copies[t], [id |-> i, row |-> table[t][i]])
         /\ \A u \in Tables \ {t} : pos'[u] = pos[u] /\ copies'[u] = copies[u]
<1> DEFINE cp == [id |-> i, row |-> table[t][i]]
           at == [ts |-> table[t][i].ts, id |-> i]
<1>1. i \in Nat /\ table[t][i] \in RowT
  BY Fields
<1>2. cp \in [id : Nat, row : RowT] /\ at \in [ts : Nat, id : Nat]
  BY <1>1 DEF RowT
<1>3. pos \in [Tables -> [ts : Nat, id : Nat]] /\ copies \in [Tables -> Seq([id : Nat, row : RowT])]
  BY DEF TypeOK
<1>4. /\ pos' = [pos EXCEPT ![t] = at]
      /\ copies' = [copies EXCEPT ![t] = Append(@, cp)]
  BY DEF Ship
<1> HIDE DEF cp, at
<1>5. Append(copies[t], cp) \in Seq([id : Nat, row : RowT])
  BY <1>2, <1>3, AppendProperties
<1> QED
  BY <1>2, <1>3, <1>4, <1>5 DEF cp, at

(* Rows, cursors and copies stay in their types through every step.        *)
THEOREM TypeCorrect == Spec => []TypeOK
<1>1. Init => TypeOK
  BY DEF Init, TypeOK, Tables
<1>2. TypeOK /\ [Next]_vars => TypeOK'
  <2> SUFFICES ASSUME TypeOK, [Next]_vars PROVE TypeOK'
    OBVIOUS
  <2>1. ASSUME NEW iv \in Intervals, HandOver(iv) PROVE TypeOK'
    <3>1. handed' \in Nat
      BY <2>1 DEF TypeOK, HandOver
    <3> QED
      BY <2>1, <3>1, HandOverEffect DEF TypeOK, HandOver
  <2>2. CASE FlushInterval
    BY <2>2, FlushEffect DEF TypeOK, FlushInterval
  <2>3. ASSUME NEW persists \in BOOLEAN, SetWatermark(persists) PROVE TypeOK'
    <3>1. failures' \in Nat
      BY <2>3 DEF TypeOK, SetWatermark
    <3> QED
      BY <2>3, <3>1, SetWatermarkEffect DEF TypeOK, SetWatermark
  <2>4. CASE FlushFails
    <3>1. queue' \in Seq(IntervalT) /\ failures' \in Nat
      BY <2>4 DEF TypeOK, FlushFails
    <3> QED
      BY <2>4, <3>1 DEF TypeOK, FlushFails
  <2>5. CASE Crash
    <3>1. queue' \in Seq(IntervalT) /\ todo' \in Seq(MarkT) /\ failures' \in Nat
      BY <2>5 DEF TypeOK, Crash
    <3> QED
      BY <2>5, <3>1 DEF TypeOK, Crash
  <2>6. ASSUME NEW t \in Tables, NEW i \in DOMAIN table[t], Ship(t, i) PROVE TypeOK'
    BY <2>6, ShipEffect DEF TypeOK, Ship
  <2>7. CASE UNCHANGED vars
    BY <2>7 DEF TypeOK, vars
  <2> QED
    BY <2>1, <2>2, <2>3, <2>4, <2>5, <2>6, <2>7, NextCases
<1> QED
  BY <1>1, <1>2, PTL DEF Spec

-----------------------------------------------------------------------------
(* The watermarks.  A row that its mark does not cover yet has a call      *)
(* outstanding that will.                                                  *)

Covered(t, ts) ==
  \/ ts <= marks[t]
  \/ \E k \in 1 .. Len(todo) : todo[k].table = t /\ ts <= todo[k].ts

MarksInv ==
  /\ \A t \in Tables : saved[t] <= marks[t]
  /\ failures = 0 =>
       \A t \in Tables : \A i \in 1 .. Len(table[t]) : Covered(t, table[t][i].ts)

LEMMA FlushCovers ==
  ASSUME TypeOK, MarksInv, FlushInterval
  PROVE  MarksInv'
<1> DEFINE iv == queue[1]
           ts == AtLeast(iv.end, marks["cycles"])
<1>1. /\ iv \in IntervalT /\ ts \in Nat
      /\ Len(todo') = 2
      /\ todo'[1] = [table |-> "cycles", ts |-> ts]
      /\ todo'[2] = [table |-> "step_dwells", ts |-> AtLeast(iv.dwell, ts)]
  BY FlushEffect
<1>2. marks' = marks /\ saved' = saved /\ failures' = failures /\ Len(todo) = 0
  BY DEF FlushInterval
<1>3. iv.dwell \in Nat /\ iv.dwell <= AtLeast(iv.dwell, ts)
  BY <1>1 DEF IntervalT, AtLeast
<1>4. \A t \in Tables : \A i \in 1 .. Len(table[t]) : table'[t][i].ts = table[t][i].ts
  BY FlushRows DEF FilledBy
<1>5. \A i \in 1 .. Len(table'["cycles"]) :
        i \in 1 .. Len(table["cycles"]) \/ table'["cycles"][i].ts = ts
  BY FlushRows, Fields DEF Tables
<1>6. \A i \in 1 .. Len(table'["step_dwells"]) :
        i \in 1 .. Len(table["step_dwells"]) \/ table'["step_dwells"][i].ts = iv.dwell
  BY FlushRows, Fields DEF Tables
<1> HIDE DEF iv, ts
<1>7. ASSUME failures = 0, NEW t \in Tables, NEW i \in 1 .. Len(table[t])
      PROVE  table'[t][i].ts <= marks'[t]
  BY <1>2, <1>4, <1>7 DEF MarksInv, Covered
<1>8. \E k \in 1 .. Len(todo') : todo'[k].table = "cycles" /\ ts <= todo'[k].ts
  BY <1>1
<1>9. \E k \in 1 .. Len(todo') : todo'[k].table = "step_dwells" /\ iv.dwell <= todo'[k].ts
  BY <1>1, <1>3
<1>10. ASSUME failures = 0, NEW t \in Tables, NEW i \in 1 .. Len(table'[t])
       PROVE  Covered(t, table[t][i].ts)'
  <2>1. CASE t = "cycles"
    BY <1>5, <1>7, <1>8, <1>10, <2>1 DEF Covered
  <2>2. CASE t = "step_dwells"
    BY <1>6, <1>7, <1>9, <1>10, <2>2 DEF Covered
  <2> QED
    BY <2>1, <2>2 DEF Tables
<1> QED
  BY <1>2, <1>10 DEF MarksInv

LEMMA SetWatermarkCovers ==
  ASSUME TypeOK, MarksInv, NEW persists \in BOOLEAN, SetWatermark(persists)
  PROVE  MarksInv'
<1> DEFINE m == todo[1]
<1>1. /\ m.table \in Tables /\ m.ts \in Nat /\ 1 \in 1 .. Len(todo)
      /\ Len(todo') = Len(todo) - 1
      /\ \A k \in 1 .. Len(todo') : todo'[k] = todo[k + 1]
      /\ \A t \in Tables :
           marks'[t] = IF t = m.table THEN AtLeast(m.ts, marks[t]) ELSE marks[t]
      /\ \A t \in Tables :
           saved'[t] = saved[t] \/ (t = m.table /\ saved'[t] = m.ts /\ m.ts > marks[t])
  BY SetWatermarkEffect DEF MarkT
<1>2. /\ \A t \in Tables : marks[t] \in Nat /\ saved[t] \in Nat
      /\ Len(todo) \in Nat
      /\ \A k \in 1 .. Len(todo) : todo[k].ts \in Nat
      /\ \A t \in Tables : \A i \in 1 .. Len(table[t]) : table[t][i].ts \in Nat
  BY Fields DEF MarkT, RowT
<1> HIDE DEF m
<1>3. \A t \in Tables : marks'[t] >= marks[t] /\ marks'[t] \in Nat
  BY <1>1, <1>2 DEF AtLeast
<1>4. \A t \in Tables : saved'[t] <= marks'[t]
  <2> TAKE t \in Tables
  <2>1. saved[t] <= marks[t]
    BY DEF MarksInv
  <2> QED
    BY <1>1, <1>2, <1>3, <2>1 DEF AtLeast
<1>5. table' = table /\ (failures' = 0 => failures = 0)
  BY DEF SetWatermark, TypeOK
<1>6. ASSUME NEW t \in Tables, NEW ts \in Nat, Covered(t, ts)
      PROVE  Covered(t, ts)'
  <2>1. CASE ts <= marks[t]
    BY <1>2, <1>3, <2>1 DEF Covered
  <2>2. ASSUME NEW k \in 1 .. Len(todo), todo[k].table = t, ts <= todo[k].ts
        PROVE  Covered(t, ts)'
    <3>1. CASE k = 1
      <4>1. marks'[t] = AtLeast(m.ts, marks[t])
        BY <1>1, <2>2, <3>1 DEF m
      <4>2. ts <= marks'[t]
        BY <1>1, <1>2, <2>2, <3>1, <4>1 DEF AtLeast, m
      <4> QED
        BY <4>2 DEF Covered
    <3>2. CASE k # 1
      <4>1. k - 1 \in 1 .. Len(todo') /\ todo'[k - 1] = todo[k]
        BY <1>1, <1>2, <3>2
      <4> QED
        BY <2>2, <4>1 DEF Covered
    <3> QED
      BY <3>1, <3>2
  <2> QED
    BY <1>6, <2>1, <2>2 DEF Covered
<1> QED
  BY <1>2, <1>4, <1>5, <1>6 DEF MarksInv

LEMMA MarksInvariant == Spec => []MarksInv
<1>1. Init => MarksInv
  BY DEF Init, MarksInv, Tables
<1>2. TypeOK /\ MarksInv /\ [Next]_vars => MarksInv'
  <2> SUFFICES ASSUME TypeOK, MarksInv, [Next]_vars PROVE MarksInv'
    OBVIOUS
  <2>1. ASSUME NEW iv \in Intervals, HandOver(iv) PROVE MarksInv'
    BY <2>1 DEF HandOver, MarksInv, Covered
  <2>2. ASSUME NEW persists \in BOOLEAN, SetWatermark(persists) PROVE MarksInv'
    BY <2>2, SetWatermarkCovers
  <2>3. CASE FlushFails
    BY <2>3 DEF FlushFails, MarksInv, TypeOK
  <2>4. CASE Crash
    BY <2>4 DEF Crash, MarksInv, TypeOK
  <2>5. ASSUME NEW t \in Tables, NEW i \in DOMAIN table[t], Ship(t, i) PROVE MarksInv'
    BY <2>5 DEF Ship, MarksInv, Covered
  <2>6. CASE UNCHANGED vars
    BY <2>6 DEF vars, MarksInv, Covered
  <2> QED
    BY <2>1, <2>2, <2>3, <2>4, <2>5, <2>6, FlushCovers, NextCases
<1> QED
  BY <1>1, <1>2, TypeCorrect, PTL DEF Spec

(* The cache never falls behind the database, and without a failure and    *)
(* with no call outstanding it covers every row: what the guard reads is   *)
(* never behind the table it guards.                                       *)
THEOREM MarksAlwaysCover == Spec => []MarksCover
<1>1. TypeOK /\ MarksInv => MarksCover
  <2> SUFFICES ASSUME TypeOK, MarksInv, todo = <<>>, failures = 0,
                      NEW t \in Tables, NEW i \in DOMAIN table[t]
               PROVE  table[t][i].ts <= marks[t]
    BY DEF MarksInv, MarksCover
  <2>1. i \in 1 .. Len(table[t]) /\ Len(todo) = 0
    BY Fields
  <2> QED
    BY <2>1 DEF MarksInv, Covered
<1> QED
  BY <1>1, TypeCorrect, MarksInvariant, PTL

-----------------------------------------------------------------------------
(* Bounds.  Each interval handed over gives a table at most one row.       *)

Bounds ==
  /\ \A t \in Tables : \A i \in 1 .. Len(table[t]) : table[t][i].ts \in Times
  /\ \A q \in 1 .. Len(queue) :
       /\ queue[q].end \in Times
       /\ queue[q].dwell \in {NoDwell} \cup Times /\ queue[q].dwell <= queue[q].end
  /\ \A t \in Tables : marks[t] <= MaxTs /\ saved[t] <= MaxTs
  /\ \A k \in 1 .. Len(todo) : todo[k].ts <= MaxTs
  /\ \A t \in Tables : Len(table[t]) + Len(queue) <= handed
  /\ handed <= MaxIntervals

LEMMA TimesType ==
  /\ MaxTs \in Nat /\ MaxIntervals \in Nat /\ NoDwell = 0
  /\ \A x : x \in Times <=> x \in Nat /\ 1 <= x /\ x <= MaxTs
BY ReplicaBounds DEF ReplicaBounds, Times, NoDwell

LEMMA HandOverBounds ==
  ASSUME TypeOK, Bounds, NEW iv \in Intervals, HandOver(iv)
  PROVE  Bounds'
<1>1. /\ Len(queue) \in Nat /\ Len(queue') = Len(queue) + 1
      /\ \A q \in 1 .. Len(queue) : queue'[q] = queue[q]
      /\ queue'[Len(queue) + 1] = iv
  BY HandOverEffect, Fields
<1>2. /\ table' = table /\ marks' = marks /\ saved' = saved /\ todo' = todo
      /\ handed' = handed + 1 /\ handed < MaxIntervals
      /\ iv.dwell # NoDwell => iv.dwell <= iv.end
  BY DEF HandOver
<1>3. handed \in Nat /\ \A t \in Tables : Len(table[t]) \in Nat
  BY Fields DEF TypeOK
<1>4. iv.end \in Times /\ iv.dwell \in {NoDwell} \cup Times /\ iv.dwell <= iv.end
  BY <1>2, IntervalsType, TimesType
<1>5. \A q \in 1 .. Len(queue') :
        /\ queue'[q].end \in Times
        /\ queue'[q].dwell \in {NoDwell} \cup Times /\ queue'[q].dwell <= queue'[q].end
  <2> TAKE q \in 1 .. Len(queue')
  <2>1. q \in 1 .. Len(queue) \/ q = Len(queue) + 1
    BY <1>1
  <2> QED
    BY <1>1, <1>4, <2>1 DEF Bounds
<1>6. \A t \in Tables : Len(table'[t]) + Len(queue') <= handed'
  <2> TAKE t \in Tables
  <2>1. Len(table[t]) + Len(queue) <= handed /\ Len(table[t]) \in Nat
    BY <1>3 DEF Bounds
  <2>2. Len(table'[t]) = Len(table[t])
    BY <1>2
  <2>3. \A a, b, c \in Nat : a + b <= c => a + (b + 1) <= c + 1
    OBVIOUS
  <2>4. Len(table[t]) + (Len(queue) + 1) <= handed + 1
    BY <1>1, <1>3, <2>1, <2>3
  <2>5. Len(queue') = Len(queue) + 1 /\ handed' = handed + 1
    BY <1>1, <1>2
  <2> QED
    BY <2>2, <2>4, <2>5
<1>7. handed' <= MaxIntervals
  BY <1>2, <1>3, TimesType
<1> QED
  BY <1>2, <1>5, <1>6, <1>7 DEF Bounds

LEMMA FlushBounds ==
  ASSUME TypeOK, Bounds, FlushInterval
  PROVE  Bounds'
<1> DEFINE iv == queue[1]
           ts == AtLeast(iv.end, marks["cycles"])
<1>1. /\ iv \in IntervalT /\ ts \in Nat /\ 1 \in 1 .. Len(queue)
      /\ Len(queue') = Len(queue) - 1
      /\ \A q \in 1 .. Len(queue') : queue'[q] = queue[q + 1]
      /\ Len(todo') = 2
      /\ todo'[1] = [table |-> "cycles", ts |-> ts]
      /\ todo'[2] = [table |-> "step_dwells", ts |-> AtLeast(iv.dwell, ts)]
  BY FlushEffect
<1>2. marks' = marks /\ saved' = saved /\ handed' = handed
  BY DEF FlushInterval
<1>3. /\ Len(queue) \in Nat /\ handed \in Nat
      /\ \A t \in Tables : Len(table[t]) \in Nat /\ marks[t] \in Nat
  BY Fields DEF TypeOK
<1>4. iv.end \in Times /\ iv.dwell \in {NoDwell} \cup Times
  BY <1>1 DEF Bounds
<1>5. marks["cycles"] \in Nat /\ marks["cycles"] <= MaxTs
  BY <1>3 DEF Bounds, Tables
<1>6. ts \in Times /\ AtLeast(iv.dwell, ts) \in Times
  BY <1>4, <1>5, TimesType DEF AtLeast
<1>7. \A t \in Tables : \A i \in 1 .. Len(table[t]) : table'[t][i].ts = table[t][i].ts
  BY FlushRows DEF FilledBy
<1>8. /\ Len(table'["cycles"]) <= Len(table["cycles"]) + 1
      /\ \A i \in 1 .. Len(table'["cycles"]) :
           i \in 1 .. Len(table["cycles"]) \/ table'["cycles"][i].ts = ts
  BY FlushRows, <1>3 DEF Tables
<1>9. /\ Len(table'["step_dwells"]) <= Len(table["step_dwells"]) + 1
      /\ \A i \in 1 .. Len(table'["step_dwells"]) :
           \/ i \in 1 .. Len(table["step_dwells"])
           \/ table'["step_dwells"][i].ts = iv.dwell /\ iv.dwell # NoDwell
  BY FlushRows, <1>3 DEF Tables
<1> HIDE DEF iv, ts
<1>10. \A t \in Tables : \A i \in 1 .. Len(table'[t]) : table'[t][i].ts \in Times
  <2> SUFFICES ASSUME NEW t \in Tables, NEW i \in 1 .. Len(table'[t])
               PROVE  table'[t][i].ts \in Times
    OBVIOUS
  <2>1. i \in 1 .. Len(table[t]) => table'[t][i].ts \in Times
    BY <1>7 DEF Bounds
  <2> QED
    BY <1>4, <1>6, <1>8, <1>9, <2>1 DEF Tables
<1>11. \A q \in 1 .. Len(queue') :
         /\ queue'[q].end \in Times
         /\ queue'[q].dwell \in {NoDwell} \cup Times /\ queue'[q].dwell <= queue'[q].end
  <2> TAKE q \in 1 .. Len(queue')
  <2>1. q + 1 \in 1 .. Len(queue) /\ queue'[q] = queue[q + 1]
    BY <1>1, <1>3
  <2> QED
    BY <2>1 DEF Bounds
<1>12. \A t \in Tables : Len(table'[t]) + Len(queue') <= handed'
  <2> TAKE t \in Tables
  <2>1. Len(table'[t]) <= Len(table[t]) + 1 /\ Len(table'[t]) \in Nat
    BY <1>8, <1>9, FlushEffect, LenProperties DEF Tables
  <2>2. Len(table[t]) + Len(queue) <= handed
    BY DEF Bounds
  <2> QED
    BY <1>1, <1>2, <1>3, <2>1, <2>2
<1>13. \A k \in 1 .. Len(todo') : todo'[k].ts <= MaxTs
  <2> TAKE k \in 1 .. Len(todo')
  <2>1. k = 1 \/ k = 2
    BY <1>1
  <2> QED
    BY <1>1, <1>6, <2>1, TimesType
<1> QED
  BY <1>2, <1>10, <1>11, <1>12, <1>13 DEF Bounds

LEMMA SetWatermarkBounds ==
  ASSUME TypeOK, Bounds, NEW persists \in BOOLEAN, SetWatermark(persists)
  PROVE  Bounds'
<1>1. /\ 1 \in 1 .. Len(todo) /\ Len(todo') = Len(todo) - 1 /\ Len(todo) \in Nat
      /\ \A k \in 1 .. Len(todo') : todo'[k] = todo[k + 1]
      /\ \A t \in Tables :
           marks'[t] = IF t = todo[1].table THEN AtLeast(todo[1].ts, marks[t]) ELSE marks[t]
      /\ \A t \in Tables : saved'[t] = saved[t] \/ saved'[t] = todo[1].ts
  BY SetWatermarkEffect, Fields
<1>2. table' = table /\ queue' = queue /\ handed' = handed
  BY DEF SetWatermark
<1>3. todo[1].ts <= MaxTs
  BY <1>1 DEF Bounds
<1>4. \A t \in Tables : marks'[t] <= MaxTs /\ saved'[t] <= MaxTs
  BY <1>1, <1>3 DEF Bounds, AtLeast
<1>5. \A k \in 1 .. Len(todo') : todo'[k].ts <= MaxTs
  <2> TAKE k \in 1 .. Len(todo')
  <2>1. k + 1 \in 1 .. Len(todo) /\ todo'[k] = todo[k + 1]
    BY <1>1
  <2> QED
    BY <2>1 DEF Bounds
<1> QED
  BY <1>2, <1>4, <1>5 DEF Bounds

LEMMA BoundsInvariant == Spec => []Bounds
<1>1. Init => Bounds
  BY ReplicaBounds DEF ReplicaBounds, Init, Bounds, Tables
<1>2. TypeOK /\ Bounds /\ [Next]_vars => Bounds'
  <2> SUFFICES ASSUME TypeOK, Bounds, [Next]_vars PROVE Bounds'
    OBVIOUS
  <2>1. ASSUME NEW t \in Tables, NEW i \in DOMAIN table[t], Ship(t, i) PROVE Bounds'
    BY <2>1 DEF Ship, Bounds
  <2>2. \A t \in Tables : Len(table[t]) \in Nat /\ Len(queue) \in Nat /\ handed \in Nat
    BY Fields DEF TypeOK
  <2>3. CASE FlushFails
    <3>1. \A t \in Tables : Len(table[t]) <= handed
      BY <2>2 DEF Bounds
    <3> QED
      BY <2>2, <2>3, <3>1 DEF FlushFails, Bounds
  <2>4. CASE Crash
    <3>1. \A t \in Tables : Len(table[t]) <= handed
      BY <2>2 DEF Bounds
    <3> QED
      BY <2>2, <2>4, <3>1 DEF Crash, Bounds
  <2>5. CASE UNCHANGED vars
    BY <2>5 DEF vars, Bounds
  <2> QED
    BY <2>1, <2>3, <2>4, <2>5, HandOverBounds, FlushBounds, SetWatermarkBounds, NextCases
<1> QED
  BY <1>1, <1>2, TypeCorrect, PTL DEF Spec

-----------------------------------------------------------------------------
(* A timeline in order.  Whatever the guard and the agent have seen is not *)
(* younger than anything still to be written.                              *)

Reached(ts) ==
  /\ ts <= lastEnd
  /\ \A q \in 1 .. Len(queue) :
       ts <= queue[q].end /\ (queue[q].dwell # NoDwell => ts <= queue[q].dwell)

InOrder ==
  /\ \A t \in Tables : \A i \in 1 .. Len(table[t]) : Reached(table[t][i].ts)
  /\ \A t \in Tables : Reached(marks[t]) /\ Reached(saved[t])
  /\ \A k \in 1 .. Len(todo) : Reached(todo[k].ts)
  /\ \A q \in 1 .. Len(queue) : queue[q].end <= lastEnd
  /\ \A p, q \in 1 .. Len(queue) : p < q =>
       queue[p].end <= queue[q].end /\ (queue[q].dwell # NoDwell => queue[p].end <= queue[q].dwell)

LEMMA QueueTypes ==
  ASSUME TypeOK
  PROVE  /\ Len(queue) \in Nat /\ lastEnd \in Nat
         /\ \A q \in 1 .. Len(queue) : queue[q].end \in Nat /\ queue[q].dwell \in Nat
BY Fields DEF TypeOK, IntervalT

LEMMA HandOverInOrder ==
  ASSUME MaxBack = 0, TypeOK, InOrder, NEW iv \in Intervals, HandOver(iv)
  PROVE  InOrder'
<1>1. /\ Len(queue') = Len(queue) + 1
      /\ \A q \in 1 .. Len(queue) : queue'[q] = queue[q]
      /\ queue'[Len(queue) + 1] = iv
      /\ lastEnd' \in Nat /\ lastEnd' >= lastEnd /\ lastEnd' >= iv.end
  BY HandOverEffect
<1>2. table' = table /\ marks' = marks /\ saved' = saved /\ todo' = todo
  BY DEF HandOver
<1>3. iv.end \in Nat /\ iv.dwell \in Nat
  BY IntervalsType DEF IntervalT
<1>4. lastEnd <= iv.end /\ (iv.dwell # NoDwell => lastEnd <= iv.dwell)
  BY <1>3, QueueTypes DEF HandOver
<1>5. \A q \in 1 .. Len(queue') : q \in 1 .. Len(queue) \/ q = Len(queue) + 1
  BY <1>1, QueueTypes
<1>6. ASSUME NEW ts \in Nat, Reached(ts)
      PROVE  Reached(ts)'
  <2>1. ts <= lastEnd'
    BY <1>1, <1>6, QueueTypes DEF Reached
  <2>2. ASSUME NEW q \in 1 .. Len(queue')
        PROVE  ts <= queue'[q].end /\ (queue'[q].dwell # NoDwell => ts <= queue'[q].dwell)
    <3>1. CASE q \in 1 .. Len(queue)
      BY <1>1, <1>6, <3>1 DEF Reached
    <3>2. CASE q = Len(queue) + 1
      BY <1>1, <1>3, <1>4, <1>6, <3>2, QueueTypes DEF Reached
    <3> QED
      BY <1>5, <3>1, <3>2
  <2> QED
    BY <2>1, <2>2 DEF Reached
<1>7. \A q \in 1 .. Len(queue') : queue'[q].end <= lastEnd'
  <2> TAKE q \in 1 .. Len(queue')
  <2>1. q \in 1 .. Len(queue) => queue[q].end <= lastEnd /\ queue[q].end \in Nat
    BY QueueTypes DEF InOrder
  <2> QED
    BY <1>1, <1>5, <2>1, QueueTypes
<1>8. ASSUME NEW p \in 1 .. Len(queue'), NEW q \in 1 .. Len(queue'), p < q
      PROVE  /\ queue'[p].end <= queue'[q].end
             /\ queue'[q].dwell # NoDwell => queue'[p].end <= queue'[q].dwell
  <2>1. p \in 1 .. Len(queue) /\ queue'[p] = queue[p]
    BY <1>1, <1>8, QueueTypes
  <2>2. CASE q \in 1 .. Len(queue)
    BY <1>1, <1>8, <2>1, <2>2 DEF InOrder
  <2>3. CASE q = Len(queue) + 1
    <3>1. queue[p].end <= lastEnd /\ queue[p].end \in Nat
      BY <2>1, QueueTypes DEF InOrder
    <3> QED
      BY <1>1, <1>3, <1>4, <2>1, <2>3, <3>1, QueueTypes
  <2> QED
    BY <1>5, <2>2, <2>3
<1>9. /\ \A t \in Tables : \A i \in 1 .. Len(table[t]) : table[t][i].ts \in Nat
      /\ \A t \in Tables : marks[t] \in Nat /\ saved[t] \in Nat
      /\ \A k \in 1 .. Len(todo) : todo[k].ts \in Nat
  BY Fields DEF RowT, MarkT
<1> QED
  BY <1>2, <1>6, <1>7, <1>8, <1>9 DEF InOrder

(* With the timeline in order the guard changes nothing. *)
LEMMA FlushInOrder ==
  ASSUME TypeOK, Bounds, InOrder, FlushInterval
  PROVE  /\ InOrder'
         /\ \A t \in Tables : \A i \in 1 .. Len(table[t]) :
              /\ table[t][i].ts <= AtLeast(queue[1].end, marks["cycles"])
              /\ queue[1].dwell # NoDwell => table[t][i].ts <= queue[1].dwell
<1> DEFINE iv == queue[1]
           ts == AtLeast(iv.end, marks["cycles"])
           Reaches(x) ==
             /\ x <= lastEnd'
             /\ \A q \in 1 .. Len(queue') :
                  x <= queue'[q].end /\ (queue'[q].dwell # NoDwell => x <= queue'[q].dwell)
<1>1. /\ iv \in IntervalT /\ ts \in Nat /\ 1 \in 1 .. Len(queue)
      /\ Len(queue') = Len(queue) - 1
      /\ \A q \in 1 .. Len(queue') : queue'[q] = queue[q + 1]
      /\ Len(todo') = 2
      /\ todo'[1] = [table |-> "cycles", ts |-> ts]
      /\ todo'[2] = [table |-> "step_dwells", ts |-> AtLeast(iv.dwell, ts)]
  BY FlushEffect
<1>2. marks' = marks /\ saved' = saved /\ lastEnd' = lastEnd
  BY DEF FlushInterval
<1>3. iv.end \in Nat /\ iv.dwell \in Nat /\ iv.dwell <= iv.end
  BY <1>1, QueueTypes DEF Bounds
<1>4. \A q \in 1 .. Len(queue') : q + 1 \in 1 .. Len(queue) /\ 1 < q + 1 /\ queue'[q] = queue[q + 1]
  BY <1>1, QueueTypes
<1>5. marks["cycles"] <= iv.end /\ marks["cycles"] \in Nat
  BY <1>1, Fields DEF InOrder, Reached, Tables
<1>6. ts = iv.end /\ AtLeast(iv.dwell, ts) = iv.end
  BY <1>3, <1>5 DEF AtLeast
<1>7. Reaches(iv.end)
  <2>1. iv.end <= lastEnd
    BY <1>1 DEF InOrder
  <2> QED
    BY <1>1, <1>2, <1>4, <2>1 DEF InOrder, Reached
<1>8. ASSUME NEW x, Reached(x) PROVE Reaches(x)
  BY <1>2, <1>4, <1>8 DEF Reached
<1>9. iv.dwell # NoDwell => Reaches(iv.dwell)
  <2> SUFFICES ASSUME iv.dwell # NoDwell PROVE Reaches(iv.dwell)
    OBVIOUS
  <2>1. \A q \in 1 .. Len(queue') : queue'[q].end \in Nat /\ queue'[q].dwell \in Nat
    BY <1>4, QueueTypes
  <2> QED
    BY <1>2, <1>3, <1>7, <2>1, QueueTypes DEF Reached
<1> HIDE DEF iv, ts, Reaches
<1>10. \A t \in Tables : \A i \in 1 .. Len(table'[t]) : Reaches(table'[t][i].ts)
  <2> SUFFICES ASSUME NEW t \in Tables, NEW i \in 1 .. Len(table'[t])
               PROVE  Reaches(table'[t][i].ts)
    OBVIOUS
  <2>1. i \in 1 .. Len(table[t]) => Reaches(table'[t][i].ts)
    <3>1. i \in 1 .. Len(table[t]) => table'[t][i].ts = table[t][i].ts
      BY FlushRows DEF FilledBy
    <3> QED
      BY <1>8, <3>1 DEF InOrder
  <2>2. i \notin 1 .. Len(table["cycles"]) /\ t = "cycles" => table'[t][i].ts = iv.end
    BY <1>6, FlushRows, Fields DEF Tables, iv, ts
  <2>3. i \notin 1 .. Len(table["step_dwells"]) /\ t = "step_dwells" =>
          iv.dwell # NoDwell /\ table'[t][i].ts = iv.dwell
    BY FlushRows, Fields DEF Tables, iv
  <2> QED
    BY <1>7, <1>9, <2>1, <2>2, <2>3 DEF Tables
<1>11. \A k \in 1 .. Len(todo') : todo'[k].ts = iv.end
  BY <1>1, <1>6
<1>12. \A q \in 1 .. Len(queue') : queue'[q].end <= lastEnd'
  BY <1>2, <1>4 DEF InOrder
<1>13. \A p, q \in 1 .. Len(queue') : p < q =>
         /\ queue'[p].end <= queue'[q].end
         /\ queue'[q].dwell # NoDwell => queue'[p].end <= queue'[q].dwell
  <2> SUFFICES ASSUME NEW p \in 1 .. Len(queue'), NEW q \in 1 .. Len(queue'), p < q
               PROVE  /\ queue'[p].end <= queue'[q].end
                      /\ queue'[q].dwell # NoDwell => queue'[p].end <= queue'[q].dwell
    OBVIOUS
  <2>1. p + 1 < q + 1
    OBVIOUS
  <2> QED
    BY <1>4, <2>1 DEF InOrder
<1>14. \A t \in Tables : Reaches(marks'[t]) /\ Reaches(saved'[t])
  BY <1>2, <1>8 DEF InOrder
<1>15. InOrder'
  BY <1>7, <1>10, <1>11, <1>12, <1>13, <1>14 DEF InOrder, Reached, Reaches
<1>16. \A t \in Tables : \A i \in 1 .. Len(table[t]) :
         table[t][i].ts <= ts /\ (iv.dwell # NoDwell => table[t][i].ts <= iv.dwell)
  BY <1>1, <1>6 DEF InOrder, Reached, iv
<1> QED
  BY <1>15, <1>16 DEF iv, ts

LEMMA SetWatermarkInOrder ==
  ASSUME TypeOK, InOrder, NEW persists \in BOOLEAN, SetWatermark(persists)
  PROVE  InOrder'
<1>1. /\ 1 \in 1 .. Len(todo) /\ Len(todo') = Len(todo) - 1 /\ Len(todo) \in Nat
      /\ \A k \in 1 .. Len(todo') : todo'[k] = todo[k + 1]
      /\ \A t \in Tables :
           marks'[t] = IF t = todo[1].table THEN AtLeast(todo[1].ts, marks[t]) ELSE marks[t]
      /\ \A t \in Tables : saved'[t] = saved[t] \/ saved'[t] = todo[1].ts
  BY SetWatermarkEffect, Fields
<1>2. table' = table /\ queue' = queue /\ lastEnd' = lastEnd
  BY DEF SetWatermark
<1>3. \A ts : Reached(ts)' <=> Reached(ts)
  BY <1>2 DEF Reached
<1>4. Reached(todo[1].ts)
  BY <1>1 DEF InOrder
<1>5. \A t \in Tables : marks'[t] = marks[t] \/ marks'[t] = todo[1].ts
  BY <1>1 DEF AtLeast
<1>6. \A t \in Tables : Reached(marks'[t]) /\ Reached(saved'[t])
  BY <1>1, <1>4, <1>5 DEF InOrder
<1>7. \A k \in 1 .. Len(todo') : Reached(todo'[k].ts)
  <2> TAKE k \in 1 .. Len(todo')
  <2>1. k + 1 \in 1 .. Len(todo) /\ todo'[k] = todo[k + 1]
    BY <1>1
  <2> QED
    BY <2>1 DEF InOrder
<1> QED
  BY <1>2, <1>3, <1>6, <1>7 DEF InOrder

LEMMA InOrderInvariant ==
  ASSUME MaxBack = 0
  PROVE  Spec => []InOrder
<1>1. Init => InOrder
  BY DEF Init, InOrder, Reached, Tables
<1>2. TypeOK /\ Bounds /\ InOrder /\ [Next]_vars => InOrder'
  <2> SUFFICES ASSUME TypeOK, Bounds, InOrder, [Next]_vars PROVE InOrder'
    OBVIOUS
  <2>1. ASSUME NEW t \in Tables, NEW i \in DOMAIN table[t], Ship(t, i) PROVE InOrder'
    BY <2>1 DEF Ship, InOrder, Reached
  <2>2. CASE FlushFails
    BY <2>2 DEF FlushFails, InOrder, Reached
  <2>3. CASE Crash
    BY <2>3 DEF Crash, InOrder, Reached
  <2>4. CASE UNCHANGED vars
    BY <2>4 DEF vars, InOrder, Reached
  <2> QED
    BY <2>1, <2>2, <2>3, <2>4, HandOverInOrder, FlushInOrder, SetWatermarkInOrder, NextCases
<1> QED
  BY <1>1, <1>2, TypeCorrect, BoundsInvariant, PTL DEF Spec

-----------------------------------------------------------------------------
(* The refinement.  A flush inserts at most one row into a table and       *)
(* leaves the times of the others alone: it is an Insert of EventLog or a  *)
(* stuttering step there.                                                  *)

TsOf(rows) == [i \in DOMAIN rows |-> rows[i].ts]
IdsOf(cps) == [k \in DOMAIN cps |-> cps[k].id]

CopyT == [id : Nat, row : RowT]

LEMMA TsOfType ==
  ASSUME NEW rows \in Seq(RowT)
  PROVE  /\ DOMAIN TsOf(rows) = 1 .. Len(rows) /\ Len(TsOf(rows)) = Len(rows)
         /\ \A i \in 1 .. Len(rows) : TsOf(rows)[i] = rows[i].ts
         /\ TsOf(rows) \in Seq(Nat)
<1>1. /\ Len(rows) \in Nat /\ DOMAIN rows = 1 .. Len(rows)
      /\ \A i \in 1 .. Len(rows) : rows[i].ts \in Nat
  <2>1. Len(rows) \in Nat /\ DOMAIN rows = 1 .. Len(rows)
    BY LenProperties
  <2>2. \A i \in 1 .. Len(rows) : rows[i] \in RowT
    BY ElementOfSeq
  <2> QED
    BY <2>1, <2>2 DEF RowT
<1> DEFINE n == Len(rows)
           e(i) == rows[i].ts
<1>2. TsOf(rows) = [i \in 1 .. n |-> e(i)]
  BY <1>1 DEF TsOf
<1>3. n \in Nat /\ \A i \in 1 .. n : e(i) \in Nat
  BY <1>1
<1> HIDE DEF n, e
<1>4. [i \in 1 .. n |-> e(i)] \in Seq(Nat)
  BY <1>3, IsASeq
<1>5. Len([i \in 1 .. n |-> e(i)]) = n
  BY <1>3
<1> QED
  BY <1>2, <1>3, <1>4, <1>5 DEF n, e

LEMMA TsOfSame ==
  ASSUME NEW rows \in Seq(RowT), NEW new \in Seq(RowT), Len(new) = Len(rows),
         \A i \in 1 .. Len(rows) : new[i].ts = rows[i].ts
  PROVE  TsOf(new) = TsOf(rows)
<1>1. /\ TsOf(rows) \in Seq(Nat) /\ TsOf(new) \in Seq(Nat)
      /\ Len(TsOf(new)) = Len(rows) /\ Len(TsOf(rows)) = Len(rows)
      /\ \A i \in 1 .. Len(rows) : TsOf(new)[i] = TsOf(rows)[i]
  BY TsOfType
<1> QED
  BY <1>1, SeqEqual

LEMMA TsOfAppend ==
  ASSUME NEW rows \in Seq(RowT), NEW new \in Seq(RowT), Len(new) = Len(rows) + 1,
         \A i \in 1 .. Len(rows) : new[i].ts = rows[i].ts
  PROVE  TsOf(new) = Append(TsOf(rows), new[Len(rows) + 1].ts)
<1> DEFINE n == Len(rows)
           ts == new[n + 1].ts
<1>1. /\ n \in Nat /\ TsOf(rows) \in Seq(Nat) /\ TsOf(new) \in Seq(Nat)
      /\ Len(TsOf(new)) = n + 1 /\ Len(TsOf(rows)) = n
      /\ \A i \in 1 .. n : TsOf(new)[i] = TsOf(rows)[i]
      /\ TsOf(new)[n + 1] = ts /\ ts \in Nat
  <2>1. n \in Nat /\ n + 1 \in 1 .. n + 1 /\ \A i \in 1 .. n : i \in 1 .. n + 1
    BY LenProperties
  <2>2. ts \in Nat
    <3>1. new[n + 1] \in RowT
      BY <2>1, ElementOfSeq
    <3> QED
      BY <3>1 DEF RowT
  <2> QED
    BY <2>1, <2>2, TsOfType
<1> HIDE DEF n, ts
<1>2. /\ Append(TsOf(rows), ts) \in Seq(Nat) /\ Len(Append(TsOf(rows), ts)) = n + 1
      /\ \A i \in 1 .. n : Append(TsOf(rows), ts)[i] = TsOf(rows)[i]
      /\ Append(TsOf(rows), ts)[n + 1] = ts
  BY <1>1, AppendProperties
<1>3. \A i \in 1 .. n + 1 : TsOf(new)[i] = Append(TsOf(rows), ts)[i]
  <2> TAKE i \in 1 .. n + 1
  <2>1. i \in 1 .. n \/ i = n + 1
    BY <1>1
  <2> QED
    BY <1>1, <1>2, <2>1
<1>4. TsOf(new) = Append(TsOf(rows), ts)
  BY <1>1, <1>2, <1>3, SeqEqual
<1> QED
  BY <1>4 DEF n, ts

LEMMA IdsOfAppend ==
  ASSUME NEW cps \in Seq(CopyT), NEW cp \in CopyT
  PROVE  IdsOf(Append(cps, cp)) = Append(IdsOf(cps), cp.id)
<1> DEFINE n == Len(cps)
           new == Append(cps, cp)
           e(k) == cps[k].id
           f(k) == new[k].id
<1>1. n \in Nat /\ DOMAIN cps = 1 .. n /\ \A k \in 1 .. n : e(k) \in Nat
  <2>1. Len(cps) \in Nat /\ DOMAIN cps = 1 .. Len(cps)
    BY LenProperties
  <2>2. \A k \in 1 .. Len(cps) : cps[k] \in CopyT
    BY ElementOfSeq
  <2> QED
    BY <2>1, <2>2 DEF CopyT
<1>2. /\ new \in Seq(CopyT) /\ Len(new) = n + 1
      /\ \A k \in 1 .. n : new[k] = cps[k]
      /\ new[n + 1] = cp
  BY AppendProperties
<1>3. DOMAIN new = 1 .. n + 1
  BY <1>2, LenProperties
<1>4. cp.id \in Nat
  BY DEF CopyT
<1>5. IdsOf(cps) = [k \in 1 .. n |-> e(k)] /\ IdsOf(new) = [k \in 1 .. n + 1 |-> f(k)]
  BY <1>1, <1>3 DEF IdsOf
<1>6. \A k \in 1 .. n + 1 : f(k) = IF k = n + 1 THEN cp.id ELSE e(k)
  BY <1>1, <1>2
<1> HIDE DEF n, new, e, f
<1>7. [k \in 1 .. n |-> e(k)] \in Seq(Nat)
  BY <1>1, IsASeq
<1>8. \A k \in 1 .. n + 1 : f(k) \in Nat
  BY <1>1, <1>4, <1>6
<1>9. [k \in 1 .. n + 1 |-> f(k)] \in Seq(Nat)
  <2>1. n + 1 \in Nat
    BY <1>1
  <2> QED
    BY <1>8, <2>1, IsASeq
<1> DEFINE s == [k \in 1 .. n |-> e(k)]
           u == [k \in 1 .. n + 1 |-> f(k)]
<1>10. /\ Append(s, cp.id) \in Seq(Nat) /\ Len(Append(s, cp.id)) = n + 1
       /\ \A k \in 1 .. n : Append(s, cp.id)[k] = s[k]
       /\ Append(s, cp.id)[n + 1] = cp.id
  <2>1. Len(s) = n /\ s \in Seq(Nat)
    BY <1>1, <1>7
  <2> HIDE DEF s
  <2>2. /\ Append(s, cp.id) \in Seq(Nat) /\ Len(Append(s, cp.id)) = Len(s) + 1
        /\ \A k \in 1 .. Len(s) : Append(s, cp.id)[k] = s[k]
        /\ Append(s, cp.id)[Len(s) + 1] = cp.id
    BY <1>4, <2>1, AppendProperties
  <2> QED
    BY <2>1, <2>2
<1>11. Len(u) = n + 1
  BY <1>1
<1>12. \A k \in 1 .. n + 1 : u[k] = Append(s, cp.id)[k]
  BY <1>1, <1>6, <1>10
<1> HIDE DEF s, u
<1>13. u = Append(s, cp.id)
  <2>1. u \in Seq(Nat)
    BY <1>9 DEF u
  <2> QED
    BY <1>10, <1>11, <1>12, <2>1, SeqEqual
<1> QED
  BY <1>5, <1>13 DEF new, s, u

(* The steps of EventLog, for table t. *)
LogInsert(t, ts) ==
  /\ Len(LogOf(t)) < MaxIntervals
  /\ \A i \in DOMAIN LogOf(t) : LogOf(t)[i] <= ts
  /\ LogOf(t)' = Append(LogOf(t), ts)
  /\ UNCHANGED <<pos[t], ShippedOf(t)>>
LogShip(t, i) ==
  /\ i \in DOMAIN LogOf(t)
  /\ \/ LogOf(t)[i] > pos[t].ts
     \/ LogOf(t)[i] = pos[t].ts /\ i > pos[t].id
  /\ \A j \in DOMAIN LogOf(t) :
       \/ LogOf(t)[j] > pos[t].ts
       \/ LogOf(t)[j] = pos[t].ts /\ j > pos[t].id
       => \/ LogOf(t)[i] < LogOf(t)[j]
          \/ LogOf(t)[i] = LogOf(t)[j] /\ i <= j
  /\ ShippedOf(t)' = Append(ShippedOf(t), i)
  /\ pos'[t] = [ts |-> LogOf(t)[i], id |-> i]
  /\ LogOf(t)' = LogOf(t)
LogStep(t) ==
  \/ \E ts \in Times : LogInsert(t, ts)
  \/ \E i \in DOMAIN LogOf(t) : LogShip(t, i)
  \/ UNCHANGED <<LogOf(t), pos[t], ShippedOf(t)>>

LEMMA LogOfIs ==
  \A t \in Tables :
    /\ LogOf(t) = TsOf(table[t]) /\ LogOf(t)' = TsOf(table'[t])
    /\ ShippedOf(t) = IdsOf(copies[t]) /\ ShippedOf(t)' = IdsOf(copies'[t])
BY DEF LogOf, ShippedOf, TsOf, IdsOf

LEMMA ShipRefines ==
  ASSUME TypeOK, NEW t \in Tables, NEW u \in Tables, NEW i \in DOMAIN table[u], Ship(u, i)
  PROVE  LogStep(t)
<1>1. table' = table
  BY DEF Ship
<1>2. CASE t # u
  <2>1. pos'[t] = pos[t] /\ copies'[t] = copies[t]
    BY <1>2, ShipEffect
  <2>2. LogOf(t)' = LogOf(t) /\ ShippedOf(t)' = ShippedOf(t)
    BY <1>1, <2>1, LogOfIs
  <2> QED
    BY <2>1, <2>2 DEF LogStep
<1>3. CASE t = u
  <2>1. /\ table[t] \in Seq(RowT) /\ i \in 1 .. Len(table[t])
        /\ DOMAIN table[t] = 1 .. Len(table[t])
    BY <1>3, Fields
  <2>2. /\ DOMAIN LogOf(t) = 1 .. Len(table[t])
        /\ \A j \in 1 .. Len(table[t]) : LogOf(t)[j] = table[t][j].ts
    BY <2>1, LogOfIs, TsOfType
  <2>3. ShippedOf(t)' = Append(ShippedOf(t), i)
    <3>1. copies[t] \in Seq(CopyT)
      BY DEF TypeOK, CopyT
    <3>2. [id |-> i, row |-> table[t][i]] \in CopyT
      <4>1. table[t][i] \in RowT /\ i \in Nat
        BY <2>1, Fields
      <4> QED
        BY <4>1 DEF CopyT
    <3>3. copies'[t] = Append(copies[t], [id |-> i, row |-> table[t][i]])
      BY <1>3, ShipEffect
    <3> QED
      BY <3>1, <3>2, <3>3, IdsOfAppend, LogOfIs
  <2>4. pos'[t] = [ts |-> LogOf(t)[i], id |-> i]
    <3>1. pos'[t] = [ts |-> table[t][i].ts, id |-> i]
      BY <1>3, ShipEffect
    <3>2. LogOf(t)[i] = table[t][i].ts
      BY <2>1, <2>2
    <3> QED
      BY <3>1, <3>2
  <2>5. LogOf(t)' = LogOf(t)
    BY <1>1, LogOfIs
  <2>6. /\ i \in Beyond(t)
        /\ \A j \in Beyond(t) : \/ table[t][i].ts < table[t][j].ts
                                \/ table[t][i].ts = table[t][j].ts /\ i <= j
    BY <1>3 DEF Ship
  <2>7. LogShip(t, i)
    BY <2>1, <2>2, <2>3, <2>4, <2>5, <2>6 DEF LogShip, Beyond
  <2> QED
    BY <2>1, <2>2, <2>7 DEF LogStep
<1> QED
  BY <1>2, <1>3

LEMMA StutterRefines ==
  ASSUME NEW t \in Tables, table' = table, pos' = pos, copies' = copies
  PROVE  LogStep(t)
BY LogOfIs DEF LogStep

(* A flush of a table whose new row, if there is one, is not the oldest.   *)
LEMMA GrowRefines ==
  ASSUME TypeOK, NEW t \in Tables, NEW new \in Seq(RowT), table'[t] = new,
         pos' = pos, copies' = copies,
         \A i \in 1 .. Len(table[t]) : new[i].ts = table[t][i].ts,
         \/ Len(new) = Len(table[t])
         \/ /\ Len(new) = Len(table[t]) + 1
            /\ Len(table[t]) < MaxIntervals
            /\ new[Len(new)].ts \in Times
            /\ \A i \in 1 .. Len(table[t]) : table[t][i].ts <= new[Len(new)].ts
  PROVE  LogStep(t)
<1>1. table[t] \in Seq(RowT) /\ Len(table[t]) \in Nat
  BY Fields
<1>2. ShippedOf(t)' = ShippedOf(t)
  BY LogOfIs
<1>3. CASE Len(new) = Len(table[t])
  <2>1. LogOf(t)' = LogOf(t)
    BY <1>1, <1>3, TsOfSame, LogOfIs
  <2> QED
    BY <1>2, <2>1 DEF LogStep
<1>4. CASE /\ Len(new) = Len(table[t]) + 1
           /\ Len(table[t]) < MaxIntervals
           /\ new[Len(new)].ts \in Times
           /\ \A i \in 1 .. Len(table[t]) : table[t][i].ts <= new[Len(new)].ts
  <2> DEFINE ts == new[Len(table[t]) + 1].ts
  <2>1. LogOf(t)' = Append(LogOf(t), ts)
    BY <1>1, <1>4, TsOfAppend, LogOfIs
  <2>2. /\ Len(LogOf(t)) = Len(table[t]) /\ DOMAIN LogOf(t) = 1 .. Len(table[t])
        /\ \A j \in 1 .. Len(table[t]) : LogOf(t)[j] = table[t][j].ts
    BY <1>1, LogOfIs, TsOfType
  <2>3. LogInsert(t, ts)
    BY <1>2, <1>4, <2>1, <2>2 DEF LogInsert
  <2> QED
    BY <1>4, <2>3 DEF LogStep
<1> QED
  BY <1>3, <1>4

LEMMA OthersRefine ==
  ASSUME TypeOK, [Next]_vars, ~FlushInterval, NEW t \in Tables
  PROVE  LogStep(t)
<1>1. ASSUME NEW iv \in Intervals, HandOver(iv) PROVE LogStep(t)
  BY <1>1, StutterRefines DEF HandOver
<1>2. ASSUME NEW persists \in BOOLEAN, SetWatermark(persists) PROVE LogStep(t)
  BY <1>2, StutterRefines DEF SetWatermark
<1>3. CASE FlushFails
  BY <1>3, StutterRefines DEF FlushFails
<1>4. CASE Crash
  BY <1>4, StutterRefines DEF Crash
<1>5. CASE UNCHANGED vars
  BY <1>5, StutterRefines DEF vars
<1>6. ASSUME NEW u \in Tables, NEW i \in DOMAIN table[u], Ship(u, i) PROVE LogStep(t)
  BY <1>6, ShipRefines
<1> QED
  BY <1>1, <1>2, <1>3, <1>4, <1>5, <1>6, NextCases

(* A flush, once the row it inserts is known not to be the oldest. *)
LEMMA FlushGrows ==
  ASSUME TypeOK, Bounds, FlushInterval, NEW t \in Tables,
         Len(table'[t]) = Len(table[t]) + 1 =>
           \A i \in 1 .. Len(table[t]) : table[t][i].ts <= table'[t][Len(table'[t])].ts
  PROVE  LogStep(t)
<1>1. table[t] \in Seq(RowT) /\ table'[t] \in Seq(RowT) /\ Len(table[t]) \in Nat
  BY FlushEffect, Fields
<1>2. pos' = pos /\ copies' = copies
  BY DEF FlushInterval
<1>3. \A i \in 1 .. Len(table[t]) : table'[t][i].ts = table[t][i].ts
  BY FlushRows DEF FilledBy
<1>4. Len(table'[t]) = Len(table[t]) \/ Len(table'[t]) = Len(table[t]) + 1
  BY FlushRows DEF Tables
<1>5. CASE Len(table'[t]) = Len(table[t])
  BY <1>1, <1>2, <1>3, <1>5, GrowRefines
<1>6. CASE Len(table'[t]) = Len(table[t]) + 1
  <2>1. Len(table[t]) < MaxIntervals
    <3>1. 1 \in 1 .. Len(queue) /\ Len(queue) \in Nat
      BY FlushEffect, Fields
    <3> QED
      BY <1>1, <3>1, ReplicaBounds DEF ReplicaBounds, Bounds, TypeOK
  <2>2. Len(table'[t]) \in 1 .. Len(table'[t])
    BY <1>1, <1>6
  <2>3. table'[t][Len(table'[t])].ts \in Times
    BY <2>2, FlushBounds DEF Bounds
  <2> QED
    BY <1>1, <1>2, <1>3, <1>6, <2>1, <2>3, GrowRefines
<1> QED
  BY <1>4, <1>5, <1>6

(* With no failure so far the cache covers the table, even with no order   *)
(* on the timeline: the clamp alone makes the flush an Insert.             *)
LEMMA CyclesFlushRefines ==
  ASSUME TypeOK, Bounds, FlushInterval, InOrder \/ (MarksInv /\ failures = 0)
  PROVE  LogStep("cycles")
<1> DEFINE ts == AtLeast(queue[1].end, marks["cycles"])
           n == Len(table["cycles"])
<1>1. \A i \in 1 .. n : table["cycles"][i].ts <= ts
  <2>1. CASE InOrder
    BY <2>1, FlushInOrder DEF Tables
  <2>2. CASE MarksInv /\ failures = 0
    <3>1. Len(todo) = 0 /\ queue[1].end \in Nat /\ marks["cycles"] \in Nat
      BY FlushEffect, Fields DEF FlushInterval, IntervalT, Tables
    <3>2. \A i \in 1 .. n : table["cycles"][i].ts <= marks["cycles"]
      BY <2>2, <3>1 DEF MarksInv, Covered, Tables
    <3>3. marks["cycles"] <= ts
      BY <3>1 DEF AtLeast
    <3>4. \A i \in 1 .. n : table["cycles"][i].ts \in Nat
      BY Fields DEF Tables, RowT
    <3>5. ts \in Nat
      BY FlushEffect
    <3> QED
      BY <3>1, <3>2, <3>3, <3>4, <3>5
  <2> QED
    BY <2>1, <2>2
<1> HIDE DEF ts
<1>2. Len(table'["cycles"]) = n + 1 => table'["cycles"][n + 1].ts = ts
  BY FlushRows, Fields DEF ts, Tables
<1> QED
  BY <1>1, <1>2, FlushGrows DEF Tables

LEMMA DwellsFlushRefines ==
  ASSUME TypeOK, Bounds, FlushInterval, InOrder
  PROVE  LogStep("step_dwells")
<1> DEFINE dwell == queue[1].dwell
           n == Len(table["step_dwells"])
<1>1. dwell # NoDwell => \A i \in 1 .. n : table["step_dwells"][i].ts <= dwell
  BY FlushInOrder DEF Tables
<1>2. Len(table'["step_dwells"]) = n + 1 =>
        dwell # NoDwell /\ table'["step_dwells"][n + 1].ts = dwell
  BY FlushRows, Fields DEF Tables
<1> QED
  BY <1>1, <1>2, FlushGrows DEF Tables

(* Nothing fails where no failure is allowed. *)
LEMMA FailuresBounded == Spec => [](failures <= MaxFailures)
<1>1. Init => failures <= MaxFailures
  BY ReplicaBounds DEF ReplicaBounds, Init
<1>2. TypeOK /\ failures <= MaxFailures /\ [Next]_vars => (failures <= MaxFailures)'
  <2> SUFFICES ASSUME TypeOK, failures <= MaxFailures, [Next]_vars PROVE failures' <= MaxFailures
    OBVIOUS
  <2>1. failures \in Nat /\ MaxFailures \in Nat
    BY ReplicaBounds DEF ReplicaBounds, TypeOK
  <2>2. failures' = failures \/ (failures < MaxFailures /\ failures' = failures + 1)
    <3>1. ASSUME NEW iv \in Intervals, HandOver(iv) PROVE failures' = failures
      BY <3>1 DEF HandOver
    <3>2. FlushInterval => failures' = failures
      BY DEF FlushInterval
    <3>3. ASSUME NEW persists \in BOOLEAN, SetWatermark(persists)
          PROVE  failures' = failures \/ (failures < MaxFailures /\ failures' = failures + 1)
      BY <3>3 DEF SetWatermark
    <3>4. FlushFails \/ Crash => failures < MaxFailures /\ failures' = failures + 1
      BY DEF FlushFails, Crash
    <3>5. ASSUME NEW t \in Tables, NEW i \in DOMAIN table[t], Ship(t, i)
          PROVE  failures' = failures
      BY <3>5 DEF Ship
    <3>6. UNCHANGED vars => failures' = failures
      BY DEF vars
    <3> QED
      BY <3>1, <3>2, <3>3, <3>4, <3>5, <3>6, NextCases
  <2> QED
    BY <2>1, <2>2
<1> QED
  BY <1>1, <1>2, TypeCorrect, PTL DEF Spec

(* "event_ts must never move backwards within a table": the cycles table   *)
(* is the log the agent's cursor needs.  On a timeline in order it is one  *)
(* whatever crashes and lost watermarks come between; on any timeline, as  *)
(* long as nothing fails.  Without both it is not: the guard starts again  *)
(* from a watermark that was never saved.                                  *)
THEOREM CyclesImplement ==
  ASSUME MaxBack = 0 \/ MaxFailures = 0
  PROVE  Spec => CyclesImplementLog
<1>1. Init => CyclesLog!Init
  <2> SUFFICES ASSUME Init PROVE CyclesLog!Init
    OBVIOUS
  <2>1. table["cycles"] = <<>> /\ copies["cycles"] = <<>> /\ pos["cycles"] = [ts |-> 0, id |-> 0]
    BY DEF Init, Tables
  <2>2. LogOf("cycles") = <<>> /\ ShippedOf("cycles") = <<>>
    BY <2>1 DEF LogOf, ShippedOf
  <2> QED
    BY <2>1, <2>2 DEF CyclesLog!Init
<1>2. LogStep("cycles") => [CyclesLog!Next]_(CyclesLog!vars)
  BY DEF LogStep, LogInsert, LogShip, Times, CyclesLog!Next, CyclesLog!vars, CyclesLog!Insert,
     CyclesLog!Ship, CyclesLog!Beyond, CyclesLog!Before
<1>3. CASE MaxBack = 0
  <2>1. TypeOK /\ Bounds /\ InOrder /\ [Next]_vars => LogStep("cycles")
    BY CyclesFlushRefines, OthersRefine DEF Tables
  <2>2. TypeOK /\ Bounds /\ InOrder /\ [Next]_vars => [CyclesLog!Next]_(CyclesLog!vars)
    BY <1>2, <2>1
  <2>3. Spec => []InOrder
    BY <1>3, InOrderInvariant
  <2> QED
    BY <1>1, <2>2, <2>3, TypeCorrect, BoundsInvariant, PTL DEF Spec, CyclesImplementLog, CyclesLog!Spec
<1>4. CASE MaxFailures = 0
  <2>1. TypeOK /\ failures <= MaxFailures => failures = 0
    BY <1>4 DEF TypeOK
  <2>2. TypeOK /\ Bounds /\ MarksInv /\ failures <= MaxFailures /\ [Next]_vars
          => LogStep("cycles")
    BY <2>1, CyclesFlushRefines, OthersRefine DEF Tables
  <2>3. TypeOK /\ Bounds /\ MarksInv /\ failures <= MaxFailures /\ [Next]_vars
          => [CyclesLog!Next]_(CyclesLog!vars)
    BY <1>2, <2>2
  <2> QED
    BY <1>1, <2>3, TypeCorrect, BoundsInvariant, MarksInvariant, FailuresBounded, PTL
    DEF Spec, CyclesImplementLog, CyclesLog!Spec
<1> QED
  BY <1>3, <1>4

(* The child tables are written with their own time, past the guard: on a  *)
(* timeline in order they are such a log too, whatever fails.              *)
THEOREM DwellsImplement ==
  ASSUME MaxBack = 0
  PROVE  Spec => DwellsImplementLog
<1>1. Init => DwellsLog!Init
  <2> SUFFICES ASSUME Init PROVE DwellsLog!Init
    OBVIOUS
  <2>1. /\ table["step_dwells"] = <<>> /\ copies["step_dwells"] = <<>>
        /\ pos["step_dwells"] = [ts |-> 0, id |-> 0]
    BY DEF Init, Tables
  <2>2. LogOf("step_dwells") = <<>> /\ ShippedOf("step_dwells") = <<>>
    BY <2>1 DEF LogOf, ShippedOf
  <2> QED
    BY <2>1, <2>2 DEF DwellsLog!Init
<1>2. LogStep("step_dwells") => [DwellsLog!Next]_(DwellsLog!vars)
  BY DEF LogStep, LogInsert, LogShip, Times, DwellsLog!Next, DwellsLog!vars, DwellsLog!Insert,
     DwellsLog!Ship, DwellsLog!Beyond, DwellsLog!Before
<1>3. TypeOK /\ Bounds /\ InOrder /\ [Next]_vars => LogStep("step_dwells")
  BY DwellsFlushRefines, OthersRefine DEF Tables
<1>4. TypeOK /\ Bounds /\ InOrder /\ [Next]_vars => [DwellsLog!Next]_(DwellsLog!vars)
  BY <1>2, <1>3
<1>5. Spec => []InOrder
  BY InOrderInvariant
<1> QED
  BY <1>1, <1>4, <1>5, TypeCorrect, BoundsInvariant, PTL DEF Spec, DwellsImplementLog, DwellsLog!Spec

CyclesTheory == INSTANCE EventLogProofs WITH
  log <- LogOf("cycles"), cursor <- pos["cycles"],
  shipped <- ShippedOf("cycles"), MaxRows <- MaxIntervals
DwellsTheory == INSTANCE EventLogProofs WITH
  log <- LogOf("step_dwells"), cursor <- pos["step_dwells"],
  shipped <- ShippedOf("step_dwells"), MaxRows <- MaxIntervals

LEMMA CyclesPrefix == CyclesLog!Spec => []CyclesLog!ShippedIsPrefix
<1>1. CyclesTheory!Spec => []CyclesTheory!ShippedIsPrefix
  BY CyclesTheory!PrefixShipped, ReplicaBounds DEF ReplicaBounds
<1>2. CyclesLog!Init => CyclesTheory!Init
  BY DEF CyclesLog!Init, CyclesTheory!Init
<1>3. [CyclesLog!Next]_(CyclesLog!vars) => [CyclesTheory!Next]_(CyclesTheory!vars)
  BY DEF CyclesLog!Next, CyclesLog!Insert, CyclesLog!Ship, CyclesLog!Beyond, CyclesLog!Before,
     CyclesLog!vars, CyclesTheory!Next, CyclesTheory!Insert, CyclesTheory!Ship,
     CyclesTheory!Beyond, CyclesTheory!Before, CyclesTheory!vars
<1>4. CyclesTheory!ShippedIsPrefix => CyclesLog!ShippedIsPrefix
  BY DEF CyclesTheory!ShippedIsPrefix, CyclesLog!ShippedIsPrefix, CyclesTheory!Beyond,
     CyclesLog!Beyond
<1> QED
  BY <1>1, <1>2, <1>3, <1>4, PTL DEF CyclesLog!Spec, CyclesTheory!Spec

LEMMA DwellsPrefix == DwellsLog!Spec => []DwellsLog!ShippedIsPrefix
<1>1. DwellsTheory!Spec => []DwellsTheory!ShippedIsPrefix
  BY DwellsTheory!PrefixShipped, ReplicaBounds DEF ReplicaBounds
<1>2. DwellsLog!Init => DwellsTheory!Init
  BY DEF DwellsLog!Init, DwellsTheory!Init
<1>3. [DwellsLog!Next]_(DwellsLog!vars) => [DwellsTheory!Next]_(DwellsTheory!vars)
  BY DEF DwellsLog!Next, DwellsLog!Insert, DwellsLog!Ship, DwellsLog!Beyond, DwellsLog!Before,
     DwellsLog!vars, DwellsTheory!Next, DwellsTheory!Insert, DwellsTheory!Ship,
     DwellsTheory!Beyond, DwellsTheory!Before, DwellsTheory!vars
<1>4. DwellsTheory!ShippedIsPrefix => DwellsLog!ShippedIsPrefix
  BY DEF DwellsTheory!ShippedIsPrefix, DwellsLog!ShippedIsPrefix, DwellsTheory!Beyond,
     DwellsLog!Beyond
<1> QED
  BY <1>1, <1>2, <1>3, <1>4, PTL DEF DwellsLog!Spec, DwellsTheory!Spec

(* So what EventLog promises holds of the tables: on a timeline in order,  *)
(* whatever fails in the projector, the agent has shipped each table from  *)
(* its first row on, each row once and in rowid order, and its cursor has  *)
(* left none behind.                                                       *)
THEOREM RowsShipInOrder ==
  ASSUME MaxBack = 0
  PROVE  Spec => [](CyclesLog!ShippedIsPrefix /\ DwellsLog!ShippedIsPrefix)
<1>1. Spec => CyclesLog!Spec
  BY CyclesImplement DEF CyclesImplementLog
<1>2. Spec => DwellsLog!Spec
  BY DwellsImplement DEF DwellsImplementLog
<1> QED
  BY <1>1, <1>2, CyclesPrefix, DwellsPrefix, PTL

-----------------------------------------------------------------------------
(* The conflict clause and the recipe fill. *)

UniqueKeys(rows) == \A i, j \in 1 .. Len(rows) : rows[i].key = rows[j].key => i = j

(* An order has one cycles row, and every dwell has the row of its order,  *)
(* which knows the recipe if the dwell does.                               *)
ParentsInv ==
  /\ UniqueKeys(table["cycles"])
  /\ \A d \in 1 .. Len(table["step_dwells"]) : \E i \in 1 .. Len(table["cycles"]) :
       /\ table["cycles"][i].key = table["step_dwells"][d].key
       /\ table["step_dwells"][d].recipe => table["cycles"][i].recipe

LEMMA FlushKeepsParents ==
  ASSUME TypeOK, ParentsInv, FlushInterval
  PROVE  ParentsInv'
<1> DEFINE iv == queue[1]
           cycles == table["cycles"]
           dwells == table["step_dwells"]
           n == Len(cycles)
           m == Len(dwells)
<1>1. /\ n \in Nat /\ m \in Nat
      /\ \A i \in 1 .. n : FilledBy(iv, cycles[i], cycles'[i])
      /\ \A d \in 1 .. m : FilledBy(iv, dwells[d], dwells'[d])
  BY FlushRows, Fields DEF Tables
<1>2. \/ KnownIn(cycles, iv.key) /\ Len(cycles') = n
      \/ /\ ~KnownIn(cycles, iv.key) /\ Len(cycles') = n + 1
         /\ cycles'[n + 1].key = iv.key /\ cycles'[n + 1].recipe = iv.recipe
  BY FlushRows
<1>3. \/ Len(dwells') = m
      \/ /\ Len(dwells') = m + 1
         /\ dwells'[m + 1].key = iv.key /\ dwells'[m + 1].recipe = iv.recipe
  BY FlushRows
<1>4. /\ UniqueKeys(cycles)
      /\ \A d \in 1 .. m : \E i \in 1 .. n :
           cycles[i].key = dwells[d].key /\ (dwells[d].recipe => cycles[i].recipe)
  BY DEF ParentsInv
<1> HIDE DEF iv, cycles, dwells
<1>5. UniqueKeys(cycles')
  <2> SUFFICES ASSUME NEW i \in 1 .. Len(cycles'), NEW j \in 1 .. Len(cycles'),
                      cycles'[i].key = cycles'[j].key
               PROVE  i = j
    BY DEF UniqueKeys
  <2>1. \A k \in 1 .. Len(cycles') : k \in 1 .. n \/ (k = n + 1 /\ ~KnownIn(cycles, iv.key))
    BY <1>1, <1>2
  <2>2. \A k \in 1 .. n : cycles'[k].key = cycles[k].key
    BY <1>1 DEF FilledBy
  <2>3. \A k \in 1 .. n : k # n + 1
    BY <1>1
  <2>4. ASSUME NEW k \in 1 .. n, ~KnownIn(cycles, iv.key) PROVE cycles'[k].key # iv.key
    BY <2>2, <2>4 DEF KnownIn
  <2>5. ~KnownIn(cycles, iv.key) => cycles'[n + 1].key = iv.key
    BY <1>2
  <2> QED
    BY <1>4, <2>1, <2>2, <2>3, <2>4, <2>5 DEF UniqueKeys
<1>6. ASSUME NEW d \in 1 .. Len(dwells')
      PROVE  \E i \in 1 .. Len(cycles') :
               cycles'[i].key = dwells'[d].key /\ (dwells'[d].recipe => cycles'[i].recipe)
  <2>1. \A i \in 1 .. n : i \in 1 .. Len(cycles')
    BY <1>1, <1>2
  <2>2. CASE d \in 1 .. m
    <3>1. PICK i \in 1 .. n :
            cycles[i].key = dwells[d].key /\ (dwells[d].recipe => cycles[i].recipe)
      BY <1>4, <2>2
    <3>2. FilledBy(iv, cycles[i], cycles'[i]) /\ FilledBy(iv, dwells[d], dwells'[d])
      BY <1>1, <2>2
    <3>3. cycles'[i].key = dwells'[d].key /\ (dwells'[d].recipe => cycles'[i].recipe)
      BY <3>1, <3>2 DEF FilledBy
    <3> QED
      BY <2>1, <3>3
  <2>3. CASE dwells'[d].key = iv.key /\ dwells'[d].recipe = iv.recipe
    <3>1. CASE KnownIn(cycles, iv.key)
      <4>1. PICK i \in 1 .. n : cycles[i].key = iv.key
        BY <3>1 DEF KnownIn
      <4>2. FilledBy(iv, cycles[i], cycles'[i])
        BY <1>1
      <4>3. cycles'[i].key = iv.key /\ (iv.recipe => cycles'[i].recipe)
        BY <4>1, <4>2 DEF FilledBy
      <4> QED
        BY <2>1, <2>3, <4>3
    <3>2. CASE ~KnownIn(cycles, iv.key)
      <4>1. n + 1 \in 1 .. Len(cycles')
        BY <1>1, <1>2, <3>2
      <4> QED
        BY <1>2, <2>3, <3>2, <4>1
    <3> QED
      BY <3>1, <3>2
  <2>4. d \in 1 .. m \/ (dwells'[d].key = iv.key /\ dwells'[d].recipe = iv.recipe)
    BY <1>1, <1>3
  <2> QED
    BY <2>2, <2>3, <2>4
<1> QED
  BY <1>5, <1>6 DEF ParentsInv, cycles, dwells

LEMMA ParentsInvariant == Spec => []ParentsInv
<1>1. Init => ParentsInv
  BY DEF Init, ParentsInv, UniqueKeys, Tables
<1>2. TypeOK /\ ParentsInv /\ [Next]_vars => ParentsInv'
  <2> SUFFICES ASSUME TypeOK, ParentsInv, [Next]_vars, ~FlushInterval PROVE ParentsInv'
    BY FlushKeepsParents
  <2>1. table' = table
    BY NextCases DEF HandOver, SetWatermark, FlushFails, Crash, Ship, vars
  <2> QED
    BY <2>1 DEF ParentsInv, UniqueKeys
<1> QED
  BY <1>1, <1>2, TypeCorrect, PTL DEF Spec

(* Parent first: every dwell has a cycles row, and a dwell that knows its  *)
(* recipe has a parent that knows it too, after crashes and failed         *)
(* transactions and with times in any order.                               *)
THEOREM ParentsExist == Spec => []DwellsHaveParent
<1>1. TypeOK /\ ParentsInv => DwellsHaveParent
  <2> SUFFICES ASSUME TypeOK, ParentsInv, NEW d \in DOMAIN table["step_dwells"]
               PROVE  /\ \E i \in DOMAIN table["cycles"] :
                           table["cycles"][i].key = table["step_dwells"][d].key
                      /\ table["step_dwells"][d].recipe =>
                           table["cycles"][CycleOf(table["step_dwells"][d].key)].recipe
    BY DEF DwellsHaveParent
  <2> DEFINE row == table["step_dwells"][d]
             cycles == table["cycles"]
  <2>1. d \in 1 .. Len(table["step_dwells"]) /\ DOMAIN cycles = 1 .. Len(cycles)
    BY Fields DEF Tables
  <2>2. PICK i \in 1 .. Len(cycles) :
          cycles[i].key = row.key /\ (row.recipe => cycles[i].recipe)
    BY <2>1 DEF ParentsInv
  <2>3. CycleOf(row.key) \in DOMAIN cycles /\ cycles[CycleOf(row.key)].key = row.key
    BY <2>1, <2>2 DEF CycleOf
  <2>4. CycleOf(row.key) = i
    BY <2>1, <2>2, <2>3 DEF ParentsInv, UniqueKeys
  <2> QED
    BY <2>1, <2>2, <2>4
<1> QED
  BY <1>1, TypeCorrect, ParentsInvariant, PTL

(* As many keys as rows where no two rows have the same. *)
LEMMA UniqueKeysCount ==
  ASSUME NEW rows \in Seq(RowT), UniqueKeys(rows)
  PROVE  Cardinality({rows[j].key : j \in DOMAIN rows}) = Len(rows)
<1> DEFINE n == Len(rows)
           K == {rows[j].key : j \in DOMAIN rows}
           f == [j \in 1 .. n |-> rows[j].key]
<1>1. n \in Nat /\ DOMAIN rows = 1 .. n
  BY LenProperties
<1>2. f \in Bijection(1 .. n, K)
  <2>1. f \in [1 .. n -> K]
    BY <1>1
  <2>2. \A i, j \in 1 .. n : f[i] = f[j] => i = j
    BY DEF UniqueKeys
  <2>3. \A k \in K : \E j \in 1 .. n : f[j] = k
    BY <1>1
  <2> QED
    BY <2>1, <2>2, <2>3, Zenon DEF Bijection, Injection, Surjection, IsInjective
<1>3. ExistsBijection(1 .. n, K)
  BY <1>2 DEF ExistsBijection
<1>4. IsFiniteSet(1 .. n) /\ Cardinality(1 .. n) = n
  BY <1>1, FS_Interval
<1> HIDE DEF K, f
<1>5. Cardinality(K) = n
  BY <1>3, <1>4, FS_Bijection
<1> QED
  BY <1>5 DEF K

(* A rewritten order is never a second row, and no step changes or drops   *)
(* anything that stands in a row but a NULL recipe, which it fills once.   *)
THEOREM OnlyFilled == Spec => RowsOnlyFilled
<1> DEFINE A == \A t \in Tables : \A i \in DOMAIN table[t] :
                  /\ i \in DOMAIN table'[t]
                  /\ table'[t][i].ts = table[t][i].ts /\ table'[t][i].key = table[t][i].key
                  /\ table[t][i].recipe => table'[t][i].recipe
                  /\ Cardinality({table'["cycles"][j].key : j \in DOMAIN table'["cycles"]})
                       = Len(table'["cycles"])
<1>1. TypeOK /\ TypeOK' /\ ParentsInv' /\ [Next]_vars => [A]_vars
  <2> SUFFICES ASSUME TypeOK, TypeOK', ParentsInv', [Next]_vars,
                      NEW t \in Tables, NEW i \in DOMAIN table[t]
               PROVE  /\ i \in DOMAIN table'[t]
                      /\ table'[t][i].ts = table[t][i].ts /\ table'[t][i].key = table[t][i].key
                      /\ table[t][i].recipe => table'[t][i].recipe
                      /\ Cardinality({table'["cycles"][j].key : j \in DOMAIN table'["cycles"]})
                           = Len(table'["cycles"])
    OBVIOUS
  <2>1. Cardinality({table'["cycles"][j].key : j \in DOMAIN table'["cycles"]})
          = Len(table'["cycles"])
    <3>1. table'["cycles"] \in Seq(RowT) /\ UniqueKeys(table'["cycles"])
      BY DEF TypeOK, Tables, ParentsInv, UniqueKeys
    <3> QED
      BY <3>1, UniqueKeysCount
  <2>2. CASE FlushInterval
    <3>1. /\ i \in 1 .. Len(table[t]) /\ Len(table[t]) \in Nat
          /\ table'[t] \in Seq(RowT)
      BY <2>2, Fields, FlushEffect
    <3>2. FilledBy(queue[1], table[t][i], table'[t][i])
      BY <2>2, <3>1, FlushRows
    <3>3. Len(table'[t]) = Len(table[t]) \/ Len(table'[t]) = Len(table[t]) + 1
      BY <2>2, FlushRows DEF Tables
    <3>4. i \in DOMAIN table'[t]
      BY <3>1, <3>3, LenProperties
    <3> QED
      BY <2>1, <3>2, <3>4 DEF FilledBy
  <2>3. CASE ~FlushInterval
    <3>1. table' = table
      BY <2>3, NextCases DEF HandOver, SetWatermark, FlushFails, Crash, Ship, vars
    <3> QED
      BY <2>1, <3>1
  <2> QED
    BY <2>2, <2>3
<1> QED
  BY <1>1, TypeCorrect, ParentsInvariant, PTL DEF Spec, RowsOnlyFilled
=============================================================================

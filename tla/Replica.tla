------------------------------- MODULE Replica -------------------------------
(***************************************************************************)
(* The writer (writer.go), its monotonic guard and the watermarks the      *)
(* guard reads (state.go): intervals handed over by the tracker are        *)
(* written one transaction each, watermarks follow the commit one by one   *)
(* in another database, and the edge agent reads the tables meanwhile.     *)
(*                                                                         *)
(* Two tables stand for the seven that FlushInterval writes: cycles, the   *)
(* guarded parent with its conflict clause, and step_dwells for the child  *)
(* tables, which are written with their own time.  An interval carries at  *)
(* most one dwell.  A recipe is known or NULL.                             *)
(***************************************************************************)
EXTENDS Integers, Sequences, FiniteSets

CONSTANTS
  Keys,         \* order ids
  MaxBack,      \* how far an interval may end before the one handed over last
  MaxTs,        \* bound: times are 1 .. MaxTs
  MaxIntervals, \* bound: intervals handed over
  MaxFailures   \* bound: crashes, failed transactions, lost watermark writes

ASSUME ReplicaBounds ==
  /\ MaxBack \in Nat /\ MaxTs \in Nat
  /\ MaxIntervals \in Nat /\ MaxFailures \in Nat

Tables == {"cycles", "step_dwells"}

VARIABLES
  queue,    \* PendingIntervals not yet flushed, in memory
  table,    \* rows by table, indexed by rowid
  marks,    \* watermark cache of the state store
  saved,    \* emit_watermark in projector_state.db
  todo,     \* SetWatermark calls FlushInterval has still to make
  pos,      \* the agent's cursor into each table
  copies,   \* what the agent shipped from each table: rowid and content
  handed,   \* history: intervals handed over so far
  lastEnd,  \* history: end of the interval handed over last
  failures  \* history: failures so far

vars == <<queue, table, marks, saved, todo, pos, copies, handed, lastEnd, failures>>

Times == 1 .. MaxTs
NoDwell == 0
IntervalT == [key : Keys, end : Nat, dwell : Nat, recipe : BOOLEAN]
RowT == [ts : Nat, key : Keys, recipe : BOOLEAN]
MarkT == [table : Tables, ts : Nat]

TypeOK ==
  /\ queue \in Seq(IntervalT)
  /\ table \in [Tables -> Seq(RowT)]
  /\ marks \in [Tables -> Nat] /\ saved \in [Tables -> Nat]
  /\ todo \in Seq(MarkT)
  /\ pos \in [Tables -> [ts : Nat, id : Nat]]
  /\ copies \in [Tables -> Seq([id : Nat, row : RowT])]
  /\ handed \in Nat /\ lastEnd \in Nat /\ failures \in Nat

Init ==
  /\ queue = <<>>
  /\ table = [t \in Tables |-> <<>>]
  /\ marks = [t \in Tables |-> 0]
  /\ saved = [t \in Tables |-> 0]
  /\ todo = <<>>
  /\ pos = [t \in Tables |-> [ts |-> 0, id |-> 0]]
  /\ copies = [t \in Tables |-> <<>>]
  /\ handed = 0
  /\ lastEnd = 0
  /\ failures = 0

-----------------------------------------------------------------------------
AtLeast(a, b) == IF a >= b THEN a ELSE b

(* The tracker closes an interval.  Its dwell ended inside it, and not     *)
(* before the previous interval on a timeline in order.                    *)
HandOver(iv) ==
  /\ handed < MaxIntervals
  /\ iv.end + MaxBack >= lastEnd
  /\ iv.dwell # NoDwell => iv.dwell + MaxBack >= lastEnd /\ iv.dwell <= iv.end
  /\ queue' = Append(queue, iv)
  /\ handed' = handed + 1
  /\ lastEnd' = AtLeast(iv.end, lastEnd)
  /\ UNCHANGED <<table, marks, saved, todo, pos, copies, failures>>

(* Mutants: no clamp; and a time that counts from the watermark. *)
GuardNothing(t, ms) == ms
GuardOffset(t, ms) == ms - marks[t]

(* Clamped forward rather than rejected: the row is kept. *)
Guard(t, ms) == AtLeast(ms, marks[t])

(* Mutants: the rows of a rewritten order take its recipe, NULL or not;    *)
(* and its time.                                                           *)
FillRecipeOver(rows, iv) ==
  [i \in DOMAIN rows |-> IF rows[i].key = iv.key
                         THEN [rows[i] EXCEPT !.recipe = iv.recipe]
                         ELSE rows[i]]
FillRecipeTouch(rows, iv) ==
  [i \in DOMAIN rows |-> IF rows[i].key = iv.key
                         THEN [rows[i] EXCEPT !.recipe = @ \/ iv.recipe, !.ts = iv.end]
                         ELSE rows[i]]

FillRecipe(rows, iv) ==
  [i \in DOMAIN rows |-> IF rows[i].key = iv.key
                         THEN [rows[i] EXCEPT !.recipe = @ \/ iv.recipe]
                         ELSE rows[i]]

(* Mutants: ON CONFLICT DO NOTHING; and INSERT OR REPLACE. *)
UpsertCycleIgnore(rows, iv, ts) ==
  IF \E i \in DOMAIN rows : rows[i].key = iv.key
  THEN rows
  ELSE Append(rows, [ts |-> ts, key |-> iv.key, recipe |-> iv.recipe])
UpsertCycleReplace(rows, iv, ts) ==
  Append(SelectSeq(rows, LAMBDA r : r.key # iv.key),
         [ts |-> ts, key |-> iv.key, recipe |-> iv.recipe])

(* ON CONFLICT(order_id) DO UPDATE: a known key keeps its row and only has *)
(* a NULL recipe filled. *)
UpsertCycle(rows, iv, ts) ==
  IF \E i \in DOMAIN rows : rows[i].key = iv.key
  THEN FillRecipe(rows, iv)
  ELSE Append(rows, [ts |-> ts, key |-> iv.key, recipe |-> iv.recipe])

InsertDwell(rows, iv) ==
  IF iv.dwell = NoDwell THEN rows
  ELSE Append(rows, [ts |-> iv.dwell, key |-> iv.key, recipe |-> iv.recipe])

(* One transaction, up to its commit; the watermarks are next. *)
FlushInterval ==
  /\ queue # <<>> /\ todo = <<>>
  /\ LET iv == Head(queue)
         cycleTS == Guard("cycles", iv.end)
     IN  /\ table' = [cycles |-> UpsertCycle(table["cycles"], iv, cycleTS),
                      step_dwells |-> InsertDwell(FillRecipe(table["step_dwells"], iv), iv)]
         /\ todo' = <<[table |-> "cycles", ts |-> cycleTS],
                      [table |-> "step_dwells", ts |-> AtLeast(iv.dwell, cycleTS)]>>
  /\ queue' = Tail(queue)
  /\ UNCHANGED <<marks, saved, pos, copies, handed, lastEnd, failures>>

(* Mutant: the first watermark ends the loop. *)
SetWatermarkOnce(persists) ==
  /\ todo # <<>>
  /\ LET t == Head(todo).table
         ts == Head(todo).ts
     IN  /\ marks' = [marks EXCEPT ![t] = AtLeast(ts, @)]
         /\ saved' = IF ts > marks[t] /\ persists THEN [saved EXCEPT ![t] = ts] ELSE saved
         /\ ts > marks[t] \/ persists
  /\ todo' = <<>>
  /\ persists \/ failures < MaxFailures
  /\ failures' = IF persists THEN failures ELSE failures + 1
  /\ UNCHANGED <<queue, table, pos, copies, handed, lastEnd>>

(* SetWatermark: raised in the cache, then in the database; a failed write *)
(* to the database is only logged. *)
SetWatermark(persists) ==
  /\ todo # <<>>
  /\ LET t == Head(todo).table
         ts == Head(todo).ts
         raises == ts > marks[t]
     IN  /\ marks' = [marks EXCEPT ![t] = AtLeast(ts, @)]
         /\ saved' = IF raises /\ persists THEN [saved EXCEPT ![t] = ts] ELSE saved
         /\ raises \/ persists
  /\ todo' = Tail(todo)
  /\ persists \/ failures < MaxFailures
  /\ failures' = IF persists THEN failures ELSE failures + 1
  /\ UNCHANGED <<queue, table, pos, copies, handed, lastEnd>>

(* The transaction fails: it is rolled back, flushIntervals returns the    *)
(* error, and what PendingIntervals had handed out is gone.                *)
FlushFails ==
  /\ queue # <<>> /\ todo = <<>> /\ failures < MaxFailures
  /\ queue' = <<>>
  /\ failures' = failures + 1
  /\ UNCHANGED <<table, marks, saved, todo, pos, copies, handed, lastEnd>>

(* The process dies and starts again: openState loads the watermarks. *)
Crash ==
  /\ failures < MaxFailures
  /\ queue' = <<>>
  /\ todo' = <<>>
  /\ marks' = saved
  /\ failures' = failures + 1
  /\ UNCHANGED <<table, saved, pos, copies, handed, lastEnd>>

(* Mutant: a row of the time last shipped is taken for shipped. *)
BeyondStrictly(t) == {i \in DOMAIN table[t] : table[t][i].ts > pos[t].ts}

(* The agent: see EventLog. *)
Beyond(t) == {i \in DOMAIN table[t] : \/ table[t][i].ts > pos[t].ts
                                      \/ table[t][i].ts = pos[t].ts /\ i > pos[t].id}
Ship(t, i) ==
  /\ i \in Beyond(t)
  /\ \A j \in Beyond(t) : \/ table[t][i].ts < table[t][j].ts
                          \/ table[t][i].ts = table[t][j].ts /\ i <= j
  /\ pos' = [pos EXCEPT ![t] = [ts |-> table[t][i].ts, id |-> i]]
  /\ copies' = [copies EXCEPT ![t] = Append(@, [id |-> i, row |-> table[t][i]])]
  /\ UNCHANGED <<queue, table, marks, saved, todo, handed, lastEnd, failures>>

ShipFrom(t) == \E i \in DOMAIN table[t] : Ship(t, i)

Next ==
  \/ \E k \in Keys, end \in Times, d \in {NoDwell} \cup Times, r \in BOOLEAN :
       HandOver([key |-> k, end |-> end, dwell |-> d, recipe |-> r])
  \/ FlushInterval
  \/ \E persists \in BOOLEAN : SetWatermark(persists)
  \/ FlushFails
  \/ Crash
  \/ \E t \in Tables : ShipFrom(t)

(* The agent polls for ever; the projector may stop at any point. *)
Fairness == \A t \in Tables : WF_vars(ShipFrom(t))

Spec == Init /\ [][Next]_vars
FairSpec == Spec /\ Fairness

-----------------------------------------------------------------------------
(* Properties *)

LogOf(t) == [i \in DOMAIN table[t] |-> table[t][i].ts]
ShippedOf(t) == [k \in DOMAIN copies[t] |-> copies[t][k].id]

(* Each table is the log the agent's cursor needs: module EventLog.  Rows  *)
(* updated in place by the conflict clause or the recipe fill keep their   *)
(* event_ts, so they are stuttering steps there.                           *)
CyclesLog == INSTANCE EventLog WITH
  log <- LogOf("cycles"), cursor <- pos["cycles"],
  shipped <- ShippedOf("cycles"), MaxRows <- MaxIntervals
DwellsLog == INSTANCE EventLog WITH
  log <- LogOf("step_dwells"), cursor <- pos["step_dwells"],
  shipped <- ShippedOf("step_dwells"), MaxRows <- MaxIntervals

(* "event_ts must never move backwards within a table": the guarded table  *)
(* and the unguarded one both implement EventLog, whatever crashes and     *)
(* failed writes come between a commit and its watermarks, on a timeline   *)
(* in order; and the guarded one also on a timeline that is not, as long   *)
(* as the process lives.                                                   *)
CyclesImplementLog == CyclesLog!Spec
DwellsImplementLog == DwellsLog!Spec

(* Whatever fails in the projector, a row that was committed is eventually *)
(* shipped by the polling agent.                                           *)
CommittedRowsShip ==
  \A t \in Tables : \A i \in 1 .. MaxIntervals :
    i \in DOMAIN table[t] ~> \E k \in DOMAIN copies[t] : copies[t][k].id = i

(* The cache never falls behind the database it shadows, and with no call  *)
(* outstanding it covers every cycles row written since the last failure.  *)
MarksCover ==
  /\ \A t \in Tables : saved[t] <= marks[t]
  /\ todo = <<>> /\ failures = 0 =>
       \A t \in Tables : \A i \in DOMAIN table[t] : table[t][i].ts <= marks[t]

(* A rewritten order is never a second row, and no flush changes or drops  *)
(* anything that stands in a row but a NULL recipe, which it fills once.   *)
RowsOnlyFilled ==
  [][\A t \in Tables : \A i \in DOMAIN table[t] :
       /\ i \in DOMAIN table'[t]
       /\ table'[t][i].ts = table[t][i].ts /\ table'[t][i].key = table[t][i].key
       /\ table[t][i].recipe => table'[t][i].recipe
       /\ Cardinality({table'["cycles"][j].key : j \in DOMAIN table'["cycles"]})
            = Len(table'["cycles"])]_vars

(* Parent first: every dwell has a cycles row, and a dwell that knows its  *)
(* recipe has a parent that knows it too.                                  *)
CycleOf(k) == CHOOSE i \in DOMAIN table["cycles"] : table["cycles"][i].key = k
DwellsHaveParent ==
  \A d \in DOMAIN table["step_dwells"] :
    LET row == table["step_dwells"][d]
    IN  /\ \E i \in DOMAIN table["cycles"] : table["cycles"][i].key = row.key
        /\ row.recipe => table["cycles"][CycleOf(row.key)].recipe
=============================================================================

------------------------------- MODULE Rollups -------------------------------
(***************************************************************************)
(* The derived tables (rollup.go): CIP runs, and hourly and daily rollups  *)
(* computed from the replica's own finished rows at the end of a tick.     *)
(* Every insert commits by itself and a cursor follows, so a tick can end  *)
(* between any two of them.                                                *)
(*                                                                         *)
(* An interval is flushed with one state span of its own extent, a cycle,  *)
(* and at most one fault or CIP marker.  Of the sums over cycles only      *)
(* orders_started is kept; the others select from the same rows.  guard()  *)
(* never clamps here, since the ends of a grain's buckets only grow.       *)
(***************************************************************************)
EXTENDS Integers, Sequences, FiniteSets, FiniteSetsExt

CONSTANTS
  Hour, Day,    \* widths of the two grains
  Cap,          \* the tracker's cap on an interval that receives rows
  States,       \* states of the main FSM
  FaultTypes,
  MaxTime,      \* bound: the timeline ends here
  MaxIntervals, \* bound: intervals flushed
  MaxFailures   \* bound: failed ticks and crashes

ASSUME RollupConstants ==
  /\ Hour \in Nat \ {0} /\ Day \in Nat \ {0} /\ Day % Hour = 0
  /\ Cap \in Nat \ {0}
  /\ MaxTime \in Nat /\ MaxIntervals \in Nat /\ MaxFailures \in Nat

VARIABLES
  openAt,   \* start of the tracker's open interval
  latest,   \* latest row applied, p.lastTimelineMS
  spans,    \* state_durations
  facts,    \* fault_events, step_dwells and CIP results, by time
  cips,     \* cip_runs, by rowid
  rollups,  \* rollups, by rowid
  cursor,   \* saved cursors, by name; 0 if there is none
  pc,       \* where emitDerived is
  todo,     \* spans emitCIPRuns has still to visit
  flushed,  \* history: intervals flushed
  failures  \* history: failures so far

replicaVars == <<spans, facts>>
envVars == <<openAt, latest, replicaVars, flushed>>
vars == <<envVars, cips, rollups, cursor, pc, todo, failures>>

Times == Day .. MaxTime
Grains == {"hour", "day"}
Width(g) == IF g = "hour" THEN Hour ELSE Day
RowsOf(g) == IF g = "hour" THEN "hour_rows" ELSE "day_rows"
None == "none"
CIPStep == "Maintenance/7"

(* The keys of the two kinds of rows never meet. *)
ASSUME StepIsNoFault == CIPStep \notin FaultTypes

Kinds == {"fault_type", "step", "cip_result"}
SpanRow == [state : States, start : Nat, end : Nat]
Fact == [kind : Kinds, at : Nat, key : FaultTypes \cup {CIPStep}]
CIPRun == [start : Nat, end : Nat, completed : BOOLEAN]
Occupied == {"run", "error", "maintenance", "idle"}
Columns == Occupied \cup {"orders_started", "fault_count", "cip_runs"}
MachineRow ==
  [grain : Grains, bucket : Nat, kind : {"machine"}, key : {None},
   cols : [Columns -> Nat], open : Nat]
KeyedRow ==
  [grain : Grains, bucket : Nat, kind : {"fault_type", "step"},
   key : FaultTypes \cup {CIPStep}, cols : [{"occurrences"} -> Nat], open : Nat]

TypeOK ==
  /\ openAt \in Nat /\ latest \in Nat
  /\ spans \subseteq SpanRow /\ facts \subseteq Fact
  /\ cips \in Seq(CIPRun)
  /\ rollups \in Seq(MachineRow \cup KeyedRow)
  /\ cursor \in [Grains \cup {"cip"} -> Nat]
  /\ pc \in {"idle", "cip"} \cup Grains \cup {RowsOf(g) : g \in Grains}
  /\ todo \subseteq spans
  /\ flushed \in Nat /\ failures \in Nat

Init ==
  /\ openAt \in Day .. Day + Hour - 1
  /\ latest = openAt
  /\ spans = {} /\ facts = {}
  /\ cips = <<>> /\ rollups = <<>>
  /\ cursor = [name \in Grains \cup {"cip"} |-> 0]
  /\ pc = "idle" /\ todo = {}
  /\ flushed = 0 /\ failures = 0

-----------------------------------------------------------------------------
(* What the tick did before: intervals closed and flushed, rows applied.   *)

FlushInterval(e, state, found) ==
  /\ pc = "idle" /\ flushed < MaxIntervals
  /\ openAt < e /\ latest <= e
  /\ \A f \in found : /\ openAt <= f.at /\ f.at <= e
                      /\ f.key = CIPStep => state = "Maintenance" /\ f.at < e
                      /\ f.kind = "cip_result" => f.at = openAt
  /\ spans' = spans \cup {[state |-> state, start |-> openAt, end |-> e]}
  /\ facts' = facts \cup found
  /\ openAt' = e /\ latest' = e
  /\ flushed' = flushed + 1
  /\ UNCHANGED <<cips, rollups, cursor, pc, todo, failures>>

(* The last row of the tick lies in the open interval, which the cap would *)
(* have closed before it otherwise. *)
BeginDerived(t) ==
  /\ pc = "idle"
  /\ latest <= t /\ t < openAt + Cap
  /\ latest' = t
  /\ pc' = "cip"
  /\ todo' = {s \in spans : s.state = "Maintenance" /\ s.end > cursor["cip"] /\ s.end <= t}
  /\ UNCHANGED <<openAt, replicaVars, flushed, cips, rollups, cursor, failures>>

-----------------------------------------------------------------------------
(* emitCIPRuns *)

FactsIn(kind, s, e) == {f \in facts : f.kind = kind /\ s <= f.at /\ f.at < e}

(* Mutant: only a dwell tells that the run completed. *)
CompletedByDwell(span) ==
  \E f \in FactsIn("step", span.start, span.end) : f.key = CIPStep

(* A Maintenance dwell of step 7, or a maintenance cycle that ended there. *)
Completed(span) ==
  \E kind \in {"step", "cip_result"} :
    \E f \in FactsIn(kind, span.start, span.end) : f.key = CIPStep

EmitCIPRun(span) ==
  /\ pc = "cip" /\ span \in todo
  /\ \A s \in todo : span.end <= s.end
  /\ cips' = Append(cips, [start |-> span.start, end |-> span.end,
                           completed |-> Completed(span)])
  /\ todo' = todo \ {span}
  /\ UNCHANGED <<envVars, rollups, cursor, pc, failures>>

(* The cursor moves once, after the last run. *)
EndCIPRuns ==
  /\ pc = "cip" /\ todo = {}
  /\ LET done == {s \in spans : s.state = "Maintenance" /\ s.end <= latest}
     IN  cursor' = IF done = {} THEN cursor
                   ELSE [cursor EXCEPT !["cip"] = Max({s.end : s \in done})]
  /\ pc' = "hour"
  /\ UNCHANGED <<envVars, cips, rollups, todo, failures>>

-----------------------------------------------------------------------------
(* emitHourly and emitDaily *)

Floor(t, width) == t - (t % width)

Earliest == Min({s.start : s \in spans} \cup {f.at : f \in facts})

(* Mutant: the first bucket begins with the first row. *)
NextBucketUnaligned(g) == IF cursor[g] = 0 THEN Earliest ELSE cursor[g] + Width(g)

NextBucket(g) ==
  IF cursor[g] = 0 THEN Floor(Floor(Earliest, Hour), Width(g)) ELSE cursor[g] + Width(g)

HasBucket(g) ==
  /\ spans # {}
  /\ NextBucket(g) + Width(g) <= latest

(* Mutant: a span is attributed whole to every bucket it touches. *)
OverlapWhole(s, bs, be) == IF s.end > bs /\ s.start < be THEN s.end - s.start ELSE 0

Overlap(s, bs, be) ==
  LET lo == IF bs > s.start THEN bs ELSE s.start
      hi == IF be < s.end THEN be ELSE s.end
  IN  IF hi <= lo THEN 0 ELSE hi - lo

ColumnOf(state) == CASE state = "AutoCycle"   -> "run"
                     [] state = "Error"       -> "error"
                     [] state = "Maintenance" -> "maintenance"
                     [] OTHER                 -> "idle"

(* Mutant: spans that do not touch the bucket are summed, too. *)
OccupancyOfAll(column, bs, be) ==
  MapThenSumSet(LAMBDA s : Min({s.end, be}) - Max({s.start, bs}),
                {s \in spans : ColumnOf(s.state) = column})

Occupancy(column, bs, be) ==
  MapThenSumSet(LAMBDA s : Overlap(s, bs, be),
                {s \in spans : ColumnOf(s.state) = column /\ s.end > bs /\ s.start < be})

(* Mutant: the range includes its end. *)
StartedInclusive(bs, be) ==
  {s \in spans : s.state = "AutoCycle" /\ bs <= s.start /\ s.start <= be}

(* Production cycles are those whose state is AutoCycle. *)
Started(bs, be) ==
  {s \in spans : s.state = "AutoCycle" /\ bs <= s.start /\ s.start < be}

Aggregate(column, bs, be) ==
  CASE column \in Occupied        -> Occupancy(column, bs, be)
    [] column = "orders_started"  -> Cardinality(Started(bs, be))
    [] column = "fault_count"     -> Cardinality(FactsIn("fault_type", bs, be))
    [] column = "cip_runs"        -> Cardinality({i \in DOMAIN cips :
                                        bs <= cips[i].start /\ cips[i].start < be})

Conflicts(row) ==
  \E i \in DOMAIN rollups :
    /\ rollups[i].grain = row.grain /\ rollups[i].bucket = row.bucket
    /\ rollups[i].kind = row.kind /\ rollups[i].key = row.key

(* ON CONFLICT DO NOTHING never applies: dim_key is NULL.  (The day's row  *)
(* leaves two of the columns out.) *)
EmitMachineRow(g) ==
  /\ pc = g /\ HasBucket(g)
  /\ LET b == NextBucket(g)
     IN  rollups' = Append(rollups,
           [grain |-> g, bucket |-> b, kind |-> "machine", key |-> None, open |-> openAt,
            cols |-> [c \in Columns |-> Aggregate(c, b, b + Width(g))]])
  /\ pc' = RowsOf(g)
  /\ UNCHANGED <<envVars, cips, cursor, todo, failures>>

(* GROUP BY over the bucket's faults and dwells; lane and severity depend  *)
(* on the key. *)
KeyedRows(g) ==
  LET b == NextBucket(g)
      found == FactsIn("fault_type", b, b + Width(g)) \cup FactsIn("step", b, b + Width(g))
      Same(f) == {x \in found : x.kind = f.kind /\ x.key = f.key}
  IN  {[grain |-> g, bucket |-> b, kind |-> f.kind, key |-> f.key, open |-> openAt,
        cols |-> [c \in {"occurrences"} |-> Cardinality(Same(f))]] : f \in found}

EmitKeyedRow(g, row) ==
  /\ pc = RowsOf(g) /\ ~Conflicts(row)
  /\ rollups' = Append(rollups, row)
  /\ UNCHANGED <<envVars, cips, cursor, pc, todo, failures>>

SaveCursor(g) ==
  /\ pc = RowsOf(g) /\ \A row \in KeyedRows(g) : Conflicts(row)
  /\ cursor' = [cursor EXCEPT ![g] = NextBucket(g)]
  /\ pc' = g
  /\ UNCHANGED <<envVars, cips, rollups, todo, failures>>

EndGrain(g) ==
  /\ pc = g /\ ~HasBucket(g)
  /\ pc' = IF g = "hour" THEN "day" ELSE "idle"
  /\ UNCHANGED <<envVars, cips, rollups, cursor, todo, failures>>

-----------------------------------------------------------------------------
(* A query, an insert or SetCursor fails: the tick ends, the process and   *)
(* the open interval go on. *)
TickFails ==
  /\ pc # "idle" /\ failures < MaxFailures
  /\ pc' = "idle" /\ todo' = {}
  /\ failures' = failures + 1
  /\ UNCHANGED <<envVars, cips, rollups, cursor>>

(* The process dies, and the open interval with it; the next one begins    *)
(* with the next row, at t. *)
Crash(t) ==
  /\ failures < MaxFailures
  /\ latest <= t
  /\ openAt' = t
  /\ pc' = "idle" /\ todo' = {}
  /\ failures' = failures + 1
  /\ UNCHANGED <<latest, replicaVars, flushed, cips, rollups, cursor>>

(* What an interval may bring besides its span. *)
Found(e) ==
  {{}} \cup {{[kind |-> "fault_type", at |-> t, key |-> f]} : t \in {e}, f \in FaultTypes}
       \cup {{[kind |-> k, at |-> openAt, key |-> CIPStep]} : k \in {"step", "cip_result"}}

Derive ==
  \/ \E span \in todo : EmitCIPRun(span)
  \/ EndCIPRuns
  \/ \E g \in Grains : \/ EmitMachineRow(g)
                       \/ pc = RowsOf(g) /\ \E row \in KeyedRows(g) : EmitKeyedRow(g, row)
                       \/ SaveCursor(g)
                       \/ EndGrain(g)

Next ==
  \/ \E e \in Times, state \in States : \E found \in Found(e) : FlushInterval(e, state, found)
  \/ \E t \in Times : BeginDerived(t)
  \/ Derive
  \/ TickFails
  \/ \E t \in Times : Crash(t)

Spec == Init /\ [][Next]_vars

-----------------------------------------------------------------------------
(* Properties *)

RowsOfKind(kind) == {i \in DOMAIN rollups : rollups[i].kind = kind}
EndOf(i) == rollups[i].bucket + Width(rollups[i].grain)
InBucket(i, t) == rollups[i].bucket <= t /\ t < EndOf(i)

(* The units of time of a bucket that spans of a column cover, counted one *)
(* by one, and only in intervals that began before t.                      *)
UnitsBefore(i, column, t) ==
  {u \in rollups[i].bucket .. EndOf(i) - 1 :
     \E s \in spans : /\ ColumnOf(s.state) = column /\ s.start < t
                      /\ s.start <= u /\ u < s.end}

(* "a bucket is only written after the timeline has moved past its end, so *)
(* a row is never revised": what a bucket counts is exactly what lies in   *)
(* it of the intervals that had closed when it was written.  What it       *)
(* misses belongs to the one interval that was open then, and that had     *)
(* begun less than the cap before the bucket's end.                        *)
BucketsMissOnlyTheOpenInterval ==
  \A i \in RowsOfKind("machine") :
    LET cols == rollups[i].cols
        open == rollups[i].open
        began == {s \in spans : s.start < open}
    IN  /\ open + Cap > EndOf(i)
        /\ \A c \in Occupied : cols[c] = Cardinality(UnitsBefore(i, c, open))
        /\ cols["orders_started"] =
             Cardinality({s \in began : s.state = "AutoCycle" /\ InBucket(i, s.start)})

(* No hour or day between the first and the last is left out or begins     *)
(* anywhere but on its boundary; a bucket's machine row is repeated only   *)
(* for a tick that failed between its insert and its cursor, and the rows  *)
(* that have a key are never repeated.                                     *)
BucketsOnce ==
  /\ \A i \in RowsOfKind("machine") : rollups[i].bucket % Width(rollups[i].grain) = 0
  /\ \A g \in Grains :
       LET done == {rollups[i].bucket : i \in {j \in RowsOfKind("machine") : rollups[j].grain = g}}
       IN  \A b \in done : \A c \in done :
             \A x \in b .. c : x % Width(g) = 0 => x \in done
  /\ \A i, j \in DOMAIN rollups :
       /\ rollups[i].kind = rollups[j].kind /\ rollups[i].key = rollups[j].key
       /\ rollups[i].grain = rollups[j].grain /\ rollups[i].bucket = rollups[j].bucket
       => i = j \/ (rollups[i].kind = "machine" /\ failures > 0)

(* "turns each closed Maintenance span into one CIP run": behind the       *)
(* cursor every Maintenance span has its run, repeated only for a failed   *)
(* tick, and no marker that reaches the replica later changes whether the  *)
(* run had completed.                                                      *)
CIPRunsOnce ==
  /\ \A s \in spans : s.state = "Maintenance" =>
       LET runs == {i \in DOMAIN cips : cips[i].start = s.start /\ cips[i].end = s.end}
       IN  /\ Cardinality(runs) <= 1 + failures
           /\ s.end <= cursor["cip"] => runs # {}
           /\ \A i \in runs : cips[i].completed <=>
                \E f \in facts : f.key = CIPStep /\ s.start <= f.at /\ f.at < s.end
  /\ \A i \in DOMAIN cips : \E s \in spans :
       s.state = "Maintenance" /\ cips[i].start = s.start /\ cips[i].end = s.end

(* "lets hours re-aggregate into days": a day counts at least what its     *)
(* hours do, and no hour of it is written after it.  Of the rows of this   *)
(* table, whose event_ts is the end of their bucket, only a day's can be   *)
(* older than one before it: the two grains are guarded apart.             *)
DayCoversHours ==
  \A d \in RowsOfKind("machine") : rollups[d].grain = "day" =>
    LET hours == {h \in RowsOfKind("machine") :
                    rollups[h].grain = "hour" /\ InBucket(d, rollups[h].bucket)}
        buckets == {rollups[h].bucket : h \in hours}
        Most(b, c) == Max({rollups[h].cols[c] : h \in {x \in hours : rollups[x].bucket = b}})
    IN  /\ \A h \in hours : h < d
        /\ \A i \in DOMAIN rollups : \A j \in 1 .. i - 1 :
             EndOf(i) < EndOf(j) => rollups[i].grain = "day"
        /\ \A c \in Columns :
             rollups[d].cols[c] >= MapThenSumSet(LAMBDA b : Most(b, c), buckets)

(* "a drink spanning a boundary is counted once, in the bucket a person    *)
(* would look for it": a production cycle in the replica is counted by the *)
(* hour it started in, once that hour is written.                          *)
DrinksCountedInTheirHour ==
  \A i \in RowsOfKind("machine") :
    rollups[i].grain = "hour" /\ failures = 0 =>
      rollups[i].cols["orders_started"] = Cardinality(Started(rollups[i].bucket, EndOf(i)))
=============================================================================

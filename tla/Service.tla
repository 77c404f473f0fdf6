-------------------------------- MODULE Service --------------------------------
(***************************************************************************)
(* The life of the projector's process (run in main.go): its start, which  *)
(* migrates the replica statement by statement (writer.go) and reports the *)
(* time it was away, its ticks with their heartbeat (state.go), and the    *)
(* hourly Prune, against the edge agent that ships the same rows.  Each    *)
(* SQL statement commits by itself, and the process may die between any    *)
(* two of them; systemd starts it again.                                   *)
(*                                                                         *)
(* The unit of time is the polling interval.  The old tables hold one row  *)
(* each, and one added column stands for all of them.  Of the replica's    *)
(* other tables there are cycles, with rowids, and one child table.        *)
(***************************************************************************)
EXTENDS Integers, FiniteSets, FiniteSetsExt

CONSTANTS
  OldTables,   \* the rollup tables of an older replica
  KeyedTables, \* those of them whose rows have a dim_key
  Keys,        \* order ids
  Retention,   \* -retention
  PruneEvery,  \* an hour
  MaxTime,     \* bound: times are 1 .. MaxTime
  MaxRows,     \* bound: child rows written in all
  MaxFailures  \* bound: failures

ASSUME ServiceConstants ==
  /\ KeyedTables \subseteq OldTables
  /\ Retention \in Nat \ {0} /\ PruneEvery \in Nat
  /\ MaxTime \in Nat /\ MaxRows \in Nat /\ MaxFailures \in Nat

VARIABLES
  now,       \* the clock
  pc,        \* the statement the process executes next
  old,       \* old tables that still exist
  copies,    \* rows in rollups that came from each old table
  column,    \* an added column: absent, with its default, or filled
  started,   \* startedMS of the process
  lastAlive, \* last_alive_ms in projector_meta, 0 before the first
  gaps,      \* rows of gaps
  lastPrune, \* local of run
  cutoff,    \* olderThan of the last Prune, 0 before the first
  cycles,    \* rows of cycles
  children,  \* rows of its child tables
  cursor,    \* the agent's cursor into cycles
  shipped,   \* history: rows of cycles the agent has shipped
  lost,      \* history: times of rows of cycles dropped unshipped
  flushed,   \* history: number and last time of the rows written
  beats,     \* history: heartbeats saved, and the start of their process
  failures   \* history: what failed, by the statement cut off

startVars == <<old, copies, column>>
gapVars == <<started, lastAlive, gaps, beats>>
pruneVars == <<lastPrune, cutoff>>
rowVars == <<cycles, children, cursor, shipped, lost, flushed>>
vars == <<now, pc, startVars, gapVars, pruneVars, rowVars, failures>>

Times == 1 .. MaxTime
Places == {"drop", "fill", "unreported", "elsewhere"}
CycleRow == [id : Nat, key : Keys, ts : Nat]
ChildRow == [key : Keys, ts : Nat]

TypeOK ==
  /\ now \in Nat
  /\ pc \in {"off", "fold", "drop", "alter", "fill", "report", "run", "prune"}
  /\ old \subseteq OldTables /\ copies \in [OldTables -> Nat]
  /\ column \in {"absent", "default", "filled"}
  /\ started \in Nat /\ lastAlive \in Nat
  /\ gaps \subseteq [from : Nat, to : Nat]
  /\ lastPrune \in Nat /\ cutoff \in Int
  /\ cycles \subseteq CycleRow /\ children \subseteq ChildRow
  /\ cursor \in [ts : Nat, id : Nat]
  /\ shipped \subseteq cycles /\ lost \subseteq Nat
  /\ flushed \in [count : Nat, ts : Nat]
  /\ beats \subseteq [at : Nat, born : Nat]
  /\ failures \in [Places -> Nat]

Init ==
  /\ now = 1 /\ pc = "off"
  /\ old = OldTables
  /\ copies = [t \in OldTables |-> 0]
  /\ column = "absent"
  /\ started = 0 /\ lastAlive = 0 /\ gaps = {}
  /\ lastPrune = 0 /\ cutoff = 0
  /\ cycles = {} /\ children = {}
  /\ cursor = [ts |-> 0, id |-> 0] /\ shipped = {} /\ lost = {}
  /\ flushed = [count |-> 0, ts |-> 1]
  /\ beats = {} /\ failures = [place \in Places |-> 0]

-----------------------------------------------------------------------------
(* The start: openReplica, then run up to its ticker. *)

Fails(where) ==
  /\ MapThenSumSet(LAMBDA place : failures[place], Places) < MaxFailures
  /\ failures' = [failures EXCEPT ![where] = @ + 1]

Begin ==
  /\ pc = "off"
  /\ pc' = "fold"
  /\ UNCHANGED <<now, startVars, gapVars, pruneVars, rowVars, failures>>

(* Mutant: the copy of a keyed table is not INSERT OR IGNORE. *)
CopiedTwice(t) == copies[t] + 1

(* UNIQUE(grain, bucket_start_ms, dim_kind, dim_key) lets INSERT OR IGNORE *)
(* drop the second copy of a keyed row; a NULL dim_key never conflicts.    *)
Copied(t) == IF t \in KeyedTables /\ copies[t] > 0 THEN copies[t] ELSE copies[t] + 1

(* migrateRollups: each table that exists, in a fixed order. *)
NextOld == CHOOSE t \in old : TRUE
CopyTable ==
  /\ pc = "fold" /\ old # {}
  /\ copies' = [copies EXCEPT ![NextOld] = Copied(NextOld)]
  /\ pc' = "drop"
  /\ UNCHANGED <<now, old, column, gapVars, pruneVars, rowVars, failures>>

DropTable ==
  /\ pc = "drop"
  /\ old' = old \ {NextOld}
  /\ pc' = "fold"
  /\ UNCHANGED <<now, copies, column, gapVars, pruneVars, rowVars, failures>>

Folded ==
  /\ pc = "fold" /\ old = {}
  /\ pc' = IF column = "absent" THEN "alter" ELSE "report"
  /\ UNCHANGED <<now, startVars, gapVars, pruneVars, rowVars, failures>>

(* migrateReplica: a column that is there already is not filled again. *)
AddColumn ==
  /\ pc = "alter"
  /\ column' = "default"
  /\ pc' = "fill"
  /\ UNCHANGED <<now, old, copies, gapVars, pruneVars, rowVars, failures>>

Backfill ==
  /\ pc = "fill"
  /\ column' = "filled"
  /\ pc' = "report"
  /\ UNCHANGED <<now, old, copies, gapVars, pruneVars, rowVars, failures>>

Absent == lastAlive > 0 /\ now - lastAlive > 2

(* Mutant: the gap takes in the two intervals before the heartbeat. *)
ReportGapPadded(succeeds) ==
  /\ pc = "report"
  /\ started' = now /\ lastPrune' = now
  /\ gaps' = IF Absent /\ succeeds
             THEN gaps \cup {[from |-> lastAlive - 2, to |-> now]} ELSE gaps
  /\ IF succeeds THEN UNCHANGED failures ELSE Absent /\ Fails("unreported")
  /\ pc' = "run"
  /\ UNCHANGED <<now, startVars, lastAlive, beats, cutoff, rowVars>>

(* An error of RecordGap is only logged.  Gaps are never older than their  *)
(* predecessors, so their guard changes nothing.                           *)
ReportGap(succeeds) ==
  /\ pc = "report"
  /\ started' = now /\ lastPrune' = now
  /\ gaps' = IF Absent /\ succeeds THEN gaps \cup {[from |-> lastAlive, to |-> now]} ELSE gaps
  /\ IF succeeds THEN UNCHANGED failures ELSE Absent /\ Fails("unreported")
  /\ pc' = "run"
  /\ UNCHANGED <<now, startVars, lastAlive, beats, cutoff, rowVars>>

-----------------------------------------------------------------------------
(* The ticker's loop. *)

(* A tick flushes an interval of order k that ends at time e, with a child *)
(* row; the timeline is in order (the guard is in Replica).  A rowid is    *)
(* one more than the highest that is there.                                *)
HasCycle(k) == \E r \in cycles : r.key = k
NextId == Max({r.id : r \in cycles} \cup {0}) + 1
FlushInterval(k, e) ==
  /\ pc = "run" /\ flushed.count < MaxRows
  /\ flushed.ts <= e /\ e <= now
  /\ cycles' = IF HasCycle(k) THEN cycles
               ELSE cycles \cup {[id |-> NextId, key |-> k, ts |-> e]}
  /\ children' = children \cup {[key |-> k, ts |-> e]}
  /\ flushed' = [count |-> flushed.count + 1, ts |-> e]
  /\ UNCHANGED <<now, pc, startVars, gapVars, pruneVars, cursor, shipped, lost, failures>>

(* Mutant: the heartbeat is that of the start. *)
MarkAliveAtStart ==
  /\ pc = "run"
  /\ lastAlive' = started
  /\ beats' = beats \cup {[at |-> now, born |-> started]}
  /\ UNCHANGED <<now, pc, startVars, started, gaps, pruneVars, rowVars, failures>>

(* The end of a tick that succeeded.  One that fails, or whose heartbeat   *)
(* is not saved, changes nothing here.                                     *)
MarkAlive ==
  /\ pc = "run"
  /\ lastAlive' = now
  /\ beats' = beats \cup {[at |-> now, born |-> started]}
  /\ UNCHANGED <<now, pc, startVars, started, gaps, pruneVars, rowVars, failures>>

(* Prune, first part: the child tables. *)
PruneChildren ==
  /\ pc = "run" /\ now - lastPrune > PruneEvery
  /\ cutoff' = now - Retention
  /\ children' = {c \in children : c.ts >= now - Retention}
  /\ pc' = "prune"
  /\ UNCHANGED <<now, startVars, gapVars, lastPrune, cycles, cursor, shipped, lost, flushed, failures>>

Expired(r) == r.ts < cutoff

(* Mutant: foreign keys are not enforced, as in a connection without the   *)
(* pragma.                                                                 *)
HeldNever == FALSE

(* A child left over makes the DELETE of its expired cycle fail. *)
Held == \E r \in cycles, c \in children : Expired(r) /\ c.key = r.key

(* Prune, second part: one statement, for all expired rows or for none.    *)
(* Either way the next Prune is an hour away.                              *)
PruneCycles ==
  /\ pc = "prune"
  /\ cycles' = IF Held THEN cycles ELSE {r \in cycles : ~Expired(r)}
  /\ shipped' = shipped \cap cycles'
  /\ lost' = lost \cup {r.ts : r \in cycles \ (cycles' \cup shipped)}
  /\ lastPrune' = now
  /\ pc' = "run"
  /\ UNCHANGED <<now, startVars, gapVars, cutoff, children, cursor, flushed, failures>>

-----------------------------------------------------------------------------
(* The world around it. *)

(* The statements of a start or of a Prune take no time in this unit. *)
ClockTicks ==
  /\ pc \in {"off", "run"} /\ now < MaxTime
  /\ now' = now + 1
  /\ UNCHANGED <<pc, startVars, gapVars, pruneVars, rowVars, failures>>

(* The process dies; an error in its start ends it as well. *)
Crash ==
  /\ pc # "off" /\ Fails(IF pc \in Places THEN pc ELSE "elsewhere")
  /\ pc' = "off"
  /\ UNCHANGED <<now, startVars, gapVars, pruneVars, rowVars>>

(* The agent ships the row that follows its cursor: see EventLog. *)
Later(r, c) == r.ts > c.ts \/ (r.ts = c.ts /\ r.id > c.id)
Ship(r) ==
  /\ Later(r, cursor)
  /\ \A other \in cycles : Later(other, cursor) => ~Later(r, other)
  /\ cursor' = [ts |-> r.ts, id |-> r.id]
  /\ shipped' = shipped \cup {r}
  /\ UNCHANGED <<now, pc, startVars, gapVars, pruneVars, cycles, children, lost, flushed, failures>>

Start ==
  \/ Begin
  \/ CopyTable \/ DropTable \/ Folded
  \/ AddColumn \/ Backfill
  \/ \E succeeds \in BOOLEAN : ReportGap(succeeds)

Tick ==
  \/ \E k \in Keys, e \in Times : FlushInterval(k, e)
  \/ MarkAlive
  \/ PruneChildren \/ PruneCycles

Next ==
  \/ Start
  \/ Tick
  \/ ClockTicks
  \/ Crash
  \/ \E r \in cycles : Ship(r)

Spec == Init /\ [][Next]_vars

-----------------------------------------------------------------------------
(* Properties *)

(* "An existing replica is migrated by copying its rows across, not by     *)
(* dropping and re-deriving": wherever the start is cut off and however    *)
(* often it is repeated, every old row is in its table or in rollups; it   *)
(* is there once, except that a row without a dim_key may be there once    *)
(* more for each start cut off between its copy and the drop.  A start     *)
(* cut off between a new column and its values, and nothing else, leaves   *)
(* the default in it for good.                                             *)
MigrationKeepsHistory ==
  /\ \A t \in OldTables :
       /\ t \in old \/ copies[t] > 0
       /\ copies[t] <= IF t \in KeyedTables THEN 1 ELSE 1 + failures["drop"]
  /\ pc \in {"report", "run", "prune"} =>
       /\ old = {}
       /\ column = "filled" \/ failures["fill"] > 0

(* Missing data can be told from an idle machine: no gap covers a          *)
(* heartbeat, gaps overlap only when they begin at the same one, and a     *)
(* process that came to a heartbeat and had begun long after the last one  *)
(* before it reported the time between, unless RecordGap failed.  (A       *)
(* stretch of failed ticks within one life is never reported.)             *)
LastBefore(a, b) ==
  /\ a.born < b.born
  /\ \A c \in beats : c.born < b.born => c.at <= a.at
GapsAreAbsences ==
  /\ \A g \in gaps, b \in beats : ~(g.from < b.at /\ b.at < g.to)
  /\ \A g, h \in gaps : g.from = h.from \/ g.to <= h.from \/ h.to <= g.from
  /\ \A a, b \in beats :
       LastBefore(a, b) /\ b.born - a.at > 2 =>
         [from |-> a.at, to |-> b.born] \in gaps \/ failures["unreported"] > 0

(* "once the agent's cursor has passed a row it has been delivered": a row *)
(* of cycles is never shipped only if it is older than the retention       *)
(* window, although Prune asks no cursor, frees rowids that are given      *)
(* again, and may stop half-way.  A child is never without its cycle.      *)
OnlyExpiredRowsAreLost ==
  /\ \A ts \in lost : ts < cutoff
  /\ \A r \in cycles \ shipped : ~Later(r, cursor) => r.ts < cutoff
  /\ \A c \in children : HasCycle(c.key)
=============================================================================

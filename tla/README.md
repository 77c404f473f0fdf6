# Formal model of the canebot projector

The projector is a Go daemon (`src/cmd/projector`) beside a sugar-cane juice
machine. The machine's controller writes a raw SQLite database
(`project_data.db`: orders, FSM events, step runs, faults, sensor toggles,
actuator intervals). The projector polls it, derives a clean *replica* (cycles,
state durations, step dwells, faults, toggles, door episodes, config history,
rollups, gaps), and an edge agent, omega, polls the replica and ships each new
row to the cloud. The controller and omega are not in the repository.

This directory holds TLA+ modules of the projector, TLC configurations, and
proofs checked by TLAPS.

## 1. Inventory

| Part (source) | State | Operations | Correct when |
|---|---|---|---|
| **tracker** (`tracker.go`) | the open interval with its buffered child rows, the open state span, one open dwell per lane, the open door episode, recent ledger faults, the queue of closed intervals | `ApplyOrder`, `ApplyFSMEvent`, `ApplyFault`, `ApplyStepRun`, `ApplySensorToggle`, `ApplyConfigChange`, `FlushOpen`, `PendingIntervals` | machine time is partitioned, no row is lost or counted twice, outcomes have firmware evidence |
| **main loop** (`main.go`) | a ticker, the batches of one tick, `lastTimelineMS` | `tick`, `collect`, `drainConfig`, `drainActuators`, `flushIntervals`, `finalFlush` | every source row is applied once and in time order, through full batches, failures and stops |
| **replica writer** (`writer.go`) | the replica database | `FlushInterval`, `guard`, `WriteActuatorInterval`, `RecordGap`, `AttributeActuatorPulses`, `Prune`, `migrateReplica`, `migrateRollups` | `event_ts` never moves backwards in a table, parents before children, an order is one row |
| **state store** (`state.go`) | `source_cursors`, `emit_watermark` and its cache, config snapshot, heartbeat | `Cursor`, `SetCursor`, `Watermark`, `SetWatermark`, `ConfigSnapshot`, `MarkAlive` | what it remembers never runs ahead of what is done |
| **source reader** (`reader.go`) | none | batched reads by id, the actuator query, schema probes, `Config`, time parsing | no row is skipped for good |
| **derived tables** (`rollup.go`) | cursors per grain, rollup rows | `emitCIPRuns`, `emitHourly`, `emitDaily` | a bucket is written once, after all its rows, and its parts sum to the period |
| **gaps** (`main.go`, `state.go`) | heartbeat | `LastAlive`, `MarkAlive`, `RecordGap` | time not covered is reported once |
| **sensors** (`sensors.go`) | none | `encodeSensorBits`, `sensorValue` | a missing reading is not a zero |
| **schema, migrations** (`schema.go`, `writer.go`) | DDL | | an upgrade is repeatable |
| **omega** (external, `omega-config.yaml`) | a cursor (`event_ts`, rowid) per table | poll and ship | every row is shipped exactly once |

How they interact: `tick` calls `collect` (one read per source table, each in a
transaction of its own, while the controller goes on writing), merges and sorts
the rows, applies them to the tracker up to a safe point, drains config
changes, saves the cursors (`projector_state.db`), and only then flushes the
intervals the tracker closed, one transaction each (`replica.db`). Watermarks
follow each commit in the other database. omega reads the replica at any time.
The process runs as a systemd service with `Restart=always`
(`linux/install-services.sh`).

What is hard: rows of several tables that must be applied in time order although
each table is read in its own bounded batch; splits of intervals by orders,
states, faults, completions and the 15-minute cap at equal timestamps; failures
and crashes between saving cursors, committing rows and saving watermarks; and a
shipping cursor that loses, silently and for good, any row whose `event_ts` is
older than one shipped. `PROJECT.json` lists each hazard at its line with the
properties that cover it.

## 2. Modules

| Module | Models | Notes |
|---|---|---|
| `TrackerOps` | the tracker as a value; every method is an operator from tracker and row to tracker | a handler that calls others is their composition, so it stays one atomic step |
| `Tracker` | one process life of the tracker: rows arrive, config changes, the queue is taken, shutdown | `fed` and `out` are history variables: what was fed and what the writer got |
| `MCTracker` | source-row shapes for TLC | |
| `EventLog` | what one replicated table promises omega | abstract specification |
| `Replica` | `FlushInterval`, the guard, watermarks in cache and database, crashes, omega | implements `EventLog` twice, for a guarded and an unguarded table: checked by TLC and proved |
| `Projector` | the main loop: batches, safe point, cursors, failed ticks, crash, SIGTERM, restart | the tracker is reduced to the rows it holds |
| `Actuators` | the controller's actuator rows, `ClosedActuatorIntervalsAfter`, `drainActuators`, `AttributeActuatorPulses` | the flush before the drain is one action that brings a cycle and its dwells |
| `Rollups` | `emitDerived`: CIP runs, hours, days, each insert and cursor a step of its own | the flush before it brings a span, a cycle, a fault or a CIP marker |
| `Service` | the process from start to death: `migrateReplica`, `migrateRollups`, the gap report, `MarkAlive`, `Prune`, beside omega | statement by statement |
| `TrackerProofs`, `EventLogProofs`, `ReplicaProofs`, `ProjectorProofs`, `ActuatorsProofs`, `RollupsProofs`, `ServiceProofs` | the theorems of the module each is named after | section 4 |
| `Numbers` | lemmas the proofs share: least and greatest numbers, multiples, sums over finite sets | nothing of the projector |

Correspondence. In `Tracker`, `trk` is the Go `*tracker`; `OrderArrives`,
`EventArrives`, ... are one iteration each of the loop of `tick`; `Arrives` is the
order in which the merge delivers rows. A timestamp tie is left unordered, since
two rows of one timestamp may become visible in two ticks. `Take` is
`PendingIntervals` and the loop of `flushIntervals`, `Shutdown` is `finalFlush`.
Buffers of an interval are one sequence of rows tagged with their table. A row
keeps its start, its time (which becomes `event_ts`), the source row it copies,
its state or type, its lane and its sequence number. Counters, free text, sensor
and actuator blobs are left out: no property and no branch depends on them.

In `Replica`, `cycles` stands for the guarded parent and `step_dwells` for the
six child tables, which `FlushInterval` writes alike: with their own time, after
the parent, and with a watermark nobody reads.
An interval carries at most one dwell. `HandOver` is any interval the tracker may
hand over; with `MaxBack = 0` its rows are not older than those before, which is
what `Tracker`'s `EventTsOrdered` and `IntervalsDisjoint` establish.

In `Projector`, `orders`, `sensor_input_toggles` and `fsm_step_runs` stand for the
five tables: the first read, one read in the middle, and the one that is read last
but applied before toggles of the same time. Its `LateOnlyAfterLaterTable` is
what `Tracker`'s `Arrives` takes for granted with `MaxLate > 0`; `MaxLate = 0` is
the case in which no row is written between two reads of one tick. `batch`,
`full` and `applied` are locals of `tick` and are reset with it.

In `Actuators`, a time is a millisecond. The reader's LIMIT is `OverFetch` batches,
4 in the code. `BeginDrain` is the query with its filter, sort and cut; `PassOver`,
`AwaitParent`, `SkipEmpty` and `WritePulse` are the exits of one turn of the loop, in
the order of its tests; `EndDrain` is `SetCursor`. The stored `duration_ms` of a pulse is
taken to be its end less its start. Rows of one millisecond come in any order, since
the fraction they are sorted by is not kept.

In `Rollups`, `Hour`, `Day` and `Cap` are numbers of a common unit with `Cap` no longer
than `Hour`. `openAt` and `latest` stand for the tracker: an interval that has received
a row at `latest` began less than `Cap` before it. `BeginDerived` is the query of
`emitCIPRuns`; from there each insert and each `SetCursor` is a step, and `TickFails` and
`Crash` may come between any two. A fact is a row with a time that some query counts.

In `Service`, the unit of time is the polling interval. `pc` names the SQL statement that
comes next, so that `Crash` cuts a start or a `Prune` off between any two of them.
`copies` counts the rows in `rollups` that stem from an old table's row. Ticks are
reduced to what they write and to their heartbeat: a failed tick is time that passes.
`Service`, `Rollups` and `Actuators` take the timeline to be in order; what the guard
does when it is not is `Replica`.

Operators and definitions marked "Mutant" are bugs a change could bring in: each
property has one that breaks it, which shows the run can see the bug. No
specification uses them.

## 3. Runs

Passing (all states, two workers):

| Run | Shows | States |
|---|---|---|
| `tracker` | disjoint intervals, rows inside their interval, no occupancy counted twice, child `event_ts` in order, outcomes with evidence, nothing lost strictly inside an interval, the cap, door resets | 1.7 M |
| `tracker_steps` | on a controller with step runs, and with rows that arrive late: types, outcomes with evidence, dwell numbering | 1.4 M |
| `EventLog` | the promise to omega: everything ships, in order | 266 |
| `replica` | both tables implement `EventLog` through two failures of any kind | 69 k |
| `replica_back` | the guarded table on a timeline that moves backwards; conflict clause, recipe fill, parent rows | 261 k |
| `projector` | order, completeness and progress of the main loop with one failure and rows whose time is rejected | 509 k |
| `actuators` | pulses are written once and where they belong, through failures, late ends and missing cycles; what holds one up is one of four named reasons | 1.2 M |
| `rollups` | no bucket is skipped or doubled but by a failure, what a bucket misses is the interval open when it was written, CIP runs, days against hours | 1.3 M |
| `service` | migrations keep history wherever they are cut off, absence is reported and nothing else is, only expired rows escape omega | 5.1 M |

Violations, each an assertion of a comment or of `db-overview.md` that the code
does not keep (`PROJECT.json`, findings):

| Run | What it shows |
|---|---|
| `config_mid_drink` | a config change during a drink makes it `aborted`, and the later completion is not written |
| `actuators_starve` | after `BatchSize * OverFetch` closed pulses the reader returns only those, for ever (8000 with the installed `-batch 2000`) |
| `drink_missed` | a drink open across the end of its hour is in no hour |

Further disagreements between documents and code, found on the way. The properties
of the passing runs are stated around them:

* `tracker.go:292`: a fault at the instant of a cap split opens and closes an interval
  of no length, which is dropped with the fault; `db-overview.md:291` says each fault is
  emitted exactly once. `NothingLostInside` therefore speaks of times strictly inside.
* `tracker.go:703`: a step run that began before the fault which closed its order's
  interval opens one in the past, overlapping it; `tracker.go:18` says intervals
  partition machine time. `IntervalsDisjoint` is not checked in `tracker_steps`; added
  to it, it fails.
* `main.go:368`: a row written between two reads of a tick is applied after a younger
  one, and its unguarded child row carries an older `event_ts` (`schema.go:394` says the
  writer refuses that). `EventTsOrdered` added to `tracker` with `MaxLate = 2` fails.
* `main.go:326`: cursors are saved before the rows are flushed and the open interval is
  in memory only, so a crash loses rows; `schema.go:385` says a restart resumes.
  `StopLosesNothing` without `failures = 0` fails in `projector`.
* `reader.go:166`: a batch of nothing but rejected timestamps moves no cursor and stalls
  its table for ever (`Stalled` in `Projector`), and one rejected row makes a full batch
  look short, which disables the safe point: `LateOnlyAfterLaterTable` fails with
  `BadRows = TRUE` and `BatchSize = 2`.
* `main.go:356`: "the stretch is honestly reported as a gap" holds only if the process
  restarts; a stretch of failed ticks that recovers is never reported.
* `writer.go:383`: a start cut off between the copy of an old rollup table and its drop
  doubles the machine rows, whose `dim_key` is NULL; one cut off between `ALTER TABLE`
  and the backfill leaves the default for good, which the comment at `writer.go:267`
  calls worse than not having the column.
* `rollup.go:450`: a day's row is inserted behind younger hour rows when the timeline
  crosses midnight by more than an hour at once; omega misses it if it polls in between.
* `writer.go:841`: the comment says a pruned row has been delivered; `Prune` asks no
  cursor. On a backlog older than `-retention` it also removes cycles whose pulses
  `drainActuators` has yet to read, and then waits for for ever.

Bounds. `MaxItems = 4` rows at times 0 to 3 with a cap of 2 suffice to open,
split, reopen and close an interval on both sides of a boundary, to lay two
intervals and the open one side by side, and to put a row on every kind of
boundary, at the start, at the end and at the cap; a door episode needs three
toggles. Times are relative in every handler, so `tracker` follows only behaviours whose
first row comes at time 0 (`StartsAtZero`). `Replica` with two keys and three intervals reaches a reopened order with
another between; two failures reach a crash after a lost watermark write.
`Projector` with batches of one row makes every batch full; three rows fill
batches of all three tables or two batches of one; one failure is enough for
every failure point, and `AppliedOnceUnlessFailed` counts them. Its batches of one
make every rejected row a whole batch.
`Actuators` with three pulses, batches of two and an over-fetch of two has batches
that are cut, ties at the cut, pulses of two orders and of none, and two intervals
with two lanes; that the reader's window closes needs the bounds of `actuators_starve`.
`Rollups` has days of two hours, a cap of one hour's length, and a timeline from the
first hour of a day to the first of the next: an interval across an hour or midnight,
hours caught up in one tick, and one failure anywhere.
`Service` has two old tables, one of each kind, time for a report, a second crash and
a longer report, and two rows: a reopened order whose child outlives its cycle, or an
emptied table whose rowid is given again; the two failures reach a start cut off twice.
Violations need less. Deadlock is not checked: the bounded environment stops writing, and the
tracker stops at shutdown.

Fairness. Liveness is claimed in `EventLog` and `Replica` for omega, which polls
for ever (weak fairness of shipping from each table), and in `Projector` for the
tick (weak fairness of beginning a tick and of its steps: the ticker fires every
five seconds and the process is restarted), and likewise in `Actuators` for the drain.
A pulse may wait for ever there, so its liveness names what it waits for. Nothing is assumed of the controller,
of failures or of SIGTERM.

## 4. Theorems

All are checked by TLAPS, from named assumptions on constants only, for every set of
row shapes, every size of batch, every cap and every number of failures. The
assumptions are the types of the constants and what the code fixes about them
(`TrackerConstants`, `SourceShapes`, `EventLogBounds`, `ReplicaBounds`, `ProjectorBounds`,
`ActuatorConstants`, `RollupConstants`, `ServiceConstants`, and `StepIsNoFault` of `Rollups`:
the CIP step's name is not a fault's). TLC evaluates every one of them.

| Theorem | States | For |
|---|---|---|
| `TrackerProofs!TypeCorrect` | `TypeOK`; a handler that read a field of a missing interval would leave it | step runs and late rows included |
| `TrackerProofs!DwellsNumbered`, `ResultsEarned`, `ResetsCounted` | `SeqIndexIncreasing`, `OutcomeHasEvidence`, `DoorResetsExact` | step runs and late rows included |
| `TrackerProofs!Partition`, `CapHolds` | `IntervalsDisjoint`, `OpenBounded` | `TimelineInOrder` |
| `TrackerProofs!ChildrenInside`, `ChildrenInOrder`, `OccupancyCountedOnce`, `NothingLost` | `RowsInside`, `EventTsOrdered`, `OccupancyDisjoint`, `NothingLostInside` | `TimelineInOrder` |
| `EventLogProofs!PrefixShipped` | `ShippedIsPrefix` | |
| `ReplicaProofs!TypeCorrect`, `MarksAlwaysCover`, `ParentsExist`, `OnlyFilled` | `TypeOK`, `MarksCover`, `DwellsHaveParent`, `RowsOnlyFilled` | times in any order |
| `ReplicaProofs!CyclesImplement` | the guarded table implements `EventLog` | `MaxBack = 0`, or `MaxFailures = 0` |
| `ReplicaProofs!DwellsImplement`, `RowsShipInOrder` | a child table implements `EventLog`; so each table is shipped whole and in order | `MaxBack = 0` |
| `ProjectorProofs!TypeCorrect`, `NoRowSkipped`, `AppliedOnce`, `NothingLostByStop` | `TypeOK`, `CursorPassesAppliedRows`, `AppliedOnceUnlessFailed`, `StopLosesNothing` | |
| `ProjectorProofs!LateRows` | `LateOnlyAfterLaterTable` | `BatchSize = 1`, or no rejected rows |
| `ActuatorsProofs!TypeCorrect`, `LinksAreFinal`, `PulsesWritten` | `TypeOK`, `AttributionOrderFree`, `PulsesExactlyOnce` | |
| `RollupsProofs!TypeCorrect`, `BucketsWrittenOnce`, `RunsWritten`, `CountsAreFinal`, `DaysCover` | `TypeOK`, `BucketsOnce`, `CIPRunsOnce`, `BucketsMissOnlyTheOpenInterval`, `DayCoversHours` | |
| `ServiceProofs!TypeCorrect`, `HistoryKept`, `GapsTrue`, `OnlyExpiredLost` | `TypeOK`, `MigrationKeepsHistory`, `GapsAreAbsences`, `OnlyExpiredRowsAreLost` | |

A condition in the last column is one the property needs; section 3 says what the code
does without it. `TimelineInOrder` is: no step runs and `MaxLate = 0`.

**Tracker.** `IntervalsDisjoint` is not inductive: it says nothing
of intervals that will close later, and time alone does not order them. The
invariant `Inv` adds that `latest` is the time of a fed row and no fed row is
younger, that every emitted interval ends by then (`Chron`), and that the open one
began by then and is younger than the cap (`Young`). Each method has a lemma
(`...Settled`) that says: called at a time not before `latest`, it keeps `Chron`
and `Young` and only appends intervals that end at that time. The handlers are
compositions of the methods, so their lemmas compose too. Taking the queue needs
that sorting by end time permutes the queue (`SortByEndType`, by a pigeonhole
argument on ranks) and leaves a queue already in order as it is
(`SortByEndSorted`).

The properties of an interval's rows have an invariant each, which every method keeps whatever
it is called with, so that the handlers' lemmas again only compose:

- `Numbered`: a lane's counter is beyond every number in the open interval, and the lane's
  open dwell holds the last one, not yet written. A dwell that outlives its interval
  would break it; `CloseInterval` leaves none (`EmptiedShape`).
- `Timely`: every row is stamped with the moment it was added, the rows of an interval stand
  in time order, an open dwell began no earlier than its lane's last row ended, and an open
  span no earlier than any span was closed. The span may have been entered at the very
  end of the interval before, which is why the invariant speaks of all emitted intervals at once.
- `Outcomes`: an open production interval is still "aborted" and has no fault row, since the
  first one closes it; what closes it supplies the evidence (`Backed`).
- `DoorKnown`: the open episode is the one since the last opening edge and its counter is
  the number of resets since (`Episode`). Only a toggle moves it.
- `Copied`: a row whose time lies inside an interval is among its rows. A handler's own
  row goes to the interval it leaves open, intervals closed by then end no later than the
  row, and the next one opens no earlier than any row so far.

Closing dwells and spans adds rows of those two tables and no other (`Calm`): this is
what separates the last three from the first two.

**EventLog and Replica.** `LogInv` adds to `ShippedIsPrefix` that the cursor is the time
and rowid of the last row shipped and that the log is sorted. For the refinement, what must
be shown of each step of `Replica` is that it appends one row to the
mapped table, not older than any in it, or ships the next one, or leaves it alone (`LogStep`).
That the new row is not older is the content: with the timeline in order it
follows from `InOrder` (no row, watermark or outstanding call is later than what is queued);
without failures from `MarksInv` (a row the cached watermark does not cover has an outstanding call
that will). `RowsShipInOrder` then instantiates `PrefixShipped` with the
mapping.

**Projector.** `PassedInv`: the rows behind a cursor, and behind what the tick is to save as
the next cursor, have been applied; a batch leaves out no id below its last, and the rows
applied are those of the merge up to the safe point, which ids follow as times do.
`CountInv` counts a row's places in `history`: one for each failure, and one
more once a cursor or `applied` has passed it. `HeldInv`: without a failure whatever was applied
is in the replica or in the tracker. `OrderInv` has the parts `ParseInv` (no rejected row
before what was read), `UnreadInv` (a row not in the batch of its table is beyond a full
batch, or not older than anything read up to that table) and `WaitInv` (a row that waits
is older than one applied only if its table is read earlier).

**Actuators.** `LinksInv`: a link is to the first of all the dwells that cover the pulse, and
dwells written later begin where the flush ended (`DwellsBehind`). `DrainInv` puts the rows
still to visit beyond the cursor and the high-water mark, `CopiesInv` counts a pulse's copies as
`CountInv` does, and `WaitsInv` says that a pulse the reader sees and has not
written lies beyond cursor and mark.

**Rollups.** `CursorInv`: a cursor is at a bucket that was written, the next one is there when
the cursor is about to be saved, and every row is at its place (`InPlace`). `RunsInv` has
one part per Maintenance span: it has a run once the cursor has passed it, and as many
more as there were failures at most. `RowsInv` says what each machine row counts, and that the
interval open when it was written began less than the cap before the bucket's end. The code
adds up overlaps; that the sum is the number of time units its closed
intervals cover is `Numbers!SumOfSizes`, the intervals being disjoint. `DaysInv` adds up a day's hours the
same way: the sizes of disjoint parts together do not exceed that of the whole.

**Service.** `CopiesInv` counts a table's copies as the starts cut off before its drop, and
one more once it is copied; `StartInv` ties each statement of a start to what those before it
did. `BeatsInv` and `LifeReported` say that a life of the process which followed an
absence reported it at its start. `CyclesInv` says that the agent's cursor is at a row that
is there, or older than a cutoff already passed.

Induction over numbers goes by the least counterexample (`Numbers!LeastNumber`), and sums
over finite sets by the same on their size, since induction theorems that take an operator
are beyond the installed provers.

Every invariant of a passing run is proved. Only model-checked: all liveness, since fairness
and ENABLED are outside the prover's reach. The tracker's theorems under `TimelineInOrder`
claim nothing for step runs or late rows, and no run checks those properties there: section 3
says how such rows break the partition, which the others rest on, and the order of `event_ts`.

## 5. Not modelled

Sensor decoding (`sensors.go`), a pure conversion that no other part branches on;
`-once`; the config snapshot's own table; actuator rows with rejected timestamps; the
effect of `Prune` on the aggregates of `rollup.go` and on the drain. SQL is modelled by its effect on
rows; a transaction is atomic, and a statement outside one commits by itself.
Millisecond truncation of timestamps is part of the unit of time. The schema probes
become the constants `UseStepRuns` and `StepRunFaults`. A step run in `Tracker` ends
before the next of its lane begins, which is how the firmware records them. Clocks do
not step backwards in `Service`.

## 6. Plan

1. A composition of `Tracker` with `Projector`, so that the restart finds the
   tracker's own state.
2. `Prune` in `Actuators` and `Rollups`.
3. Which of the theorems under `TimelineInOrder` survive step runs, and with what condition.

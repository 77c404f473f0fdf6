------------------------------ MODULE Actuators ------------------------------
(***************************************************************************)
(* Actuator pulses: the one table of the source whose rows change.  The    *)
(* controller inserts a row when an output turns on and fills in its end   *)
(* when it turns off.  The projector reads closed rows by end time         *)
(* (reader.go), writes each to the replica once its cycle is there         *)
(* (main.go), and afterwards links it to the step dwell it began in        *)
(* (writer.go).                                                            *)
(*                                                                         *)
(* Times are milliseconds.  The reader sorts by the full timestamp, whose  *)
(* fraction is not modelled: rows of one millisecond come in any order.    *)
(***************************************************************************)
EXTENDS Integers, Sequences, FiniteSets

CONSTANTS
  Keys,         \* order keys
  NoKey,        \* the key of a pulse outside any order
  PulseKeys,    \* keys the controller's pulses carry
  FlushedKeys,  \* keys that get a cycle; an interval of no length gives none
  BatchSize,    \* -batch
  OverFetch,    \* the reader's LIMIT is this many batches; 4 in the code
  MaxTime,      \* bound: times are 1 .. MaxTime
  MaxRows,      \* bound: pulses
  MaxIntervals, \* bound: intervals flushed
  MaxFailures   \* bound: failed ticks and crashes

ASSUME ActuatorConstants ==
  /\ NoKey \notin Keys /\ PulseKeys \subseteq Keys \cup {NoKey}
  /\ FlushedKeys \subseteq Keys
  /\ BatchSize \in Nat \ {0} /\ OverFetch \in Nat \ {0}
  /\ MaxTime \in Nat /\ MaxRows \in Nat
  /\ MaxIntervals \in Nat /\ MaxFailures \in Nat

VARIABLES
  now,      \* the controller's clock
  src,      \* actuator_output_intervals, by id
  cycles,   \* keys with a row in cycles
  dwells,   \* step_dwells
  flushed,  \* history: end and number of the intervals flushed
  pc,       \* where the tick is
  todo,     \* rows read that the loop of drainActuators has still to visit
  high,     \* local of drainActuators
  cursor,   \* the saved cursor, an end time
  pulses,   \* actuator_intervals, by rowid
  failures  \* history: failures so far

sourceVars == <<now, src>>
parentVars == <<cycles, dwells, flushed>>
drainVars == <<pc, todo, high>>
vars == <<sourceVars, parentVars, drainVars, cursor, pulses, failures>>

Times == 1 .. MaxTime
Open == 0      \* ended_ts_utc of a pulse that is still on
NoSeq == -1    \* seq_index IS NULL

PulseRow == [key : Keys \cup {NoKey}, start : Nat, end : Nat]
DwellRow == [key : Keys, seq : Nat, start : Nat, end : Nat]
WrittenRow == [src : Nat, seq : Nat \cup {NoSeq}]

TypeOK ==
  /\ now \in Nat
  /\ src \in Seq(PulseRow)
  /\ cycles \subseteq Keys
  /\ dwells \subseteq DwellRow
  /\ flushed \in [end : Nat, count : Nat]
  /\ pc \in {"idle", "draining", "attributing"}
  /\ todo \subseteq DOMAIN src
  /\ high \in Nat /\ cursor \in Nat
  /\ pulses \in Seq(WrittenRow)
  /\ failures \in Nat

Init ==
  /\ now = 1
  /\ src = <<>>
  /\ cycles = {} /\ dwells = {}
  /\ flushed = [end |-> 1, count |-> 0]
  /\ pc = "idle" /\ todo = {} /\ high = 0
  /\ cursor = 0
  /\ pulses = <<>>
  /\ failures = 0

-----------------------------------------------------------------------------
(* The controller. *)

TurnsOn(k) ==
  /\ Len(src) < MaxRows
  /\ src' = Append(src, [key |-> k, start |-> now, end |-> Open])
  /\ UNCHANGED <<now, parentVars, drainVars, cursor, pulses, failures>>

TurnsOff(i) ==
  /\ src[i].end = Open
  /\ src' = [src EXCEPT ![i].end = now]
  /\ UNCHANGED <<now, parentVars, drainVars, cursor, pulses, failures>>

ClockTicks ==
  /\ now < MaxTime
  /\ now' = now + 1
  /\ UNCHANGED <<src, parentVars, drainVars, cursor, pulses, failures>>

-----------------------------------------------------------------------------
(* The flush that precedes the drain in a tick writes an interval of order *)
(* k over [s, e), in one transaction: its cycles row, unless it has one,   *)
(* and its dwells.  The main lane changes step at m; a second lane may     *)
(* have one dwell, from x on.  seq_index starts again in each lane of each *)
(* interval.                                                               *)
MainDwells(k, s, m, e) ==
  {[key |-> k, seq |-> 0, start |-> s, end |-> m]}
    \cup IF m < e THEN {[key |-> k, seq |-> 1, start |-> m, end |-> e]} ELSE {}
LaneDwells(k, x, e) ==
  IF x < e THEN {[key |-> k, seq |-> 0, start |-> x, end |-> e]} ELSE {}

FlushInterval(k, s, m, x, e) ==
  /\ pc = "idle"
  /\ flushed.count < MaxIntervals
  /\ flushed.end <= s /\ s < m /\ m <= e /\ x \in {s, e} /\ e <= now
  /\ cycles' = cycles \cup {k}
  /\ dwells' = dwells \cup MainDwells(k, s, m, e) \cup LaneDwells(k, x, e)
  /\ flushed' = [end |-> e, count |-> flushed.count + 1]
  /\ UNCHANGED <<sourceVars, drainVars, cursor, pulses, failures>>

-----------------------------------------------------------------------------
(* The reader. *)

Closed == {i \in DOMAIN src : src[i].end # Open}

(* WHERE ended_ts_utc IS NOT NULL ORDER BY id LIMIT batchSize*4 *)
Window == {i \in Closed : Cardinality({j \in Closed : j < i}) < OverFetch * BatchSize}

Fresh == {i \in Window : src[i].end > cursor}

(* sortActuatorsByEnd, cut to a batch *)
IsBatch(rows) ==
  /\ rows \subseteq Fresh
  /\ Cardinality(rows) <= BatchSize
  /\ rows # Fresh => Cardinality(rows) = BatchSize
  /\ \A i \in rows, j \in Fresh \ rows : src[i].end <= src[j].end

-----------------------------------------------------------------------------
(* drainActuators and what follows it in the tick. *)

(* Mutant: nothing handled is another mark than the old cursor. *)
BeginDrainUnset ==
  /\ pc = "idle"
  /\ \E rows \in SUBSET DOMAIN src : IsBatch(rows) /\ todo' = rows
  /\ high' = -1
  /\ pc' = "draining"
  /\ UNCHANGED <<sourceVars, parentVars, cursor, pulses, failures>>

BeginDrain ==
  /\ pc = "idle"
  /\ \E rows \in SUBSET DOMAIN src : IsBatch(rows) /\ todo' = rows
  /\ high' = cursor
  /\ pc' = "draining"
  /\ UNCHANGED <<sourceVars, parentVars, cursor, pulses, failures>>

IsNext(i) ==
  /\ pc = "draining" /\ i \in todo
  /\ \A j \in todo : src[i].end <= src[j].end

(* A pulse outside any order has no parent and is not written. *)
PassOver(i) ==
  /\ IsNext(i) /\ src[i].key = NoKey
  /\ todo' = todo \ {i}
  /\ UNCHANGED <<sourceVars, parentVars, pc, high, cursor, pulses, failures>>

(* Mutant: a pulse whose cycle is missing is passed over like the others. *)
AwaitParentNot(i) ==
  /\ IsNext(i) /\ src[i].key \in Keys \ cycles
  /\ todo' = todo \ {i}
  /\ UNCHANGED <<sourceVars, parentVars, pc, high, cursor, pulses, failures>>

(* Its cycle is not written yet: the loop ends before it. *)
AwaitParent(i) ==
  /\ IsNext(i) /\ src[i].key \in Keys \ cycles
  /\ todo' = {}
  /\ UNCHANGED <<sourceVars, parentVars, pc, high, cursor, pulses, failures>>

(* No positive duration: skipped for good. *)
SkipEmpty(i) ==
  /\ IsNext(i) /\ src[i].key \in cycles /\ src[i].start >= src[i].end
  /\ todo' = todo \ {i}
  /\ high' = src[i].end
  /\ UNCHANGED <<sourceVars, parentVars, pc, cursor, pulses, failures>>

(* WriteActuatorInterval: one insert, which commits by itself.  Its guard  *)
(* and watermark are those of cycles in module Replica.                    *)
WritePulse(i) ==
  /\ IsNext(i) /\ src[i].key \in cycles /\ src[i].start < src[i].end
  /\ pulses' = Append(pulses, [src |-> i, seq |-> NoSeq])
  /\ todo' = todo \ {i}
  /\ high' = src[i].end
  /\ UNCHANGED <<sourceVars, parentVars, pc, cursor, failures>>

(* Mutant: the cursor is left where it was. *)
EndDrainForgets ==
  /\ pc = "draining" /\ todo = {}
  /\ high' = 0
  /\ pc' = "attributing"
  /\ UNCHANGED <<sourceVars, parentVars, todo, cursor, pulses, failures>>

(* The end of the loop: the cursor moves to the last end handled. *)
EndDrain ==
  /\ pc = "draining" /\ todo = {}
  /\ cursor' = high
  /\ high' = 0
  /\ pc' = "attributing"
  /\ UNCHANGED <<sourceVars, parentVars, todo, pulses, failures>>

Covering(i) ==
  {d \in dwells : d.key = src[i].key /\ d.start <= src[i].start /\ src[i].start < d.end}

(* Mutant: LIMIT 1 without the order. *)
FirstCoveringAny(i, d) == d \in Covering(i)

(* ORDER BY started_at_ms LIMIT 1; two lanes may begin a dwell together. *)
FirstCovering(i, d) ==
  d \in Covering(i) /\ \A other \in Covering(i) : d.start <= other.start

(* One statement: every NULL seq_index is filled if a dwell covers the     *)
(* pulse's start; no other changes.                                        *)
AttributeActuatorPulses ==
  /\ pc = "attributing"
  /\ \E choice \in [DOMAIN pulses -> {d.seq : d \in dwells} \cup {NoSeq}] :
       /\ \A p \in DOMAIN pulses :
            LET i == pulses[p].src
            IN  IF pulses[p].seq # NoSeq THEN choice[p] = pulses[p].seq
                ELSE IF Covering(i) = {} THEN choice[p] = NoSeq
                ELSE \E d \in dwells : FirstCovering(i, d) /\ choice[p] = d.seq
       /\ pulses' = [p \in DOMAIN pulses |-> [pulses[p] EXCEPT !.seq = choice[p]]]
  /\ pc' = "idle"
  /\ UNCHANGED <<sourceVars, parentVars, todo, high, cursor, failures>>

-----------------------------------------------------------------------------
(* An error returned by a query, an insert, SetCursor or the attribution   *)
(* ends the tick; so does the death of the process, which is restarted.    *)
Fails ==
  /\ pc # "idle" /\ failures < MaxFailures
  /\ pc' = "idle" /\ todo' = {} /\ high' = 0
  /\ failures' = failures + 1
  /\ UNCHANGED <<sourceVars, parentVars, cursor, pulses>>

Controller ==
  \/ \E k \in PulseKeys : TurnsOn(k)
  \/ \E i \in DOMAIN src : TurnsOff(i)
  \/ ClockTicks

DrainRow(i) ==
  PassOver(i) \/ AwaitParent(i) \/ SkipEmpty(i) \/ WritePulse(i)

Drain ==
  \/ BeginDrain
  \/ \E i \in todo : DrainRow(i)
  \/ EndDrain
  \/ AttributeActuatorPulses

Next ==
  \/ Controller
  \/ \E k \in FlushedKeys, s, m, x, e \in Times : FlushInterval(k, s, m, x, e)
  \/ Drain
  \/ Fails

(* The ticker fires every few seconds, and the process is restarted. *)
Fairness == WF_vars(Drain)

Spec == Init /\ [][Next]_vars
FairSpec == Spec /\ Fairness

-----------------------------------------------------------------------------
(* Properties *)

Copies(i) == {p \in DOMAIN pulses : pulses[p].src = i}

(* A pulse that is to be written: closed, of an order, of some length. *)
Due(i) == i \in Closed /\ src[i].key \in Keys /\ src[i].start < src[i].end

(* Two pulses ended in one millisecond, which the cursor cannot tell apart. *)
Tied(i) == \E j \in Closed \ {i} : src[j].end = src[i].end

(* "leave the watermark behind it so this row is retried on a later tick   *)
(* rather than lost": the cursor passes a due pulse only once it is        *)
(* written, unless it is tied or beyond what the reader looks at; and a    *)
(* pulse is written once more only for a failure between its insert and    *)
(* the cursor.                                                             *)
PulsesExactlyOnce ==
  /\ \A i \in DOMAIN src : Cardinality(Copies(i)) <= 1 + failures
  /\ \A i \in DOMAIN src :
       Due(i) /\ src[i].end <= cursor => Copies(i) # {} \/ Tied(i) \/ i \notin Window

(* "regardless of which arrived first": the dwell a pulse is linked to is  *)
(* the first of its order that covers its start among all dwells written   *)
(* by now, so no dwell written after the link would have changed it.       *)
AttributionOrderFree ==
  \A p \in DOMAIN pulses :
    pulses[p].seq # NoSeq =>
      LET covering == Covering(pulses[p].src)
      IN  \E d \in covering : /\ d.seq = pulses[p].seq
                              /\ \A other \in covering : d.start <= other.start

(* What holds a due pulse up: its own cycle or that of one before it is    *)
(* missing, a batch of pulses outside any order is before it, or it is     *)
(* out of the reader's sight for good.                                     *)
Before(i) == {j \in Fresh : src[j].end <= src[i].end}
Blocked(i) ==
  \/ i \notin Fresh
  \/ \E j \in Before(i) : src[j].key \in Keys \ cycles
  \/ Cardinality({j \in Before(i) : src[j].key = NoKey}) >= BatchSize

(* Nothing else does: through failed ticks and crashes the projector       *)
(* reaches, again and again, a point at which every due pulse is written   *)
(* or held up for one of these reasons.                                    *)
PulsesWrittenOrBlocked ==
  []<>(\A i \in DOMAIN src : Due(i) => Copies(i) # {} \/ Blocked(i))

(* "1:1 with actuator_output_intervals, but only rows that have closed": a *)
(* closed pulse of an order in cycles is mirrored, at least if no other    *)
(* ended in its millisecond.                                               *)
ClosedPulsesAreMirrored ==
  \A i \in 1 .. MaxRows :
    (/\ i \in DOMAIN src /\ Due(i) /\ src[i].key \in cycles
     /\ ~Tied(i) /\ src[i].end < now)
      ~> Copies(i) # {}
=============================================================================

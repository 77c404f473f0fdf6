------------------------------ MODULE Projector ------------------------------
(***************************************************************************)
(* The main loop (main.go): a tick reads a bounded batch of every source   *)
(* table, merges the batches into one timeline, applies it up to a safe    *)
(* point, saves the cursors and flushes what the tracker closed.  The      *)
(* controller writes meanwhile; a tick can fail; the process can die or be *)
(* stopped, and is started again (Restart=always).                         *)
(*                                                                         *)
(* Three of the five tables stand for all; step runs are read last and     *)
(* applied before the toggles of the same time.  What the tracker does     *)
(* with a row is module Tracker: here it holds the rows it was given, and  *)
(* an order closes the interval of the rows before it.                     *)
(***************************************************************************)
EXTENDS Naturals, Sequences, FiniteSets

CONSTANTS
  BatchSize,   \* -batch: rows read per table and tick
  BadRows,     \* the source holds timestamps parseSourceTime rejects
  MaxTs,       \* bound: the controller's clock
  MaxRows,     \* bound: rows the controller writes
  MaxFailures  \* bound: failed ticks and crashes

ASSUME ProjectorBounds ==
  /\ BatchSize \in Nat \ {0} /\ BadRows \in BOOLEAN
  /\ MaxTs \in Nat /\ MaxRows \in Nat /\ MaxFailures \in Nat

Tables == {"orders", "sensor_input_toggles", "fsm_step_runs"}

(* The order collect reads the tables in, and the kind order of a tie. *)
ReadRank == [orders |-> 1, sensor_input_toggles |-> 2, fsm_step_runs |-> 3]
KindRank == [orders |-> 1, fsm_step_runs |-> 2, sensor_input_toggles |-> 3]

VARIABLES
  clock,    \* the controller's clock
  src,      \* rows by table, indexed by id
  cursor,   \* source_cursors in projector_state.db
  pc,       \* the table to be read next, or the stage of the tick
  ending,   \* SIGTERM was received: this tick is the last
  batch,    \* ids read in this tick, by table
  full,     \* tables whose batch came back full
  applied,  \* id to be saved as cursor, by table; 0 when none
  open,     \* rows the tracker holds
  kept,     \* rows committed to the replica, in order
  history,  \* history: rows applied, in order
  failures  \* history: failures so far

source == <<clock, src>>
reading == <<batch, full>>
vars == <<source, cursor, pc, ending, reading, applied, open, kept, history, failures>>

RowId == [table : Tables, id : Nat]

(* Mutant: -1 stands for no id. *)
NoIdsNegative == [t \in Tables |-> 0 - 1]
NoIds == [t \in Tables |-> 0]
NoRows == [t \in Tables |-> {}]

TypeOK ==
  /\ clock \in Nat
  /\ src \in [Tables -> Seq([at : Nat, ok : BOOLEAN])]
  /\ cursor \in [Tables -> Nat]
  /\ pc \in Tables \cup {"idle", "apply", "save", "flush", "final"}
  /\ ending \in BOOLEAN
  /\ batch \in [Tables -> SUBSET Nat]
  /\ full \in SUBSET Tables
  /\ applied \in [Tables -> Nat]
  /\ open \in Seq(RowId) /\ kept \in Seq(RowId) /\ history \in Seq(RowId)
  /\ failures \in Nat

Init ==
  /\ clock = 1
  /\ src = [t \in Tables |-> <<>>]
  /\ cursor = NoIds
  /\ pc = "idle"
  /\ ending = FALSE
  /\ batch = NoRows
  /\ full = {}
  /\ applied = NoIds
  /\ open = <<>> /\ kept = <<>> /\ history = <<>>
  /\ failures = 0

-----------------------------------------------------------------------------
(* The controller *)

Written == Len(src["orders"]) + Len(src["sensor_input_toggles"]) + Len(src["fsm_step_runs"])

Writes(t, ok) ==
  /\ Written < MaxRows
  /\ ok \/ BadRows
  /\ src' = [src EXCEPT ![t] = Append(@, [at |-> clock, ok |-> ok])]
  /\ UNCHANGED <<clock, cursor, pc, ending, reading, applied, open, kept, history, failures>>

ClockTicks ==
  /\ clock < MaxTs
  /\ clock' = clock + 1
  /\ UNCHANGED <<src, cursor, pc, ending, reading, applied, open, kept, history, failures>>

-----------------------------------------------------------------------------
(* The tick *)

BeginTick(stop) ==
  /\ pc = "idle"
  /\ pc' = "orders"
  /\ ending' = stop
  /\ UNCHANGED <<source, cursor, reading, applied, open, kept, history, failures>>

(* WHERE id > ? ORDER BY id LIMIT ?, less the rows whose time is rejected. *)
Window(t) == {id \in DOMAIN src[t] : cursor[t] < id /\ id <= cursor[t] + BatchSize}
Parsed(t) == {id \in Window(t) : src[t][id].ok}

NextRead(t) == IF \E u \in Tables : ReadRank[u] = ReadRank[t] + 1
               THEN CHOOSE u \in Tables : ReadRank[u] = ReadRank[t] + 1
               ELSE "apply"

(* collect: each table in a read of its own. *)
ReadTable(t) ==
  /\ pc = t
  /\ batch' = [batch EXCEPT ![t] = Parsed(t)]
  /\ full' = IF Cardinality(Parsed(t)) >= BatchSize THEN full \cup {t} ELSE full
  /\ pc' = NextRead(t)
  /\ UNCHANGED <<source, cursor, ending, applied, open, kept, history, failures>>

At(r) == src[r.table][r.id].at
Items == {r \in [table : Tables, id : UNION {batch[t] : t \in Tables}] : r.id \in batch[r.table]}
LastRead(t) == CHOOSE id \in batch[t] : \A other \in batch[t] : other <= id

(* Mutants: the safe point is ignored, or excluded. *)
SafeIgnored(r) == r.id > 0
SafeStrictly(r) == \A t \in full : At(r) < At([table |-> t, id |-> LastRead(t)])

(* safeUpTo: the earliest last row of a full batch. *)
Safe(r) == \A t \in full : At(r) <= At([table |-> t, id |-> LastRead(t)])

Before(r, q) ==
  \/ At(r) < At(q)
  \/ At(r) = At(q) /\ KindRank[r.table] < KindRank[q.table]
  \/ At(r) = At(q) /\ r.table = q.table /\ r.id < q.id

Merged ==
  LET safe == {r \in Items : Safe(r)}
  IN  [k \in 1 .. Cardinality(safe) |->
         CHOOSE r \in safe : Cardinality({q \in safe : Before(q, r)}) = k - 1]

(* Mutant: the cursor passes everything that was read. *)
LastAppliedHighest(s, t) == IF batch[t] = {} THEN 0 ELSE LastRead(t)

(* The cursor to be: the id of the last row applied, not the highest id. *)
LastApplied(s, t) ==
  LET mine == {k \in DOMAIN s : s[k].table = t}
  IN  IF mine = {} THEN 0 ELSE s[CHOOSE k \in mine : \A j \in mine : j <= k].id

ApplyRows ==
  /\ pc = "apply"
  /\ LET rows == Merged
     IN  /\ open' = open \o rows
         /\ history' = history \o rows
         /\ applied' = [t \in Tables |-> LastApplied(rows, t)]
  /\ batch' = NoRows /\ full' = {}
  /\ pc' = "save"
  /\ UNCHANGED <<source, cursor, ending, kept, failures>>

(* Mutant: no cursor is saved. *)
UnsavedForgotten == {}

(* The loop over the map applied, in any order; a cursor never goes back. *)
Unsaved == {t \in Tables : applied[t] > cursor[t]}

SetCursor(t) ==
  /\ pc = "save" /\ t \in Unsaved
  /\ cursor' = [cursor EXCEPT ![t] = applied[t]]
  /\ UNCHANGED <<source, pc, ending, reading, applied, open, kept, history, failures>>

CursorsSaved ==
  /\ pc = "save" /\ Unsaved = {}
  /\ applied' = NoIds
  /\ pc' = "flush"
  /\ UNCHANGED <<source, cursor, ending, reading, open, kept, history, failures>>

(* Mutant: the final flush leaves the open interval. *)
CutsWithoutLast == {k \in 2 .. Len(open) : open[k].table = "orders"}

(* Rows of the intervals the tracker has closed: those before the last     *)
(* order, and in the final flush all of them.                              *)
Cuts == {k \in 2 .. Len(open) : open[k].table = "orders"}
      \cup (IF pc = "final" /\ open # <<>> THEN {Len(open) + 1} ELSE {})
FirstCut == CHOOSE k \in Cuts : \A j \in Cuts : k <= j
LastCut == CHOOSE k \in Cuts : \A j \in Cuts : j <= k

FlushInterval ==
  /\ pc \in {"flush", "final"} /\ Cuts # {}
  /\ kept' = kept \o SubSeq(open, 1, FirstCut - 1)
  /\ open' = SubSeq(open, FirstCut, Len(open))
  /\ UNCHANGED <<source, cursor, pc, ending, reading, applied, history, failures>>

(* A tick is over, succeeded or failed, and its locals are gone: next is   *)
(* finalFlush when it was the last, and after that the restarted process.  *)
TickOver ==
  /\ pc' = IF pc # "final" /\ ending THEN "final" ELSE "idle"
  /\ ending' = FALSE
  /\ batch' = NoRows /\ full' = {} /\ applied' = NoIds

EndFlush ==
  /\ pc \in {"flush", "final"} /\ Cuts = {}
  /\ TickOver
  /\ open' = IF pc = "final" THEN <<>> ELSE open
  /\ UNCHANGED <<source, cursor, kept, history, failures>>

-----------------------------------------------------------------------------
(* Failures *)

Fails ==
  /\ failures < MaxFailures
  /\ failures' = failures + 1

(* A read, the config or a cursor write fails: tick returns the error.     *)
(* Rows applied by then stay in the tracker.                               *)
TickFails ==
  /\ pc \in Tables \cup {"save"}
  /\ Fails
  /\ TickOver
  /\ UNCHANGED <<source, cursor, open, kept, history>>

(* A transaction fails: what PendingIntervals handed out is not put back. *)
FlushFails ==
  /\ pc \in {"flush", "final"} /\ Cuts # {}
  /\ Fails
  /\ open' = SubSeq(open, LastCut, Len(open))
  /\ TickOver
  /\ UNCHANGED <<source, cursor, kept, history>>

(* The process dies and is started again with an empty tracker. *)
Crash ==
  /\ Fails
  /\ open' = <<>>
  /\ pc' = "idle"
  /\ ending' = FALSE
  /\ batch' = NoRows /\ full' = {} /\ applied' = NoIds
  /\ UNCHANGED <<source, cursor, kept, history>>

Tick ==
  \/ \E t \in Tables : ReadTable(t) \/ SetCursor(t)
  \/ ApplyRows
  \/ CursorsSaved
  \/ FlushInterval
  \/ EndFlush

Next ==
  \/ \E t \in Tables, ok \in BOOLEAN : Writes(t, ok)
  \/ ClockTicks
  \/ \E stop \in BOOLEAN : BeginTick(stop)
  \/ Tick
  \/ TickFails
  \/ FlushFails
  \/ Crash

(* The ticker fires, and a tick that has begun goes on. *)
Fairness == WF_vars(Tick \/ \E stop \in BOOLEAN : BeginTick(stop))

Spec == Init /\ [][Next]_vars
FairSpec == Spec /\ Fairness

-----------------------------------------------------------------------------
(* Properties *)

AppliedRow(t, id) == \E n \in DOMAIN history : history[n] = [table |-> t, id |-> id]
FirstTime(n) == \A m \in 1 .. n - 1 : history[m] # history[n]

(* "Rows must reach it in the order they actually happened": a row reaches *)
(* the tracker after a younger row only if the younger one is of a table   *)
(* that collect reads later, whatever batches fill up and whatever fails.  *)
(* This is what module Tracker takes for granted (Arrives).  A batch of    *)
(* several rows must be without rejected ones: they make a full batch look *)
(* short, which disables the safe point.                                   *)
LateOnlyAfterLaterTable ==
  \A m, n \in DOMAIN history :
    m < n /\ FirstTime(n) /\ At(history[n]) < At(history[m])
      => ReadRank[history[n].table] < ReadRank[history[m].table]

(* No row is skipped: whatever lies behind a cursor was applied, although  *)
(* the cursor is the last row in time order and rows beyond the safe point *)
(* are left for the next tick.                                             *)
CursorPassesAppliedRows ==
  \A t \in Tables : \A id \in 1 .. cursor[t] :
    src[t][id].ok => AppliedRow(t, id)

(* No row is applied twice but for a failure, and then once more for each. *)
AppliedOnceUnlessFailed ==
  \A n \in DOMAIN history :
    Cardinality({m \in DOMAIN history : history[m] = history[n]}) <= 1 + failures

Held == {open[k] : k \in DOMAIN open} \cup {kept[k] : k \in DOMAIN kept}
RowLost(r) == r.id <= cursor[r.table] /\ src[r.table][r.id].ok /\ r \notin Held

(* A stop and a restart lose nothing: without a failure every row behind a *)
(* cursor is in the replica or in the tracker.                             *)
StopLosesNothing ==
  failures = 0 => \A t \in Tables, id \in 1 .. MaxRows : ~RowLost([table |-> t, id |-> id])

(* A whole batch of rows with rejected times: it has no item to move the   *)
(* cursor, so the rows behind it are never read.                           *)
Stalled(t, id) ==
  \E first \in 1 .. id - BatchSize :
    \A bad \in first .. first + BatchSize - 1 : ~src[t][bad].ok

(* "A single unparseable timestamp must not stall the whole pipeline       *)
(* behind it": full batches and the safe point defer rows but never hold   *)
(* them up for ever, and rejected rows hold up nothing but their own       *)
(* table, and that only when they fill a batch.  So again and again (the   *)
(* controller writes no more than MaxRows) no other row waits.             *)
EveryRowApplied ==
  []<>(\A t \in Tables : \A id \in DOMAIN src[t] :
         src[t][id].ok => AppliedRow(t, id) \/ Stalled(t, id))
=============================================================================

----------------------------- MODULE TrackerOps -----------------------------
(***************************************************************************)
(* The tracker of cmd/projector/tracker.go as a value and the operations   *)
(* on it.  The Go code has one *tracker with mutating methods; here a      *)
(* method is an operator from a tracker (and a source row) to the tracker  *)
(* the method leaves behind, so that a handler which calls three others    *)
(* is their composition and stays one atomic step of the state machine in  *)
(* module Tracker.                                                         *)
(*                                                                         *)
(* Data that no property distinguishes is dropped: event counters, the     *)
(* unique-state set, terminal state and step, entry and exit reasons,      *)
(* sensor and actuator blobs, and the two buffers the writer never writes  *)
(* (fsm events and per-step actuator totals).  The remaining buffers of an *)
(* interval are one sequence of rows, each tagged with its table.          *)
(***************************************************************************)
EXTENDS Integers, Sequences, FiniteSets

CONSTANTS
  Nil,             \* a nil pointer: no interval, span, dwell or episode
  OrderKeys,       \* order keys of the controller, ORD-<hex12>
  NonRecoverable,  \* fault types severityFor calls non_recoverable
  MaxInterval,     \* maxIntervalMS, 0 to disable the cap
  Slack,           \* slackMS of ledgerCovers
  UseStepRuns,     \* the source has the table fsm_step_runs
  StepRunFaults    \* ... and its fault_type column

Lanes == {"main", "tilter", "crusher"}
NoKey == ""        \* order_key of a row outside any order
NoStep == -1       \* a nil step pointer, and a NULL dwell_seq_index
AutoCycleCompleteStep == 19

SynthResults == {"idle", "maintenance", "manual", "error"}
FaultResults == {"faulted_recoverable", "faulted_non_recoverable"}
Results == SynthResults \cup FaultResults \cup {"completed", "aborted"}
Tables == {"state_durations", "step_dwells", "fault_events",
           "sensor_toggles", "config_history", "door_events"}

Dwell == [state : STRING, step : Int, start : Nat, seq : Nat]
Span == [state : STRING, entered : Nat]
Door == [opened : Nat, resets : Nat]

Texts == STRING \cup {""}
LanesOrNone == Lanes \cup {""}
NatOrNull == Nat \cup {NoStep}

(* One child row.  src is the source row it copies (0: derived from        *)
(* several); num is seq_index, dwell_seq_index or fault_reset_count.       *)
Row == [table : Tables, from : Nat, at : Nat, src : Nat,
        what : Texts, lane : LanesOrNone, num : NatOrNull]

SynthKeys == SynthResults \X Nat \X Nat
Interval == [key : OrderKeys \cup SynthKeys, prod : BOOLEAN,
             start : Nat, end : Nat, result : Results, recipe : BOOLEAN,
             rows : Seq(Row)]

TrackerValue ==
  [cur : Interval \cup {Nil}, span : Span \cup {Nil}, door : Door \cup {Nil},
   dwell : [Lanes -> Dwell \cup {Nil}], seq : [Lanes -> Nat],
   ledger : SUBSET [type : STRING, at : Nat],
   closed : Seq(Interval), synth : Nat]

ASSUME TrackerConstants ==
  /\ NoKey \notin OrderKeys /\ \A k \in OrderKeys : k \notin SynthKeys
  /\ NonRecoverable \subseteq STRING
  /\ MaxInterval \in Nat /\ Slack \in Nat
  /\ UseStepRuns \in BOOLEAN /\ StepRunFaults \in BOOLEAN
  /\ StepRunFaults => UseStepRuns
  /\ Nil \notin Interval \cup Span \cup Door \cup Dwell

NewTracker ==
  [cur |-> Nil, span |-> Nil, door |-> Nil,
   dwell |-> [l \in Lanes |-> Nil], seq |-> [l \in Lanes |-> 0],
   ledger |-> {}, closed |-> <<>>, synth |-> 0]

-----------------------------------------------------------------------------
(* Vocabulary *)

LaneForState(state) ==
  CASE state = "Tilter"  -> "tilter"
    [] state = "Crusher" -> "crusher"
    [] OTHER             -> "main"

(* Mutant: results keep the capitals of the state names. *)
ResultForStateTitled(state) ==
  IF state \in {"Maintenance", "Manual", "Error"} THEN state ELSE "idle"

ResultForState(state) ==
  CASE state = "Maintenance" -> "maintenance"
    [] state = "Manual"      -> "manual"
    [] state = "Error"       -> "error"
    [] OTHER                 -> "idle"

FaultResult(type) == IF type \in NonRecoverable THEN "faulted_non_recoverable"
                                                ELSE "faulted_recoverable"

EmitsDwell(state, prod) == prod \/ state # "HomeIdle"

DwellRow(lane, state, from, at, seq) ==
  [table |-> "step_dwells", from |-> from, at |-> at, src |-> 0,
   what |-> state, lane |-> lane, num |-> seq]
SpanRow(s, at) ==
  [table |-> "state_durations", from |-> s.entered, at |-> at, src |-> 0,
   what |-> s.state, lane |-> "", num |-> 0]
FaultRow(type, at, id, dwellSeq) ==
  [table |-> "fault_events", from |-> at, at |-> at, src |-> id,
   what |-> type, lane |-> "", num |-> dwellSeq]
ToggleRow(input, at, id) ==
  [table |-> "sensor_toggles", from |-> at, at |-> at, src |-> id,
   what |-> input, lane |-> "", num |-> 0]
DoorRow(d, at, id) ==
  [table |-> "door_events", from |-> d.opened, at |-> at, src |-> id,
   what |-> "", lane |-> "", num |-> d.resets]
ConfigRow(k, at, id) ==
  [table |-> "config_history", from |-> at, at |-> at, src |-> id,
   what |-> k, lane |-> "", num |-> 0]

AddRow(t, row) == [t EXCEPT !.cur.rows = Append(@, row)]

-----------------------------------------------------------------------------
(* Interval lifecycle *)

CloseDwell(t, lane, at) ==
  LET d == t.dwell[lane]
      gone == [t EXCEPT !.dwell[lane] = Nil]
  IN  IF d = Nil \/ t.cur = Nil THEN t
      ELSE IF at > d.start /\ EmitsDwell(d.state, t.cur.prod)
           THEN AddRow(gone, DwellRow(lane, d.state, d.start, at, d.seq))
           ELSE gone

(* Mutant: the main lane is left out. *)
CloseSideDwells(t, at) == CloseDwell(CloseDwell(t, "crusher", at), "tilter", at)

(* The map iteration of the code, in the order sort.Strings gives it. *)
CloseOpenDwells(t, at) ==
  CloseDwell(CloseDwell(CloseDwell(t, "crusher", at), "main", at), "tilter", at)

(* Mutant: the written span stays open. *)
CloseStateSpanKeeps(t, at) ==
  IF t.span # Nil /\ t.cur # Nil /\ at > t.span.entered
  THEN AddRow(t, SpanRow(t.span, at))
  ELSE t

(* A span entered at this very instant is neither written nor cleared: it  *)
(* stays open and is written by whichever interval closes it.              *)
CloseStateSpanAt(t, at) ==
  IF t.span # Nil /\ t.cur # Nil /\ at > t.span.entered
  THEN [AddRow(t, SpanRow(t.span, at)) EXCEPT !.span = Nil]
  ELSE t

(* Mutant: an empty interval is emitted too. *)
CloseIntervalEmpty(t, at, forced) ==
  LET c == CloseStateSpanAt(CloseOpenDwells(t, at), at)
      iv == [c.cur EXCEPT !.end = at,
                          !.result = IF forced = "" THEN @ ELSE forced]
  IN  IF t.cur = Nil THEN t
      ELSE IF at < t.cur.start THEN [c EXCEPT !.cur = Nil]
      ELSE [c EXCEPT !.cur = Nil, !.closed = Append(@, iv)]

(* forced = "" keeps the result the interval was opened with. *)
CloseInterval(t, at, forced) ==
  LET c == CloseStateSpanAt(CloseOpenDwells(t, at), at)
      iv == [c.cur EXCEPT !.end = at,
                          !.result = IF forced = "" THEN @ ELSE forced]
  IN  IF t.cur = Nil THEN t
      ELSE IF at <= t.cur.start THEN [c EXCEPT !.cur = Nil]
      ELSE [c EXCEPT !.cur = Nil, !.closed = Append(@, iv)]

NewInterval(key, prod, at, result) ==
  [key |-> key, prod |-> prod, start |-> at, end |-> 0, result |-> result,
   recipe |-> FALSE, rows |-> <<>>]

(* newInterval and resetPerInterval.  A synthetic key is prefix, time and  *)
(* the process-wide counter modulo 10000.                                  *)
OpenInterval(t, key, want, at) ==
  LET fresh == [t EXCEPT !.seq = [l \in Lanes |-> 0]]
  IN  IF key # NoKey
      THEN [fresh EXCEPT !.cur = NewInterval(key, TRUE, at, "aborted")]
      ELSE [fresh EXCEPT
              !.synth = @ + 1,
              !.cur = NewInterval(<<want, at, (t.synth + 1) % 10000>>,
                                  FALSE, at, want)]

(* The open interval already is the one this row belongs to. *)
Fits(t, key, want) ==
  /\ t.cur # Nil
  /\ IF key # NoKey THEN t.cur.key = key
                    ELSE ~t.cur.prod /\ t.cur.result = want

(* Mutant: the cap is reached a moment late. *)
OverCapLate(t, at) == t.cur # Nil /\ MaxInterval > 0 /\ at - t.cur.start > MaxInterval

OverCap(t, at) == t.cur # Nil /\ MaxInterval > 0 /\ at - t.cur.start >= MaxInterval

EnsureInterval(t, key, state, at) ==
  LET want == ResultForState(state)
      young == IF OverCap(t, at)
               THEN CloseInterval(t, at, IF t.cur.prod THEN "aborted" ELSE t.cur.result)
               ELSE t
  IN  IF Fits(young, key, want) THEN young
      ELSE OpenInterval(CloseInterval(young, at, ""), key, want, at)

-----------------------------------------------------------------------------
(* Handlers: o, e, f, sr, s are source rows, id their identity. *)

ApplyOrder(t, o, at) ==
  [EnsureInterval(t, o.key, "AutoCycle", at) EXCEPT !.cur.recipe = TRUE]

TrackStateSpan(t, e, at) ==
  IF \/ e.state \in {"", "Tilter", "Crusher"}
     \/ t.span # Nil /\ t.span.state = e.state
  THEN t
  ELSE [CloseStateSpanAt(t, at) EXCEPT
          !.span = [state |-> e.state, entered |-> at]]

TrackDwell(t, e, at) ==
  LET lane == LaneForState(e.state)
      step == IF e.stepTo = NoStep THEN e.stepFrom ELSE e.stepTo
      open == t.dwell[lane]
  IN  IF open # Nil /\ open.state = e.state /\ open.step = step THEN t
      ELSE [CloseDwell(t, lane, at) EXCEPT
              !.dwell[lane] = [state |-> e.state, step |-> step,
                               start |-> at, seq |-> t.seq[lane]],
              !.seq[lane] = @ + 1]

(* Mutant: any step of AutoCycle counts as the last. *)
CompletesAtAnyStep(t, state, step) == t.cur.prod /\ state = "AutoCycle"

(* Step 19 of AutoCycle is the firmware's own "cycle complete". *)
Completes(t, state, step) ==
  t.cur.prod /\ state = "AutoCycle" /\ step = AutoCycleCompleteStep

ApplyFSMEvent(t, e, at) ==
  LET spanned == TrackStateSpan(EnsureInterval(t, e.key, e.state, at), e, at)
      dwelt == IF UseStepRuns THEN spanned ELSE TrackDwell(spanned, e, at)
  IN  IF Completes(dwelt, e.state, e.stepTo)
      THEN CloseInterval(dwelt, at, "completed")
      ELSE dwelt

RecordLedgerFault(t, type, at) ==
  [t EXCEPT !.ledger = {l \in @ \cup {[type |-> type, at |-> at]} :
                          l.at >= at - MaxInterval}]

LedgerCovers(t, type, start, end) ==
  \E l \in t.ledger : l.type = type /\ l.at >= start - Slack /\ l.at <= end + Slack

(* Mutant: a fault outside production is not a row. *)
ApplyFaultProduction(t, f, at, id) ==
  LET noted == RecordLedgerFault(EnsureInterval(t, f.key, f.state, at), f.type, at)
      main == noted.dwell["main"]
      row == FaultRow(f.type, at, id, IF main = Nil THEN NoStep ELSE main.seq)
  IN  IF noted.cur.prod
      THEN CloseInterval(AddRow(noted, row), at, FaultResult(f.type))
      ELSE noted

ApplyFault(t, f, at, id) ==
  LET noted == RecordLedgerFault(EnsureInterval(t, f.key, f.state, at), f.type, at)
      main == noted.dwell["main"]
      row == FaultRow(f.type, at, id, IF main = Nil THEN NoStep ELSE main.seq)
  IN  IF noted.cur.prod
      THEN CloseInterval(AddRow(noted, row), at, FaultResult(f.type))
      ELSE AddRow(noted, row)

(* Mutant: the faulted interval is closed without its fault row. *)
ApplyStepRunFaultSilent(t, sr, start, end, seq, id) ==
  IF \/ sr.fault = "" \/ ~StepRunFaults
     \/ LedgerCovers(t, sr.fault, start, end)
     \/ ~t.cur.prod
  THEN t
  ELSE CloseInterval(t, end, FaultResult(sr.fault))

ApplyStepRunFault(t, sr, start, end, seq, id) ==
  LET faulted == AddRow(t, FaultRow(sr.fault, end, id, seq))
  IN  IF \/ sr.fault = "" \/ ~StepRunFaults
         \/ LedgerCovers(t, sr.fault, start, end)
      THEN t
      ELSE IF t.cur.prod THEN CloseInterval(faulted, end, FaultResult(sr.fault))
      ELSE faulted

(* Mutant: the lane's counter is not advanced. *)
ApplyStepRunSameSeq(t, sr, at, id) ==
  LET start == at - sr.len
      in == EnsureInterval(t, sr.key, sr.state, start)
      lane == LaneForState(sr.state)
  IN  IF at <= start \/ ~EmitsDwell(sr.state, in.cur.prod) THEN in
      ELSE AddRow(in, DwellRow(lane, sr.state, start, at, in.seq[lane]))

(* The row is placed at its end, its interval is looked up at its start. *)
ApplyStepRun(t, sr, at, id) ==
  LET start == at - sr.len
      in == EnsureInterval(t, sr.key, sr.state, start)
      lane == LaneForState(sr.state)
      counted == [in EXCEPT !.seq[lane] = @ + 1]
      dwelt == AddRow(counted, DwellRow(lane, sr.state, start, at, in.seq[lane]))
      done == ApplyStepRunFault(dwelt, sr, start, at, in.seq[lane], id)
  IN  IF at <= start THEN in
      ELSE IF ~EmitsDwell(sr.state, in.cur.prod) THEN counted
      ELSE IF done.cur # Nil /\ Completes(done, sr.state, sr.step)
           THEN CloseInterval(done, at, "completed")
      ELSE done

(* X0.0 is the main door, true when closed; X0.7 rising is a fault reset. *)
DoorOpened(s) == s.input = "X0.0" /\ s.from = 1 /\ s.to = 0
DoorClosed(s) == s.input = "X0.0" /\ s.from = 0 /\ s.to = 1
ResetPressed(s) == s.input = "X0.7" /\ s.from = 0 /\ s.to = 1

CloseDoorEpisode(t, at, id) ==
  IF t.door # Nil /\ at > t.door.opened
  THEN [AddRow(t, DoorRow(t.door, at, id)) EXCEPT !.door = Nil]
  ELSE [t EXCEPT !.door = Nil]

(* Mutant: an opening edge of an open door does not start over. *)
ApplyDoorSignalsOnce(t, s, at, id) ==
  CASE DoorOpened(s) /\ t.door = Nil -> [t EXCEPT !.door = [opened |-> at, resets |-> 0]]
    [] DoorClosed(s) -> CloseDoorEpisode(t, at, id)
    [] ResetPressed(s) /\ t.door # Nil -> [t EXCEPT !.door.resets = @ + 1]
    [] OTHER -> t

ApplyDoorSignals(t, s, at, id) ==
  CASE DoorOpened(s) -> [t EXCEPT !.door = [opened |-> at, resets |-> 0]]
    [] DoorClosed(s) -> CloseDoorEpisode(t, at, id)
    [] ResetPressed(s) /\ t.door # Nil -> [t EXCEPT !.door.resets = @ + 1]
    [] OTHER -> t

ApplySensorToggle(t, s, at, id) ==
  AddRow(ApplyDoorSignals(EnsureInterval(t, s.key, s.state, at), s, at, id),
         ToggleRow(s.input, at, id))

(* The state handed to ensureInterval is the result of the open synthetic  *)
(* interval, in lower case, or nothing inside a production interval.       *)
ApplyConfigChange(t, k, at, id) ==
  LET state == IF t.cur # Nil /\ ~t.cur.prod THEN t.cur.result ELSE ""
  IN  AddRow(EnsureInterval(t, NoKey, state, at), ConfigRow(k, at, id))

(* Shutdown: at is floored to just past the start of the open interval. *)
FlushOpen(t, at) ==
  IF t.cur = Nil THEN t
  ELSE CloseInterval(t, IF at <= t.cur.start THEN t.cur.start + 1 ELSE at,
                     IF t.cur.prod THEN "aborted" ELSE t.cur.result)

(* sort.SliceStable by endedMS: element k is the one with k - 1 before it. *)
EndsBefore(s, j, i) == s[j].end < s[i].end \/ (s[j].end = s[i].end /\ j < i)
EndRank(s, i) == Cardinality({j \in DOMAIN s : EndsBefore(s, j, i)})

(* Mutant: the youngest interval first. *)
SortByEndBackwards(s) ==
  [k \in DOMAIN s |-> s[CHOOSE i \in DOMAIN s : EndRank(s, i) = Len(s) - k]]

SortByEnd(s) ==
  [k \in DOMAIN s |-> s[CHOOSE i \in DOMAIN s : EndRank(s, i) = k - 1]]

TakePending(t) == [t EXCEPT !.closed = <<>>]
=============================================================================

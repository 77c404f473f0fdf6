------------------------------- MODULE Tracker -------------------------------
(***************************************************************************)
(* One process life of the tracker: source rows arrive on the machine's    *)
(* timeline, each handled by its Apply method; the main loop takes the     *)
(* closed intervals at the end of a tick; shutdown flushes the open one.   *)
(*                                                                         *)
(* tick sorts what it read by timestamp and the next tick reads on from    *)
(* there, so rows arrive in timestamp order.  Two rows of one timestamp    *)
(* arrive in kind order when one tick reads both and in either order when  *)
(* they become visible in two ticks, so ties are unordered here.           *)
(* MaxLate > 0 also lets a row arrive up to that much behind a row of a    *)
(* table that collect reads after its own: the tables are read one after   *)
(* the other, each in a read of its own, so a row written between two      *)
(* reads is seen a tick later than a younger row of the later table.       *)
(*                                                                         *)
(* fed and out are history: the rows handed to the tracker, in order (a    *)
(* row's identity is its position), and the intervals handed to the        *)
(* writer, in order.                                                       *)
(***************************************************************************)
EXTENDS TrackerOps

CONSTANTS
  Orders, Events, Faults, Toggles, StepRuns,  \* shapes of source rows
  ConfigKeys,                                 \* mutable keys of config.db
  MaxLate,                                    \* how late a row may be seen
  MaxTime, MaxItems                           \* bounds of the model

OrderShape == [key : OrderKeys]
EventShape == [key : OrderKeys \cup {NoKey}, state : STRING,
               stepTo : Int, stepFrom : Int]
FaultShape == [key : OrderKeys \cup {NoKey}, state : STRING, type : STRING]
ToggleShape == [key : OrderKeys \cup {NoKey}, state : STRING,
                input : STRING, from : {0, 1}, to : {0, 1}]
StepRunShape == [key : OrderKeys \cup {NoKey}, state : STRING, step : Int,
                 fault : STRING, len : Nat]

ASSUME SourceShapes ==
  /\ Orders \subseteq OrderShape /\ Events \subseteq EventShape
  /\ Faults \subseteq FaultShape /\ Toggles \subseteq ToggleShape
  /\ StepRuns \subseteq StepRunShape /\ ConfigKeys \subseteq STRING
  /\ StepRuns # {} => UseStepRuns
  /\ MaxLate \in Nat /\ MaxTime \in Nat /\ MaxItems \in Nat

VARIABLES
  trk,      \* the tracker
  latest,   \* timestamp of the last row applied: latest of tick
  stopped,  \* FlushOpen has run: the process is ending
  fed,      \* history: rows applied
  out       \* history: intervals handed to the writer

vars == <<trk, latest, stopped, fed, out>>

Kinds == {"order", "event", "fault", "toggle", "step_run", "config"}
FedRow == [kind : Kinds, at : Nat,
           row : OrderShape \cup EventShape \cup FaultShape \cup ToggleShape
                   \cup StepRunShape \cup [config : STRING]]

Init ==
  /\ trk = NewTracker
  /\ latest = 0
  /\ stopped = FALSE
  /\ fed = <<>>
  /\ out = <<>>

-----------------------------------------------------------------------------
(* The order in which collect reads the tables; config.db comes last. *)
ReadRank == [order |-> 1, event |-> 2, fault |-> 3, toggle |-> 4,
             step_run |-> 5, config |-> 6]

Running == ~stopped /\ Len(fed) < MaxItems

Arrives(kind, at) ==
  /\ Running
  /\ \A n \in DOMAIN fed :
       \/ fed[n].at <= at
       \/ ReadRank[kind] < ReadRank[fed[n].kind] /\ fed[n].at <= at + MaxLate

NextId == Len(fed) + 1

Fed(kind, row, at) ==
  /\ fed' = Append(fed, [kind |-> kind, row |-> row, at |-> at])
  /\ latest' = at
  /\ UNCHANGED <<stopped, out>>

OrderArrives(o, at) ==
  /\ Arrives("order", at)
  /\ trk' = ApplyOrder(trk, o, at)
  /\ Fed("order", o, at)

EventArrives(e, at) ==
  /\ Arrives("event", at)
  /\ trk' = ApplyFSMEvent(trk, e, at)
  /\ Fed("event", e, at)

FaultArrives(f, at) ==
  /\ Arrives("fault", at)
  /\ trk' = ApplyFault(trk, f, at, NextId)
  /\ Fed("fault", f, at)

ToggleArrives(s, at) ==
  /\ Arrives("toggle", at)
  /\ trk' = ApplySensorToggle(trk, s, at, NextId)
  /\ Fed("toggle", s, at)

(* The firmware ends a lane's step before it begins the lane's next one,   *)
(* so the step runs of a lane do not overlap.                              *)
StepRunArrives(sr, at) ==
  /\ Arrives("step_run", at) /\ sr.len <= at
  /\ \A n \in DOMAIN fed :
       /\ fed[n].kind = "step_run"
       /\ LaneForState(fed[n].row.state) = LaneForState(sr.state)
       => fed[n].at <= at - sr.len
  /\ trk' = ApplyStepRun(trk, sr, at, NextId)
  /\ Fed("step_run", sr, at)

(* drainConfig runs only in a tick that applied a row, and stamps the      *)
(* change with that row's time.                                            *)
ConfigChanges(k) ==
  /\ fed # <<>> /\ Running
  /\ trk' = ApplyConfigChange(trk, k, latest, NextId)
  /\ Fed("config", [config |-> k], latest)

(* PendingIntervals, and the loop of flushIntervals over its result. *)
Take ==
  /\ trk.closed # <<>>
  /\ out' = out \o SortByEnd(trk.closed)
  /\ trk' = TakePending(trk)
  /\ UNCHANGED <<latest, stopped, fed>>

(* finalFlush, after the last tick succeeded. *)
Shutdown ==
  /\ ~stopped /\ fed # <<>>
  /\ stopped' = TRUE
  /\ trk' = FlushOpen(trk, latest)
  /\ UNCHANGED <<latest, fed, out>>

Next ==
  \/ \E at \in 0 .. MaxTime :
       \/ \E o \in Orders : OrderArrives(o, at)
       \/ \E e \in Events : EventArrives(e, at)
       \/ \E f \in Faults : FaultArrives(f, at)
       \/ \E s \in Toggles : ToggleArrives(s, at)
       \/ \E sr \in StepRuns : StepRunArrives(sr, at)
  \/ \E k \in ConfigKeys : ConfigChanges(k)
  \/ Take
  \/ Shutdown

Spec == Init /\ [][Next]_vars

-----------------------------------------------------------------------------
(* Properties *)

(* Every interval finished so far, in the order the writer gets them. *)
Done == out \o trk.closed
Doing == IF trk.cur = Nil THEN {} ELSE {trk.cur}
AllIntervals == {Done[i] : i \in DOMAIN Done} \cup Doing

RowsOf(iv, table) == {k \in DOMAIN iv.rows : iv.rows[k].table = table}
Emitted(table) == UNION {{i} \X RowsOf(Done[i], table) : i \in DOMAIN Done}
RowAt(p) == Done[p[1]].rows[p[2]]

(* The variables stay in their types: an interval is never emitted with a  *)
(* result outside the vocabulary, a lane never runs a negative index, and  *)
(* no handler dereferences a nil interval (tracker.go, all Apply methods). *)
TypeOK ==
  /\ trk \in TrackerValue
  /\ latest \in Nat
  /\ stopped \in BOOLEAN
  /\ fed \in Seq(FedRow)
  /\ out \in Seq(Interval)

Ordered(s) ==
  /\ \A i \in DOMAIN s : s[i].start < s[i].end
  /\ \A i, j \in DOMAIN s : i < j => s[i].end <= s[j].start

(* "Intervals form a CONTINUOUS PARTITION of machine time": no two emitted *)
(* intervals share an instant, none is empty, they reach the writer in     *)
(* time order across ticks, and the open one starts after all of them, so  *)
(* that summing duration_ms never counts a millisecond twice.              *)
IntervalsDisjoint ==
  /\ Ordered(Done)
  /\ trk.cur # Nil => \A i \in DOMAIN Done : Done[i].end <= trk.cur.start

(* A child row lies inside its parent: its event_ts is not after the       *)
(* parent's end and a dwell does not begin before the parent (the flush    *)
(* stamps children with their own time and the parent with its end).       *)
RowsInside ==
  \A i \in DOMAIN Done : \A k \in DOMAIN Done[i].rows :
    LET r == Done[i].rows[k]
    IN  /\ Done[i].start <= r.at /\ r.at <= Done[i].end
        /\ r.table = "step_dwells" => Done[i].start <= r.from /\ r.from < r.at

Apart(r, q) == r.at <= q.from \/ q.at <= r.from

(* Occupancy is never counted twice: state spans are disjoint in time, and *)
(* so are the dwells of one lane, over all emitted intervals, though a     *)
(* span outlives the interval that fails to close it at its own instant.   *)
OccupancyDisjoint ==
  /\ \A p, q \in Emitted("state_durations") : p # q => Apart(RowAt(p), RowAt(q))
  /\ \A p, q \in Emitted("step_dwells") :
       p # q /\ RowAt(p).lane = RowAt(q).lane => Apart(RowAt(p), RowAt(q))

Earlier(p, q) == p[1] < q[1] \/ (p[1] = q[1] /\ p[2] < q[2])

(* FlushInterval guards the event_ts of cycles only and writes children    *)
(* with their own time, so nothing but the order the tracker emits them in *)
(* keeps the event_ts of a child table from moving backwards.              *)
EventTsOrdered ==
  \A table \in Tables : \A p, q \in Emitted(table) :
    Earlier(p, q) => RowAt(p).at <= RowAt(q).at

(* Fed rows of order key k, handled after an interval opened and no later  *)
(* than its end. *)
IsCompletion(n, k) ==
  /\ \/ fed[n].kind = "event" /\ fed[n].row.stepTo = AutoCycleCompleteStep
     \/ fed[n].kind = "step_run" /\ fed[n].row.step = AutoCycleCompleteStep
  /\ fed[n].row.key = k /\ fed[n].row.state = "AutoCycle"
IsFault(n, k, result) ==
  /\ \/ fed[n].kind = "fault" /\ FaultResult(fed[n].row.type) = result
     \/ /\ fed[n].kind = "step_run" /\ fed[n].row.fault # ""
        /\ FaultResult(fed[n].row.fault) = result
  /\ fed[n].row.key = k

(* "Why result matters": an interval is completed only if a row of its own *)
(* order reached step 19 at its end, and no fault of that order was taken  *)
(* before that inside it; it is faulted only if a fault of that severity   *)
(* and order came at its end and is among its rows; and only production    *)
(* intervals have such results.                                            *)
OutcomeHasEvidence ==
  \A i \in DOMAIN Done :
    LET iv == Done[i]
        faults == RowsOf(iv, "fault_events")
    IN  /\ iv.prod <=> iv.result \notin SynthResults
        /\ iv.result = "completed" =>
             /\ \E n \in DOMAIN fed : fed[n].at = iv.end /\ IsCompletion(n, iv.key)
             /\ faults = {}
        /\ iv.result \in FaultResults =>
             /\ \E n \in DOMAIN fed : /\ fed[n].at = iv.end
                                      /\ IsFault(n, iv.key, iv.result)
                                      /\ \E k \in faults : iv.rows[k].src = n
             /\ Cardinality(faults) = 1

OneToOne == {"fault", "toggle", "config"}
TableOf == [fault |-> "fault_events", toggle |-> "sensor_toggles",
            config |-> "config_history"]
CopiesOf(n, iv) ==
  {k \in RowsOf(iv, TableOf[fed[n].kind]) : iv.rows[k].src = n}

(* Once its timestamp lies strictly inside an interval, a fault, toggle or *)
(* config change is in that interval: a split by the cap, by a state       *)
(* change or by the next order loses none of them.                         *)
NothingLostInside ==
  \A n \in DOMAIN fed : fed[n].kind \in OneToOne =>
    \A iv \in AllIntervals :
      iv.start < fed[n].at /\ (iv \in Doing \/ fed[n].at < iv.end)
        => CopiesOf(n, iv) # {}

(* Inside an interval seq_index numbers each lane's dwells in time order,  *)
(* with no number given twice, filtered dwells included.                   *)
SeqIndexIncreasing ==
  \A iv \in AllIntervals :
    \A j, k \in RowsOf(iv, "step_dwells") :
      j < k /\ iv.rows[j].lane = iv.rows[k].lane => iv.rows[j].num < iv.rows[k].num

(* "The cap bounds both memory and latency": after any row is applied, the *)
(* open interval is younger than the cap, so it never buffers more than    *)
(* that much of the stream.                                                *)
OpenBounded ==
  MaxInterval > 0 /\ trk.cur # Nil => latest - trk.cur.start < MaxInterval

(* A door episode counts exactly the resets pressed while it lasted, over  *)
(* however many intervals: between the last opening edge before its        *)
(* closing edge and that edge.                                             *)
DoorResetsExact ==
  \A i \in DOMAIN Done : \A k \in RowsOf(Done[i], "door_events") :
    LET r == Done[i].rows[k]
        Edge(n, Sig(_)) == fed[n].kind = "toggle" /\ Sig(fed[n].row)
        openings == {n \in 1 .. r.src : Edge(n, DoorOpened)}
    IN  \E n \in openings :
          /\ \A m \in openings : m <= n
          /\ fed[n].at = r.from
          /\ r.num = Cardinality({m \in n .. r.src : Edge(m, ResetPressed)})

-----------------------------------------------------------------------------
(* What the documents say of the program and the code does not do: a run   *)
(* finds it violated.                                                      *)

Finished == stopped /\ trk.closed = <<>>

(* The order of row n was opened by its orders row at an earlier time, and *)
(* no fault or step 19 of it was fed since. *)
OrderInProgress(n) ==
  /\ \E m \in 1 .. n - 1 :
       fed[m].kind = "order" /\ fed[m].row.key = fed[n].row.key /\ fed[m].at < fed[n].at
  /\ \A m \in 1 .. n - 1 :
       ~ \/ fed[m].kind = "fault" /\ fed[m].row.key = fed[n].row.key
         \/ fed[m].kind = "event" /\ IsCompletion(m, fed[n].row.key)

(* "Decided from firmware evidence: reaching AutoCycle step 19": when an   *)
(* order in progress reaches step 19, its first interval, the one that     *)
(* becomes its cycles row, is completed.                                   *)
CompletionReported ==
  Finished => \A n \in DOMAIN fed :
    LET mine == {i \in DOMAIN Done : Done[i].prod /\ Done[i].key = fed[n].row.key}
    IN  fed[n].kind = "event" /\ IsCompletion(n, fed[n].row.key) /\ OrderInProgress(n)
        => \E i \in mine : Done[i].result = "completed" /\ \A j \in mine : i <= j
=============================================================================

------------------------------ MODULE EventLog ------------------------------
(***************************************************************************)
(* What one replicated table promises the edge agent, and why.             *)
(*                                                                         *)
(* The projector only inserts; rowids grow by one.  The agent (omega, not  *)
(* in the repository) polls                                                *)
(*     event_ts > ? OR (event_ts = ? AND rowid > ?)                        *)
(* in (event_ts, rowid) order and keeps the last pair it shipped as its    *)
(* cursor.  As long as event_ts never moves backwards in rowid order, that *)
(* cursor is a position in the table and every row is shipped exactly      *)
(* once, in order.  Module Replica implements this specification.          *)
(***************************************************************************)
EXTENDS Naturals, Sequences

CONSTANTS MaxTs,   \* bound: event times are 1 .. MaxTs
          MaxRows  \* bound: rows in the table

ASSUME EventLogBounds == MaxTs \in Nat /\ MaxRows \in Nat

VARIABLES
  log,     \* event_ts of the rows, by rowid
  cursor,  \* the agent's cursor
  shipped  \* rowids the agent shipped, in order

vars == <<log, cursor, shipped>>

Cursors == [ts : Nat, id : Nat]

TypeOK ==
  /\ log \in Seq(Nat)
  /\ cursor \in Cursors
  /\ shipped \in Seq(Nat)

Init ==
  /\ log = <<>>
  /\ cursor = [ts |-> 0, id |-> 0]
  /\ shipped = <<>>

(* Mutant: a row of the time last shipped is taken for shipped. *)
BeyondStrictly == {i \in DOMAIN log : log[i] > cursor.ts}

(* The rows the agent's query returns, and their order in its result. *)
Beyond == {i \in DOMAIN log : \/ log[i] > cursor.ts
                              \/ log[i] = cursor.ts /\ i > cursor.id}
Before(i, j) == log[i] < log[j] \/ (log[i] = log[j] /\ i <= j)

(* Mutant: a row is inserted with whatever time it has. *)
InsertUnguarded(ts) ==
  /\ Len(log) < MaxRows
  /\ log' = Append(log, ts)
  /\ UNCHANGED <<cursor, shipped>>

(* The writer inserts a row that is no older than the newest one. *)
Insert(ts) ==
  /\ Len(log) < MaxRows
  /\ \A i \in DOMAIN log : log[i] <= ts
  /\ log' = Append(log, ts)
  /\ UNCHANGED <<cursor, shipped>>

(* The agent ships the first row of its query result. *)
Ship(i) ==
  /\ i \in Beyond
  /\ \A j \in Beyond : Before(i, j)
  /\ shipped' = Append(shipped, i)
  /\ cursor' = [ts |-> log[i], id |-> i]
  /\ UNCHANGED log

Next ==
  \/ \E ts \in 1 .. MaxTs : Insert(ts)
  \/ \E i \in DOMAIN log : Ship(i)

(* The agent polls for ever. *)
Fairness == WF_vars(\E i \in DOMAIN log : Ship(i))

Spec == Init /\ [][Next]_vars
FairSpec == Spec /\ Fairness

-----------------------------------------------------------------------------
(* "A row written late with an earlier timestamp would never ship": no row *)
(* is left behind the cursor, skipped or shipped twice; what was shipped   *)
(* is the table from its first row on, in rowid order.                     *)
ShippedIsPrefix ==
  /\ \A k \in DOMAIN shipped : shipped[k] = k
  /\ \A i \in DOMAIN log : i \in Beyond <=> i > Len(shipped)

(* Every row that is inserted is eventually shipped. *)
EveryRowShips == \A i \in 1 .. MaxRows : i \in DOMAIN log ~> i \in DOMAIN shipped
=============================================================================

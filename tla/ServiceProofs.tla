---------------------------- MODULE ServiceProofs ----------------------------
(***************************************************************************)
(* Theorems of Service, for any old tables, orders, retention and number   *)
(* of failures: what an interrupted migration keeps, what the gaps say,    *)
(* and which rows Prune takes from the agent.                              *)
(***************************************************************************)
EXTENDS Service, Numbers, FiniteSetTheorems, TLAPS

-----------------------------------------------------------------------------
(* The greatest element that Max chooses. *)
LEMMA MaxIs ==
  ASSUME NEW n \in Nat, NEW S \in SUBSET (0 .. n), S # {}
  PROVE  Max(S) \in S /\ \A y \in S : y <= Max(S)
<1>1. PICK x \in S : \A y \in S : y <= x
  BY GreatestNumber
<1>2. \A y \in S : x >= y
  BY <1>1
<1>3. Max(S) \in S /\ \A y \in S : Max(S) >= y
  BY <1>2 DEF Max
<1> QED
  BY <1>3

-----------------------------------------------------------------------------
(* Types.  A rowid is not above the number of rows written.                *)

RowsInv == \A r \in cycles : r.id \in 1 .. flushed.count

LEMMA Fields ==
  ASSUME TypeOK
  PROVE  /\ \A r \in cycles : r.id \in Nat /\ r.key \in Keys /\ r.ts \in Nat
         /\ \A r, q \in cycles : r.id = q.id /\ r.key = q.key /\ r.ts = q.ts => r = q
         /\ \A c \in children : c.key \in Keys /\ c.ts \in Nat
         /\ \A g \in gaps : g.from \in Nat /\ g.to \in Nat
         /\ \A b \in beats : b.at \in Nat /\ b.born \in Nat
         /\ cursor.ts \in Nat /\ cursor.id \in Nat
         /\ flushed.count \in Nat /\ flushed.ts \in Nat
         /\ failures["drop"] \in Nat /\ failures["fill"] \in Nat /\ failures["unreported"] \in Nat
         /\ \A t \in OldTables : copies[t] \in Nat
<1>1. cycles \subseteq CycleRow /\ children \subseteq ChildRow
  BY DEF TypeOK
<1>2. cursor \in [ts : Nat, id : Nat] /\ flushed \in [count : Nat, ts : Nat]
  BY DEF TypeOK
<1>3. gaps \subseteq [from : Nat, to : Nat] /\ beats \subseteq [at : Nat, born : Nat]
  BY DEF TypeOK
<1>4. failures["drop"] \in Nat /\ failures["fill"] \in Nat /\ failures["unreported"] \in Nat
  BY DEF TypeOK, Places
<1> QED
  BY <1>1, <1>2, <1>3, <1>4 DEF CycleRow, ChildRow, TypeOK

(* A new rowid is above all that are there. *)
LEMMA FreshId ==
  ASSUME TypeOK, RowsInv
  PROVE  NextId \in 1 .. flushed.count + 1 /\ \A r \in cycles : r.id < NextId
<1> DEFINE n == flushed.count
           S == {r.id : r \in cycles} \cup {0}
<1>1. n \in Nat
  BY Fields
<1>2. S \in SUBSET (0 .. n) /\ S # {}
  BY <1>1 DEF RowsInv
<1>3. \A r \in cycles : r.id \in S
  OBVIOUS
<1>4. NextId = Max(S) + 1
  BY DEF NextId
<1> HIDE DEF S, n
<1>5. Max(S) \in S /\ \A y \in S : y <= Max(S)
  BY <1>1, <1>2, MaxIs
<1>6. Max(S) \in 0 .. n /\ \A r \in cycles : r.id \in 0 .. n /\ r.id <= Max(S)
  BY <1>2, <1>3, <1>5
<1>7. Max(S) + 1 \in 1 .. n + 1 /\ \A r \in cycles : r.id < Max(S) + 1
  BY <1>1, <1>6
<1> QED
  BY <1>4, <1>7 DEF n

(* A failure is counted where it happened. *)
LEMMA FailureCounted ==
  ASSUME TypeOK, NEW where \in Places, Fails(where)
  PROVE  /\ failures' \in [Places -> Nat]
         /\ failures'[where] = failures[where] + 1
         /\ \A place \in Places : failures[place] \in Nat /\ failures[place] <= failures'[place]
<1>1. failures' = [failures EXCEPT ![where] = failures[where] + 1] /\ failures \in [Places -> Nat]
  BY DEF Fails, TypeOK
<1> QED
  BY <1>1

LEMMA CrashCounts ==
  ASSUME TypeOK, Crash
  PROVE  /\ failures' \in [Places -> Nat]
         /\ \A place \in Places : failures[place] \in Nat /\ failures[place] <= failures'[place]
         /\ pc \in {"drop", "fill"} => failures'[pc] = failures[pc] + 1
         /\ pc # "off" /\ pc' = "off"
         /\ UNCHANGED <<now, startVars, gapVars, pruneVars, rowVars>>
<1> DEFINE where == IF pc \in Places THEN pc ELSE "elsewhere"
<1>1. where \in Places /\ (pc \in {"drop", "fill"} => where = pc)
  BY DEF Places
<1>2. Fails(where)
  BY DEF Crash
<1> HIDE DEF where
<1> QED
  BY <1>1, <1>2, FailureCounted DEF Crash

(* The old table that is copied next exists. *)
LEMMA NextOldExists == old # {} => NextOld \in old
BY DEF NextOld

LEMMA ReportEffect ==
  ASSUME TypeOK, NEW succeeds \in BOOLEAN, ReportGap(succeeds)
  PROVE  /\ pc = "report" /\ pc' = "run" /\ started' = now /\ lastPrune' = now
         /\ gaps' = gaps \/ (Absent /\ gaps' = gaps \cup {[from |-> lastAlive, to |-> now]})
         /\ failures' \in [Places -> Nat]
         /\ \A place \in Places : failures[place] \in Nat /\ failures[place] <= failures'[place]
         /\ Absent => [from |-> lastAlive, to |-> now] \in gaps' \/ failures'["unreported"] > 0
         /\ UNCHANGED <<now, startVars, lastAlive, beats, cutoff, rowVars>>
<1>1. failures \in [Places -> Nat] /\ "unreported" \in Places
  BY DEF TypeOK, Places
<1>2. CASE succeeds
  BY <1>1, <1>2 DEF ReportGap
<1>3. CASE ~succeeds
  <2>1. Fails("unreported") /\ gaps' = gaps
    BY <1>3 DEF ReportGap
  <2>2. /\ failures' \in [Places -> Nat]
        /\ failures'["unreported"] = failures["unreported"] + 1
        /\ \A place \in Places : failures[place] \in Nat /\ failures[place] <= failures'[place]
    BY <1>1, <2>1, FailureCounted
  <2>3. failures'["unreported"] > 0
    BY <1>1, <2>2
  <2> QED
    BY <2>1, <2>2, <2>3 DEF ReportGap
<1> QED
  BY <1>2, <1>3

LEMMA FlushEffect ==
  ASSUME TypeOK, RowsInv, NEW k \in Keys, NEW e \in Times, FlushInterval(k, e)
  PROVE  /\ e \in Nat /\ 1 <= e /\ flushed.ts <= e /\ e <= now
         /\ cycles' \subseteq CycleRow /\ cycles \subseteq cycles'
         /\ \A r \in cycles' : r \notin cycles =>
              r = [id |-> NextId, key |-> k, ts |-> e] /\ r.id = NextId /\ r.ts = e /\ r.key = k
         /\ \E r \in cycles' : r.key = k
         /\ children' = children \cup {[key |-> k, ts |-> e]}
         /\ flushed' \in [count : Nat, ts : Nat]
         /\ flushed'.count = flushed.count + 1 /\ flushed'.ts = e
         /\ UNCHANGED <<now, pc, startVars, gapVars, pruneVars, cursor, shipped, lost, failures>>
<1> DEFINE row == [id |-> NextId, key |-> k, ts |-> e]
<1>1. MaxTime \in Nat
  BY ServiceConstants DEF ServiceConstants
<1>2. e \in Nat /\ 1 <= e
  BY <1>1 DEF Times
<1>3. flushed.count \in Nat /\ NextId \in Nat
  <2>1. flushed.count \in Nat /\ NextId \in 1 .. flushed.count + 1
    BY FreshId, Fields
  <2> QED
    BY <2>1
<1>4. row \in CycleRow /\ row.key = k
  BY <1>2, <1>3 DEF CycleRow
<1>5. cycles' = IF HasCycle(k) THEN cycles ELSE cycles \cup {row}
  BY DEF FlushInterval
<1>6. cycles' \subseteq CycleRow /\ cycles \subseteq cycles' /\ \E r \in cycles' : r.key = k
  <2> HIDE DEF row
  <2> QED
    BY <1>4, <1>5 DEF HasCycle, TypeOK
<1>7. flushed' = [count |-> flushed.count + 1, ts |-> e]
  BY DEF FlushInterval
<1>8. /\ flushed.ts <= e /\ e <= now /\ children' = children \cup {[key |-> k, ts |-> e]}
      /\ UNCHANGED <<now, pc, startVars, gapVars, pruneVars, cursor, shipped, lost, failures>>
  BY DEF FlushInterval
<1> QED
  BY <1>2, <1>3, <1>5, <1>6, <1>7, <1>8

LEMMA PruneEffect ==
  ASSUME TypeOK, PruneCycles
  PROVE  /\ cycles' \subseteq cycles /\ pc = "prune" /\ pc' = "run"
         /\ \A r \in cycles : r \notin cycles' => Expired(r) /\ ~Held
         /\ shipped' = shipped \cap cycles'
         /\ lost' = lost \cup {r.ts : r \in cycles \ (cycles' \cup shipped)}
         /\ lastPrune' = now
         /\ UNCHANGED <<now, startVars, gapVars, cutoff, children, cursor, flushed, failures>>
BY DEF PruneCycles

BasicInv == TypeOK /\ RowsInv /\ (pc = "drop" => old # {})

LEMMA BasicStep ==
  ASSUME BasicInv, [Next]_vars
  PROVE  BasicInv'
<1> USE DEF startVars, gapVars, pruneVars, rowVars
<1>0. TypeOK /\ RowsInv /\ (pc = "drop" => old # {})
  BY DEF BasicInv
<1>1. CASE Begin
  BY <1>0, <1>1 DEF Begin, BasicInv, TypeOK, RowsInv
<1>2. CASE CopyTable
  <2>1. NextOld \in OldTables /\ copies \in [OldTables -> Nat]
    BY <1>0, <1>2, NextOldExists DEF CopyTable, TypeOK
  <2>2. Copied(NextOld) \in Nat
    BY <2>1 DEF Copied
  <2>3. copies' \in [OldTables -> Nat]
    BY <1>2, <2>1, <2>2 DEF CopyTable
  <2> QED
    BY <1>0, <1>2, <2>3 DEF CopyTable, BasicInv, TypeOK, RowsInv
<1>3. CASE DropTable
  BY <1>0, <1>3 DEF DropTable, BasicInv, TypeOK, RowsInv
<1>4. CASE Folded
  BY <1>0, <1>4 DEF Folded, BasicInv, TypeOK, RowsInv
<1>5. CASE AddColumn \/ Backfill
  BY <1>0, <1>5 DEF AddColumn, Backfill, BasicInv, TypeOK, RowsInv
<1>6. ASSUME NEW succeeds \in BOOLEAN, ReportGap(succeeds) PROVE BasicInv'
  <2>1. gaps' \subseteq [from : Nat, to : Nat]
    BY <1>0, <1>6, ReportEffect DEF TypeOK
  <2>2. /\ pc' = "run" /\ started' = now /\ lastPrune' = now /\ failures' \in [Places -> Nat]
        /\ UNCHANGED <<now, startVars, lastAlive, beats, cutoff, rowVars>>
    BY <1>0, <1>6, ReportEffect
  <2> QED
    BY <1>0, <2>1, <2>2 DEF BasicInv, TypeOK, RowsInv
<1>7. ASSUME NEW k \in Keys, NEW e \in Times, FlushInterval(k, e) PROVE BasicInv'
  <2>1. /\ e \in Nat /\ cycles' \subseteq CycleRow /\ cycles \subseteq cycles'
        /\ \A r \in cycles' : r \notin cycles => r.id = NextId
        /\ children' = children \cup {[key |-> k, ts |-> e]}
        /\ flushed' \in [count : Nat, ts : Nat] /\ flushed'.count = flushed.count + 1
        /\ UNCHANGED <<now, pc, startVars, gapVars, pruneVars, cursor, shipped, lost, failures>>
    BY <1>0, <1>7, FlushEffect
  <2>2. children' \subseteq ChildRow
    BY <1>0, <2>1 DEF TypeOK, ChildRow
  <2>3. \A r \in cycles' : r.id \in 1 .. flushed'.count
    <3>1. flushed.count \in Nat /\ NextId \in 1 .. flushed.count + 1
      BY <1>0, FreshId, Fields
    <3>2. \A r \in cycles : r.id \in 1 .. flushed.count
      BY <1>0 DEF RowsInv
    <3>3. \A i \in 1 .. flushed.count : i \in 1 .. flushed.count + 1
      BY <3>1
    <3> QED
      BY <2>1, <3>1, <3>2, <3>3
  <2>4. shipped \subseteq cycles'
    BY <1>0, <2>1 DEF TypeOK
  <2> QED
    BY <1>0, <2>1, <2>2, <2>3, <2>4 DEF BasicInv, TypeOK, RowsInv
<1>8. CASE MarkAlive
  BY <1>0, <1>8 DEF MarkAlive, BasicInv, TypeOK, RowsInv
<1>9. CASE PruneChildren
  <2>1. now - Retention \in Int
    BY <1>0, ServiceConstants DEF ServiceConstants, TypeOK
  <2> QED
    BY <1>0, <1>9, <2>1 DEF PruneChildren, BasicInv, TypeOK, RowsInv
<1>10. CASE PruneCycles
  <2>1. lost' \subseteq Nat
    <3>1. \A r \in cycles : r.ts \in Nat
      BY <1>0, Fields
    <3>2. lost \subseteq Nat /\ lost' = lost \cup {r.ts : r \in cycles \ (cycles' \cup shipped)}
      BY <1>0, <1>10, PruneEffect DEF TypeOK
    <3> QED
      BY <3>1, <3>2
  <2> QED
    BY <1>0, <1>10, <2>1, PruneEffect DEF BasicInv, TypeOK, RowsInv
<1>11. CASE ClockTicks
  BY <1>0, <1>11 DEF ClockTicks, BasicInv, TypeOK, RowsInv
<1>12. CASE Crash
  <2>1. /\ failures' \in [Places -> Nat] /\ pc' = "off"
        /\ UNCHANGED <<now, startVars, gapVars, pruneVars, rowVars>>
    BY <1>0, <1>12, CrashCounts
  <2> QED
    BY <1>0, <2>1 DEF BasicInv, TypeOK, RowsInv
<1>13. ASSUME NEW r \in cycles, Ship(r) PROVE BasicInv'
  <2>1. cursor' \in [ts : Nat, id : Nat]
    BY <1>0, <1>13, Fields DEF Ship
  <2> QED
    BY <1>0, <1>13, <2>1 DEF Ship, BasicInv, TypeOK, RowsInv
<1>14. CASE UNCHANGED vars
  BY <1>0, <1>14 DEF vars, BasicInv, TypeOK, RowsInv
<1> QED
  BY <1>1, <1>2, <1>3, <1>4, <1>5, <1>6, <1>7, <1>8, <1>9, <1>10, <1>11, <1>12, <1>13, <1>14
  DEF Next, Start, Tick

LEMMA BasicInvariant == Spec => []BasicInv
<1>1. Init => BasicInv
  <2> SUFFICES ASSUME Init PROVE BasicInv
    OBVIOUS
  <2>1. copies \in [OldTables -> Nat] /\ failures \in [Places -> Nat]
    BY DEF Init
  <2>2. cursor \in [ts : Nat, id : Nat] /\ flushed \in [count : Nat, ts : Nat]
    BY DEF Init
  <2> QED
    BY <2>1, <2>2 DEF Init, BasicInv, TypeOK, RowsInv
<1> QED
  BY <1>1, BasicStep, PTL DEF Spec

(* Every variable keeps its type, and what was shipped is of the rows that *)
(* are there: rowids stay within the number of rows written, so there is   *)
(* always a highest for the next.                                          *)
THEOREM TypeCorrect == Spec => []TypeOK
<1>1. BasicInv => TypeOK
  BY DEF BasicInv
<1> QED
  BY <1>1, BasicInvariant, PTL

-----------------------------------------------------------------------------
(* The migration.  A table that still exists was copied once for each      *)
(* start cut off before its drop, and the one about to be dropped once     *)
(* more.                                                                   *)

CopiesInv ==
  \A t \in OldTables :
    /\ t \in old \/ copies[t] > 0
    /\ t \in KeyedTables => copies[t] <= 1
    /\ copies[t] <= failures["drop"]
         + (IF t \notin old \/ (pc = "drop" /\ t = NextOld) THEN 1 ELSE 0)

StartInv ==
  /\ pc = "drop" => copies[NextOld] > 0
  /\ pc \in {"alter", "fill", "report", "run", "prune"} => old = {}
  /\ pc = "fill" => column = "default"
  /\ pc \in {"report", "run", "prune"} => column # "absent"
  /\ column = "default" => pc = "fill" \/ failures["fill"] > 0

MigrationInv == CopiesInv /\ StartInv

LEMMA MigrationStep ==
  ASSUME BasicInv, MigrationInv, [Next]_vars
  PROVE  MigrationInv'
<1> USE DEF startVars, gapVars, pruneVars, rowVars
<1>0. /\ TypeOK /\ CopiesInv /\ StartInv /\ (pc = "drop" => old # {})
      /\ failures["drop"] \in Nat /\ failures["fill"] \in Nat
      /\ old \subseteq OldTables
      /\ \A t \in OldTables : copies[t] \in Nat
  BY Fields DEF BasicInv, MigrationInv, TypeOK
<1>1. CASE CopyTable
  <2> DEFINE n == NextOld
  <2>1. n \in old /\ n \in OldTables /\ copies \in [OldTables -> Nat]
    BY <1>0, <1>1, NextOldExists DEF CopyTable, TypeOK
  <2>2. /\ copies' = [copies EXCEPT ![n] = Copied(n)] /\ pc = "fold" /\ pc' = "drop"
        /\ UNCHANGED <<old, column, failures>>
    BY <1>1 DEF CopyTable
  <2>3. NextOld' = n
    BY <2>2 DEF NextOld
  <2> HIDE DEF n
  <2>4. copies'[n] = Copied(n) /\ \A t \in OldTables : t # n => copies'[t] = copies[t]
    BY <2>1, <2>2
  <2>5. copies[n] \in Nat /\ copies[n] <= failures["drop"]
    <3>1. copies[n] <= failures["drop"] + (IF n \notin old \/ (pc = "drop" /\ n = NextOld) THEN 1 ELSE 0)
      BY <1>0, <2>1 DEF CopiesInv
    <3> QED
      BY <1>0, <2>1, <2>2, <3>1
  <2>6. /\ Copied(n) \in Nat /\ Copied(n) > 0 /\ Copied(n) <= failures["drop"] + 1
        /\ n \in KeyedTables => Copied(n) <= 1
    <3>1. CASE n \in KeyedTables /\ copies[n] > 0
      <4>1. Copied(n) = copies[n] /\ copies[n] <= 1
        BY <1>0, <2>1, <3>1 DEF Copied, CopiesInv
      <4> QED
        BY <1>0, <2>5, <3>1, <4>1
    <3>2. CASE ~ (n \in KeyedTables /\ copies[n] > 0)
      <4>1. Copied(n) = copies[n] + 1
        BY <3>2 DEF Copied
      <4>2. n \in KeyedTables => copies[n] = 0
        BY <2>5, <3>2
      <4> QED
        BY <1>0, <2>5, <4>1, <4>2
    <3> QED
      BY <3>1, <3>2
  <2>7. ASSUME NEW t \in OldTables
        PROVE  /\ t \in old \/ copies'[t] > 0
               /\ t \in KeyedTables => copies'[t] <= 1
               /\ copies'[t] <= failures["drop"] + (IF t \notin old \/ t = n THEN 1 ELSE 0)
    <3>1. CASE t = n
      BY <2>1, <2>4, <2>6, <3>1
    <3>2. CASE t # n
      <4>1. copies'[t] = copies[t]
        BY <2>4, <3>2
      <4>2. /\ t \in old \/ copies[t] > 0
            /\ t \in KeyedTables => copies[t] <= 1
            /\ copies[t] <= failures["drop"]
                 + (IF t \notin old \/ (pc = "drop" /\ t = NextOld) THEN 1 ELSE 0)
        BY <1>0 DEF CopiesInv
      <4> QED
        BY <2>2, <3>2, <4>1, <4>2
    <3> QED
      BY <3>1, <3>2
  <2>8. CopiesInv'
    BY <2>2, <2>3, <2>7 DEF CopiesInv
  <2>9. StartInv'
    BY <1>0, <2>2, <2>3, <2>4, <2>6 DEF StartInv
  <2> QED
    BY <2>8, <2>9 DEF MigrationInv
<1>2. CASE DropTable
  <2>1. /\ pc = "drop" /\ pc' = "fold" /\ old' = old \ {NextOld}
        /\ UNCHANGED <<copies, column, failures>>
    BY <1>2 DEF DropTable
  <2>2. NextOld \in old /\ copies[NextOld] > 0
    BY <1>0, <2>1, NextOldExists DEF StartInv
  <2>3. CopiesInv'
    BY <1>0, <2>1, <2>2 DEF CopiesInv
  <2>4. StartInv'
    BY <1>0, <2>1 DEF StartInv
  <2> QED
    BY <2>3, <2>4 DEF MigrationInv
<1>3. ASSUME UNCHANGED <<old, copies>>, pc # "drop", pc' # "drop",
             failures'["drop"] \in Nat, failures["drop"] <= failures'["drop"]
      PROVE  CopiesInv'
  <2> SUFFICES ASSUME NEW t \in OldTables
               PROVE  /\ t \in old \/ copies[t] > 0
                      /\ t \in KeyedTables => copies[t] <= 1
                      /\ copies[t] <= failures'["drop"] + (IF t \notin old THEN 1 ELSE 0)
    BY <1>3 DEF CopiesInv
  <2>1. /\ t \in old \/ copies[t] > 0
        /\ t \in KeyedTables => copies[t] <= 1
        /\ copies[t] <= failures["drop"] + (IF t \notin old THEN 1 ELSE 0)
    BY <1>0, <1>3 DEF CopiesInv
  <2> QED
    BY <1>0, <1>3, <2>1
<1>4. CASE Begin \/ Folded \/ AddColumn \/ Backfill
  <2>1. CopiesInv'
    BY <1>0, <1>3, <1>4 DEF Begin, Folded, AddColumn, Backfill
  <2>2. StartInv'
    BY <1>0, <1>4 DEF Begin, Folded, AddColumn, Backfill, StartInv, TypeOK
  <2> QED
    BY <2>1, <2>2 DEF MigrationInv
<1>5. CASE UNCHANGED <<pc, old, copies, column, failures>>
  <2>1. NextOld' = NextOld
    BY <1>5 DEF NextOld
  <2> QED
    BY <1>5, <2>1 DEF MigrationInv, CopiesInv, StartInv
<1>6. CASE PruneChildren \/ PruneCycles
  <2>1. CopiesInv'
    BY <1>0, <1>3, <1>6 DEF PruneChildren, PruneCycles
  <2>2. StartInv'
    BY <1>0, <1>6 DEF PruneChildren, PruneCycles, StartInv
  <2> QED
    BY <2>1, <2>2 DEF MigrationInv
<1>7. ASSUME NEW succeeds \in BOOLEAN, ReportGap(succeeds) PROVE MigrationInv'
  <2>1. /\ pc = "report" /\ pc' = "run" /\ UNCHANGED <<old, copies, column>>
        /\ failures' \in [Places -> Nat]
        /\ \A place \in Places : failures[place] <= failures'[place]
    BY <1>0, <1>7, ReportEffect
  <2>2. /\ failures'["drop"] \in Nat /\ failures["drop"] <= failures'["drop"]
        /\ failures'["fill"] \in Nat /\ failures["fill"] <= failures'["fill"]
    BY <2>1 DEF Places
  <2>3. CopiesInv'
    BY <1>3, <2>1, <2>2
  <2>4. StartInv'
    BY <1>0, <2>1, <2>2 DEF StartInv
  <2> QED
    BY <2>3, <2>4 DEF MigrationInv
<1>8. CASE Crash
  <2>1. /\ pc' = "off" /\ UNCHANGED <<old, copies, column>>
        /\ failures' \in [Places -> Nat]
        /\ \A place \in Places : failures[place] <= failures'[place]
        /\ pc \in {"drop", "fill"} => failures'[pc] = failures[pc] + 1
    BY <1>0, <1>8, CrashCounts
  <2>2. /\ failures'["drop"] \in Nat /\ failures["drop"] <= failures'["drop"]
        /\ failures'["fill"] \in Nat /\ failures["fill"] <= failures'["fill"]
        /\ pc = "drop" => failures'["drop"] = failures["drop"] + 1
        /\ pc = "fill" => failures'["fill"] = failures["fill"] + 1
    BY <2>1 DEF Places
  <2>3. CopiesInv'
    <3> SUFFICES ASSUME NEW t \in OldTables
                 PROVE  /\ t \in old \/ copies[t] > 0
                        /\ t \in KeyedTables => copies[t] <= 1
                        /\ copies[t] <= failures'["drop"] + (IF t \notin old THEN 1 ELSE 0)
      BY <2>1 DEF CopiesInv
    <3>1. /\ t \in old \/ copies[t] > 0
          /\ t \in KeyedTables => copies[t] <= 1
          /\ copies[t] <= failures["drop"]
               + (IF t \notin old \/ (pc = "drop" /\ t = NextOld) THEN 1 ELSE 0)
      BY <1>0 DEF CopiesInv
    <3> QED
      BY <1>0, <2>2, <3>1
  <2>4. StartInv'
    BY <1>0, <2>1, <2>2 DEF StartInv
  <2> QED
    BY <2>3, <2>4 DEF MigrationInv
<1>9. ASSUME NEW k \in Keys, NEW e \in Times, FlushInterval(k, e)
      PROVE  UNCHANGED <<pc, old, copies, column, failures>>
  BY <1>9 DEF FlushInterval
<1>10. ASSUME NEW r \in cycles, Ship(r) PROVE UNCHANGED <<pc, old, copies, column, failures>>
  BY <1>10 DEF Ship
<1>11. MarkAlive \/ ClockTicks \/ UNCHANGED vars => UNCHANGED <<pc, old, copies, column, failures>>
  BY DEF MarkAlive, ClockTicks, vars
<1> QED
  BY <1>1, <1>2, <1>4, <1>5, <1>6, <1>7, <1>8, <1>9, <1>10, <1>11 DEF Next, Start, Tick

(* Wherever the start is cut off and however often it is repeated, every   *)
(* old row is in its table or in rollups; it is there once, except that a  *)
(* row without a dim_key may be there once more for each start cut off     *)
(* between its copy and the drop; and only a start cut off between a new   *)
(* column and its values leaves the default in it.                         *)
THEOREM HistoryKept == Spec => []MigrationKeepsHistory
<1>1. Init => MigrationInv
  BY DEF Init, MigrationInv, CopiesInv, StartInv, Places
<1>2. BasicInv /\ MigrationInv => MigrationKeepsHistory
  <2> SUFFICES ASSUME BasicInv, MigrationInv PROVE MigrationKeepsHistory
    OBVIOUS
  <2>1. failures["drop"] \in Nat /\ \A t \in OldTables : copies[t] \in Nat
    BY Fields DEF BasicInv
  <2>2. \A t \in OldTables : copies[t] <= failures["drop"] + 1
    <3> TAKE t \in OldTables
    <3>1. copies[t] <= failures["drop"]
            + (IF t \notin old \/ (pc = "drop" /\ t = NextOld) THEN 1 ELSE 0)
      BY DEF MigrationInv, CopiesInv
    <3> QED
      BY <2>1, <3>1
  <2>3. column \in {"absent", "default", "filled"}
    BY DEF BasicInv, TypeOK
  <2> QED
    BY <2>1, <2>2, <2>3 DEF MigrationInv, CopiesInv, StartInv, MigrationKeepsHistory
<1> QED
  BY <1>1, <1>2, BasicInvariant, MigrationStep, PTL DEF Spec

-----------------------------------------------------------------------------
(* Gaps and heartbeats.  The last heartbeat is the youngest, and the time  *)
(* between it and the start of the process now running is in a gap.        *)

BeatsInv ==
  /\ 1 <= now /\ started <= now /\ lastAlive <= now
  /\ \A b \in beats : 1 <= b.at /\ b.born <= b.at /\ b.at <= lastAlive /\ b.born <= started
  /\ lastAlive > 0 => \E b \in beats : b.at = lastAlive

Reported(a, born) ==
  born - a.at > 2 => [from |-> a.at, to |-> born] \in gaps \/ failures["unreported"] > 0

LifeReported ==
  \A a \in beats :
    a.born < started /\ (\A c \in beats : c.born < started => c.at <= a.at)
      => Reported(a, started)

GapsInv ==
  /\ BeatsInv
  /\ \A g \in gaps : g.to <= started /\ (g.from = lastAlive \/ g.to <= lastAlive)
  /\ LifeReported
  /\ GapsAreAbsences

LEMMA GapReported ==
  ASSUME BasicInv, GapsInv, NEW succeeds \in BOOLEAN, ReportGap(succeeds)
  PROVE  GapsInv'
<1> DEFINE new == [from |-> lastAlive, to |-> now]
<1>0. /\ now \in Nat /\ started \in Nat /\ lastAlive \in Nat
      /\ \A g \in gaps : g.from \in Nat /\ g.to \in Nat
      /\ \A b \in beats : b.at \in Nat /\ b.born \in Nat
      /\ failures["unreported"] \in Nat
  BY Fields DEF BasicInv, TypeOK
<1>1. /\ started' = now /\ UNCHANGED <<now, lastAlive, beats>>
      /\ gaps' = gaps \/ (Absent /\ gaps' = gaps \cup {new})
      /\ failures["unreported"] <= failures'["unreported"] /\ failures'["unreported"] \in Nat
      /\ Absent => new \in gaps' \/ failures'["unreported"] > 0
  BY ReportEffect DEF BasicInv, Places
<1>2. new.from = lastAlive /\ new.to = now /\ (Absent => lastAlive < now)
  BY <1>0 DEF Absent
<1> HIDE DEF new
<1>3. \A g \in gaps' : g \in gaps \/ (g = new /\ Absent)
  BY <1>1
<1>4. BeatsInv'
  BY <1>0, <1>1 DEF GapsInv, BeatsInv
<1>5. \A g \in gaps' : g.to <= now /\ (g.from = lastAlive \/ g.to <= lastAlive)
  BY <1>0, <1>2, <1>3 DEF GapsInv, BeatsInv
<1>6. \A a, b : Reported(a, b) => Reported(a, b)'
  BY <1>0, <1>1 DEF Reported
<1>7. ASSUME NEW a \in beats, a.born < now, \A c \in beats : c.born < now => c.at <= a.at,
             now - a.at > 2
      PROVE  [from |-> a.at, to |-> now] \in gaps' \/ failures'["unreported"] > 0
  <2>1. CASE \E c \in beats : c.born = now
    <3>1. PICK c \in beats : c.born = now
      BY <2>1
    <3>2. started = now
      BY <1>0, <3>1 DEF GapsInv, BeatsInv
    <3>3. Reported(a, now)
      BY <1>7, <3>2 DEF GapsInv, LifeReported
    <3> QED
      BY <1>6, <1>7, <3>3 DEF Reported
  <2>2. CASE ~ \E c \in beats : c.born = now
    <3>1. \A c \in beats : c.born < now
      <4> TAKE c \in beats
      <4>1. c.born <= started /\ started <= now /\ c.born # now
        BY <2>2 DEF GapsInv, BeatsInv
      <4> QED
        BY <1>0, <4>1
    <3>2. lastAlive > 0 /\ a.at <= lastAlive
      <4>1. 1 <= a.at /\ a.at <= lastAlive
        BY DEF GapsInv, BeatsInv
      <4> QED
        BY <1>0, <4>1
    <3>3. lastAlive <= a.at
      <4>1. PICK c \in beats : c.at = lastAlive
        BY <3>2 DEF GapsInv, BeatsInv
      <4> QED
        BY <1>7, <3>1, <4>1
    <3>4. a.at = lastAlive
      BY <1>0, <3>2, <3>3
    <3>5. Absent
      BY <1>7, <3>2, <3>4 DEF Absent
    <3> QED
      BY <1>1, <3>4, <3>5 DEF new
  <2> QED
    BY <2>1, <2>2
<1>8. LifeReported'
  BY <1>1, <1>7 DEF LifeReported, Reported
<1>9. GapsAreAbsences'
  <2>1. ASSUME NEW g \in gaps', NEW b \in beats PROVE ~(g.from < b.at /\ b.at < g.to)
    <3>1. CASE g \in gaps
      BY <3>1 DEF GapsInv, GapsAreAbsences
    <3>2. CASE g = new
      BY <1>0, <1>2, <3>2 DEF GapsInv, BeatsInv
    <3> QED
      BY <1>3, <3>1, <3>2
  <2>2. ASSUME NEW g \in gaps', NEW h \in gaps'
        PROVE  g.from = h.from \/ g.to <= h.from \/ h.to <= g.from
    <3>1. CASE g \in gaps /\ h \in gaps
      BY <3>1 DEF GapsInv, GapsAreAbsences
    <3>2. CASE g = new
      BY <1>2, <1>5, <3>2
    <3>3. CASE h = new
      BY <1>2, <1>5, <3>3
    <3> QED
      BY <1>3, <3>1, <3>2, <3>3
  <2>3. ASSUME NEW a \in beats, NEW b \in beats, LastBefore(a, b), b.born - a.at > 2
        PROVE  [from |-> a.at, to |-> b.born] \in gaps' \/ failures'["unreported"] > 0
    <3>1. Reported(a, b.born)
      BY <2>3 DEF GapsInv, GapsAreAbsences, Reported
    <3> QED
      BY <1>6, <2>3, <3>1 DEF Reported
  <2>4. \A a, b : LastBefore(a, b)' <=> LastBefore(a, b)
    BY <1>1 DEF LastBefore
  <2> QED
    BY <1>1, <2>1, <2>2, <2>3, <2>4 DEF GapsAreAbsences
<1> QED
  BY <1>1, <1>4, <1>5, <1>8, <1>9 DEF GapsInv

LEMMA BeatSaved ==
  ASSUME BasicInv, GapsInv, MarkAlive
  PROVE  GapsInv'
<1> DEFINE new == [at |-> now, born |-> started]
<1>0. /\ now \in Nat /\ started \in Nat /\ lastAlive \in Nat
      /\ \A g \in gaps : g.from \in Nat /\ g.to \in Nat
      /\ \A b \in beats : b.at \in Nat /\ b.born \in Nat
  BY Fields DEF BasicInv, TypeOK
<1>1. /\ lastAlive' = now /\ beats' = beats \cup {new} /\ UNCHANGED <<now, started, gaps, failures>>
  BY DEF MarkAlive
<1>2. new.at = now /\ new.born = started
  OBVIOUS
<1> HIDE DEF new
<1>3. 1 <= now /\ started <= now /\ lastAlive <= now
  BY DEF GapsInv, BeatsInv
<1>4. BeatsInv'
  <2>1. \A b \in beats' : 1 <= b.at /\ b.born <= b.at /\ b.at <= now /\ b.born <= started
    <3> TAKE b \in beats'
    <3>1. CASE b \in beats
      <4>1. 1 <= b.at /\ b.born <= b.at /\ b.at <= lastAlive /\ b.born <= started
        BY <3>1 DEF GapsInv, BeatsInv
      <4> QED
        BY <1>0, <1>3, <3>1, <4>1
    <3>2. CASE b = new
      BY <1>0, <1>2, <1>3, <3>2
    <3> QED
      BY <1>1, <3>1, <3>2
  <2> QED
    BY <1>0, <1>1, <1>2, <1>3, <2>1 DEF BeatsInv
<1>5. \A g \in gaps : g.to <= started /\ g.to <= now
  BY <1>0, <1>3 DEF GapsInv
<1>6. \A a, b : Reported(a, b)' <=> Reported(a, b)
  BY <1>1 DEF Reported
<1>7. \A b \in beats' : b \in beats \/ b = new
  BY <1>1
<1>8. \A b \in beats' : ~ (started < b.born) /\ b.born \in Nat
  BY <1>0, <1>2, <1>7 DEF GapsInv, BeatsInv
<1>9. LifeReported'
  <2> SUFFICES ASSUME NEW a \in beats', a.born < started,
                      \A c \in beats' : c.born < started => c.at <= a.at
               PROVE  Reported(a, started)
    BY <1>1, <1>6 DEF LifeReported
  <2>1. a \in beats /\ \A c \in beats : c \in beats'
    BY <1>0, <1>1, <1>2, <1>7
  <2> QED
    BY <2>1 DEF GapsInv, LifeReported
<1>10. GapsAreAbsences'
  <2>1. ASSUME NEW g \in gaps, NEW b \in beats' PROVE ~(g.from < b.at /\ b.at < g.to)
    <3>1. CASE b \in beats
      BY <3>1 DEF GapsInv, GapsAreAbsences
    <3>2. CASE b = new
      BY <1>0, <1>2, <1>5, <3>2
    <3> QED
      BY <1>7, <3>1, <3>2
  <2>2. ASSUME NEW a \in beats', NEW b \in beats', LastBefore(a, b)'
        PROVE  Reported(a, b.born)
    <3>1. a.born < b.born /\ \A c \in beats' : c.born < b.born => c.at <= a.at
      BY <2>2 DEF LastBefore
    <3>2. a \in beats
      BY <1>2, <1>7, <1>8, <3>1
    <3>3. CASE b \in beats
      <4>1. LastBefore(a, b)
        BY <1>1, <3>1 DEF LastBefore
      <4> QED
        BY <3>2, <3>3, <4>1 DEF GapsInv, GapsAreAbsences, Reported
    <3>4. CASE b = new
      <4>1. \A c \in beats : c.born < started => c.at <= a.at
        BY <1>1, <1>2, <3>1, <3>4
      <4> QED
        BY <1>2, <3>1, <3>2, <3>4, <4>1 DEF GapsInv, LifeReported
    <3> QED
      BY <1>7, <3>3, <3>4
  <2>3. \A g, h \in gaps : g.from = h.from \/ g.to <= h.from \/ h.to <= g.from
    BY DEF GapsInv, GapsAreAbsences
  <2> QED
    BY <1>1, <2>1, <2>2, <2>3 DEF GapsAreAbsences, Reported
<1> QED
  BY <1>1, <1>4, <1>5, <1>9, <1>10 DEF GapsInv

LEMMA GapsStep ==
  ASSUME BasicInv, GapsInv, [Next]_vars
  PROVE  GapsInv'
<1> USE DEF startVars, gapVars, pruneVars, rowVars
<1>0. now \in Nat /\ started \in Nat /\ lastAlive \in Nat /\ failures["unreported"] \in Nat
  BY Fields DEF BasicInv, TypeOK
<1>1. ASSUME UNCHANGED <<started, lastAlive, gaps, beats>>, now' \in {now, now + 1},
             failures["unreported"] <= failures'["unreported"], failures'["unreported"] \in Nat
      PROVE  GapsInv'
  <2>1. BeatsInv'
    BY <1>0, <1>1 DEF GapsInv, BeatsInv
  <2>2. \A a, b : Reported(a, b) => Reported(a, b)'
    BY <1>0, <1>1 DEF Reported
  <2>3. LifeReported'
    BY <1>1, <2>2 DEF GapsInv, LifeReported
  <2>4. GapsAreAbsences'
    <3>1. \A a, b : LastBefore(a, b)' <=> LastBefore(a, b)
      BY <1>1 DEF LastBefore
    <3>2. \A a, b \in beats : LastBefore(a, b) => Reported(a, b.born)
      BY DEF GapsInv, GapsAreAbsences, Reported
    <3>3. \A a, b \in beats : LastBefore(a, b) => Reported(a, b.born)'
      BY <1>1, <2>2, <3>2 DEF Reported
    <3> QED
      BY <1>1, <3>1, <3>3 DEF GapsInv, GapsAreAbsences, Reported
  <2> QED
    BY <1>1, <2>1, <2>3, <2>4 DEF GapsInv
<1>2. CASE Begin \/ CopyTable \/ DropTable \/ Folded \/ AddColumn \/ Backfill
  BY <1>0, <1>1, <1>2 DEF Begin, CopyTable, DropTable, Folded, AddColumn, Backfill
<1>3. ASSUME NEW k \in Keys, NEW e \in Times, FlushInterval(k, e) PROVE GapsInv'
  BY <1>0, <1>1, <1>3 DEF FlushInterval
<1>4. CASE PruneChildren \/ PruneCycles \/ ClockTicks \/ UNCHANGED vars
  BY <1>0, <1>1, <1>4 DEF PruneChildren, PruneCycles, ClockTicks, vars
<1>5. CASE Crash
  <2>1. /\ UNCHANGED <<now, gapVars>> /\ failures' \in [Places -> Nat]
        /\ \A place \in Places : failures[place] <= failures'[place]
    BY <1>5, CrashCounts DEF BasicInv
  <2> QED
    BY <1>1, <2>1 DEF Places
<1>6. ASSUME NEW r \in cycles, Ship(r) PROVE GapsInv'
  BY <1>0, <1>1, <1>6 DEF Ship
<1> QED
  BY <1>2, <1>3, <1>4, <1>5, <1>6, GapReported, BeatSaved DEF Next, Start, Tick

(* Missing data can be told from an idle machine: no gap covers a          *)
(* heartbeat, gaps overlap only when they begin at the same one, and a     *)
(* process that came to a heartbeat and had begun long after the last one  *)
(* before it reported the time between, unless RecordGap failed.           *)
THEOREM GapsTrue == Spec => []GapsAreAbsences
<1>1. Init => GapsInv
  BY DEF Init, GapsInv, BeatsInv, LifeReported, GapsAreAbsences
<1>2. GapsInv => GapsAreAbsences
  BY DEF GapsInv
<1> QED
  BY <1>1, <1>2, BasicInvariant, GapsStep, PTL DEF Spec

-----------------------------------------------------------------------------
(* Retention.  The timeline does not go back, a cutoff neither once it is  *)
(* past the beginning; the cursor is at a row that is there or was old     *)
(* enough to be pruned.                                                    *)

CyclesInv ==
  /\ \A r, q \in cycles : r.id = q.id => r = q
  /\ 1 <= flushed.ts /\ flushed.ts <= now
  /\ \A r \in cycles : r.ts <= flushed.ts
  /\ cutoff <= 0 \/ cutoff <= now - Retention
  /\ cursor.ts <= flushed.ts
  /\ \/ cursor.ts = 0 \/ cursor.ts < cutoff
     \/ \E r \in cycles : r.ts = cursor.ts /\ r.id = cursor.id
  /\ OnlyExpiredRowsAreLost

LEMMA FlushKeepsCycles ==
  ASSUME BasicInv, CyclesInv, NEW k \in Keys, NEW e \in Times, FlushInterval(k, e)
  PROVE  CyclesInv'
<1>0. TypeOK /\ RowsInv
  BY DEF BasicInv
<1>1. /\ e \in Nat /\ 1 <= e /\ flushed.ts <= e /\ e <= now
      /\ cycles \subseteq cycles'
      /\ \A r \in cycles' : r \notin cycles =>
           r = [id |-> NextId, key |-> k, ts |-> e] /\ r.id = NextId /\ r.ts = e
      /\ \E r \in cycles' : r.key = k
      /\ children' = children \cup {[key |-> k, ts |-> e]}
      /\ flushed'.ts = e
      /\ UNCHANGED <<now, cutoff, cursor, shipped, lost>>
  BY <1>0, FlushEffect DEF pruneVars
<1>2. NextId \in Nat /\ \A r \in cycles : r.id < NextId /\ r.id \in Nat /\ r.ts \in Nat
  <2>1. flushed.count \in Nat /\ NextId \in 1 .. flushed.count + 1
    BY <1>0, FreshId, Fields
  <2> QED
    BY <1>0, <2>1, FreshId, Fields
<1>3. /\ now \in Nat /\ cutoff \in Int /\ flushed.ts \in Nat /\ cursor.ts \in Nat /\ cursor.id \in Nat
  BY <1>0, Fields DEF TypeOK
<1>4. \A r, q \in cycles' : r.id = q.id => r = q
  <2> SUFFICES ASSUME NEW r \in cycles', NEW q \in cycles', r.id = q.id PROVE r = q
    OBVIOUS
  <2>1. CASE r \in cycles /\ q \in cycles
    BY <2>1 DEF CyclesInv
  <2>2. CASE r \in cycles /\ q \notin cycles
    <3>1. r.id < NextId /\ q.id = NextId
      BY <1>1, <1>2, <2>2
    <3> QED
      BY <1>2, <3>1
  <2>3. CASE r \notin cycles /\ q \in cycles
    <3>1. q.id < NextId /\ r.id = NextId
      BY <1>1, <1>2, <2>3
    <3> QED
      BY <1>2, <3>1
  <2>4. CASE r \notin cycles /\ q \notin cycles
    BY <1>1, <2>4
  <2> QED
    BY <2>1, <2>2, <2>3, <2>4
<1>5. \A r \in cycles' : r.ts <= e
  <2> TAKE r \in cycles'
  <2>1. CASE r \in cycles
    BY <1>1, <1>2, <1>3, <2>1 DEF CyclesInv
  <2>2. CASE r \notin cycles
    BY <1>1, <2>2
  <2> QED
    BY <2>1, <2>2
<1>6. cursor.ts <= e
  BY <1>1, <1>3 DEF CyclesInv
<1>7. ASSUME NEW r \in cycles', r \notin shipped, ~Later(r, cursor)
      PROVE  r.ts < cutoff
  <2>1. CASE r \in cycles
    BY <1>7, <2>1 DEF CyclesInv, OnlyExpiredRowsAreLost
  <2>2. CASE r \notin cycles
    <3>1. r.ts = e /\ r.id = NextId /\ cursor.ts = e /\ ~ NextId > cursor.id
      BY <1>1, <1>2, <1>3, <1>6, <1>7, <2>2 DEF Later
    <3>2. ~ \E q \in cycles : q.ts = cursor.ts /\ q.id = cursor.id
      BY <1>2, <1>3, <3>1
    <3>3. cursor.ts # 0
      BY <1>1, <3>1
    <3> QED
      BY <3>1, <3>2, <3>3 DEF CyclesInv
  <2> QED
    BY <2>1, <2>2
<1>8. ASSUME NEW c \in children' PROVE \E r \in cycles' : r.key = c.key
  <2>1. CASE c \in children
    BY <1>1, <2>1 DEF CyclesInv, OnlyExpiredRowsAreLost, HasCycle
  <2>2. CASE c \notin children
    BY <1>1, <2>2
  <2> QED
    BY <2>1, <2>2
<1>9. \A r : Later(r, cursor)' <=> Later(r, cursor)
  BY <1>1 DEF Later
<1>10. OnlyExpiredRowsAreLost'
  BY <1>1, <1>7, <1>8, <1>9 DEF CyclesInv, OnlyExpiredRowsAreLost, HasCycle
<1> QED
  BY <1>1, <1>4, <1>5, <1>6, <1>10 DEF CyclesInv

LEMMA ShipKeepsCycles ==
  ASSUME BasicInv, CyclesInv, NEW s \in cycles, Ship(s)
  PROVE  CyclesInv'
<1>1. /\ Later(s, cursor) /\ \A other \in cycles : Later(other, cursor) => ~Later(s, other)
      /\ cursor' = [ts |-> s.ts, id |-> s.id] /\ shipped' = shipped \cup {s}
      /\ UNCHANGED <<now, cutoff, cycles, children, lost, flushed>>
  BY DEF Ship, pruneVars
<1>2. \A r \in cycles : r.id \in Nat /\ r.ts \in Nat
  BY Fields DEF BasicInv
<1>3. cursor.ts \in Nat /\ cursor.id \in Nat
  BY Fields DEF BasicInv
<1>4. cursor'.ts = s.ts /\ cursor'.id = s.id
  BY <1>1
<1>5. ASSUME NEW r \in cycles, r \notin shipped', ~Later(r, s)
      PROVE  r.ts < cutoff
  <2>1. r # s /\ r \notin shipped
    BY <1>1, <1>5
  <2>2. CASE ~Later(r, cursor)
    BY <2>1, <2>2 DEF CyclesInv, OnlyExpiredRowsAreLost
  <2>3. CASE Later(r, cursor)
    <3>1. ~Later(s, r)
      BY <1>1, <2>3
    <3>2. r.id = s.id
      BY <1>2, <1>5, <3>1 DEF Later
    <3> QED
      BY <2>1, <3>2 DEF CyclesInv
  <2> QED
    BY <2>2, <2>3
<1>6. \A r : Later(r, cursor)' <=> Later(r, s)
  BY <1>4 DEF Later
<1>7. OnlyExpiredRowsAreLost'
  BY <1>1, <1>5, <1>6 DEF CyclesInv, OnlyExpiredRowsAreLost, HasCycle
<1> QED
  BY <1>1, <1>4, <1>7 DEF CyclesInv

LEMMA PruneKeepsCycles ==
  ASSUME BasicInv, CyclesInv, PruneCycles
  PROVE  CyclesInv'
<1>1. /\ cycles' \subseteq cycles
      /\ \A r \in cycles : r \notin cycles' => r.ts < cutoff /\ ~Held
      /\ shipped' = shipped \cap cycles'
      /\ lost' = lost \cup {r.ts : r \in cycles \ (cycles' \cup shipped)}
      /\ UNCHANGED <<now, cutoff, children, cursor, flushed>>
  BY PruneEffect DEF BasicInv, Expired
<1>2. \A c \in children : \E r \in cycles' : r.key = c.key
  <2> TAKE c \in children
  <2>1. PICK r \in cycles : r.key = c.key
    BY DEF CyclesInv, OnlyExpiredRowsAreLost, HasCycle
  <2>2. CASE r \in cycles'
    BY <2>1, <2>2
  <2>3. CASE r \notin cycles'
    BY <1>1, <2>1, <2>3 DEF Held, Expired
  <2> QED
    BY <2>2, <2>3
<1>3. \A r : Later(r, cursor)' <=> Later(r, cursor)
  BY <1>1 DEF Later
<1>4. \A ts \in lost' : ts < cutoff
  BY <1>1 DEF CyclesInv, OnlyExpiredRowsAreLost
<1>5. \A r \in cycles' \ shipped' : ~Later(r, cursor) => r.ts < cutoff
  BY <1>1 DEF CyclesInv, OnlyExpiredRowsAreLost
<1>6. OnlyExpiredRowsAreLost'
  BY <1>1, <1>2, <1>3, <1>4, <1>5 DEF OnlyExpiredRowsAreLost, HasCycle
<1>7. \/ cursor.ts = 0 \/ cursor.ts < cutoff
      \/ \E r \in cycles' : r.ts = cursor.ts /\ r.id = cursor.id
  BY <1>1 DEF CyclesInv
<1> QED
  BY <1>1, <1>6, <1>7 DEF CyclesInv

LEMMA CyclesStep ==
  ASSUME BasicInv, CyclesInv, [Next]_vars
  PROVE  CyclesInv'
<1> USE DEF startVars, gapVars, pruneVars, rowVars
<1>0. /\ now \in Nat /\ cutoff \in Int /\ Retention \in Nat /\ lost \subseteq Nat
      /\ \A r \in cycles : r.ts \in Nat
      /\ flushed.ts \in Nat /\ cursor.ts \in Nat
  BY Fields, ServiceConstants DEF BasicInv, TypeOK, ServiceConstants
<1>1. CASE UNCHANGED <<now, cutoff, rowVars>>
  BY <1>1 DEF CyclesInv, OnlyExpiredRowsAreLost, HasCycle, Later
<1>2. CASE ClockTicks
  <2>1. now' = now + 1 /\ UNCHANGED <<cutoff, rowVars>>
    BY <1>2 DEF ClockTicks
  <2>2. OnlyExpiredRowsAreLost'
    BY <2>1 DEF CyclesInv, OnlyExpiredRowsAreLost, HasCycle, Later
  <2> QED
    BY <1>0, <2>1, <2>2 DEF CyclesInv
<1>3. CASE PruneChildren
  <2>1. /\ cutoff' = now - Retention /\ children' \subseteq children
        /\ UNCHANGED <<now, cycles, cursor, shipped, lost, flushed>>
    BY <1>3 DEF PruneChildren
  <2>2. \A ts \in Nat : ts < cutoff => ts < cutoff'
    BY <1>0, <2>1 DEF CyclesInv
  <2>3. OnlyExpiredRowsAreLost'
    BY <1>0, <2>1, <2>2 DEF CyclesInv, OnlyExpiredRowsAreLost, HasCycle, Later
  <2> QED
    BY <1>0, <2>1, <2>2, <2>3 DEF CyclesInv
<1>4. CASE Begin \/ CopyTable \/ DropTable \/ Folded \/ AddColumn \/ Backfill \/ MarkAlive \/ Crash
  BY <1>1, <1>4 DEF Begin, CopyTable, DropTable, Folded, AddColumn, Backfill, MarkAlive, Crash
<1>5. ASSUME NEW succeeds \in BOOLEAN, ReportGap(succeeds) PROVE CyclesInv'
  BY <1>1, <1>5 DEF ReportGap
<1>6. CASE UNCHANGED vars
  BY <1>1, <1>6 DEF vars
<1> QED
  BY <1>2, <1>3, <1>4, <1>5, <1>6, FlushKeepsCycles, ShipKeepsCycles, PruneKeepsCycles
  DEF Next, Start, Tick

(* A row of cycles is never shipped only if it is older than the retention *)
(* window, although Prune asks no cursor, frees rowids that are given      *)
(* again, and may stop half-way: what gets the rowid of a pruned row at    *)
(* the cursor's own time is itself already expired.  A child is never      *)
(* without its cycle.                                                      *)
THEOREM OnlyExpiredLost == Spec => []OnlyExpiredRowsAreLost
<1>1. Init => CyclesInv
  BY DEF Init, CyclesInv, OnlyExpiredRowsAreLost
<1>2. CyclesInv => OnlyExpiredRowsAreLost
  BY DEF CyclesInv
<1> QED
  BY <1>1, <1>2, BasicInvariant, CyclesStep, PTL DEF Spec
=============================================================================

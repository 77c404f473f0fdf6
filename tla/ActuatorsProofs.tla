--------------------------- MODULE ActuatorsProofs ---------------------------
(***************************************************************************)
(* Theorems of Actuators, for any number of pulses, intervals, failures    *)
(* and any batch size: what the cursor passes, how often a pulse is        *)
(* written, and which dwell it is linked to.                               *)
(***************************************************************************)
EXTENDS Actuators, SequenceTheorems, FiniteSetTheorems, TLAPS

-----------------------------------------------------------------------------
(* What a step does, in terms of rows and positions. *)

LEMMA Fields ==
  ASSUME TypeOK
  PROVE  /\ Len(src) \in Nat /\ DOMAIN src = 1 .. Len(src)
         /\ \A i \in 1 .. Len(src) : src[i] \in PulseRow
         /\ Len(pulses) \in Nat /\ DOMAIN pulses = 1 .. Len(pulses)
         /\ \A p \in 1 .. Len(pulses) : pulses[p] \in WrittenRow
         /\ todo \subseteq 1 .. Len(src)
         /\ now \in Nat /\ high \in Nat /\ cursor \in Nat /\ failures \in Nat
BY LenProperties, ElementOfSeq DEF TypeOK

LEMMA EndsNat ==
  ASSUME TypeOK
  PROVE  /\ \A i \in DOMAIN src : i \in Nat /\ src[i].start \in Nat /\ src[i].end \in Nat
         /\ \A i \in Closed : i \in DOMAIN src /\ src[i].end # Open
BY Fields DEF PulseRow, Closed

(* The controller's steps: rows are appended, an open end is filled in. *)
LEMMA ControllerEffect ==
  ASSUME TypeOK, Controller
  PROVE  /\ now' \in Nat /\ now <= now'
         /\ src' \in Seq(PulseRow) /\ Len(src) <= Len(src')
         /\ \A i \in 1 .. Len(src) :
              /\ src'[i].key = src[i].key /\ src'[i].start = src[i].start
              /\ src'[i].end = src[i].end \/ (src[i].end = Open /\ src'[i].end = now)
         /\ \A i \in 1 .. Len(src') : i \notin 1 .. Len(src) => src'[i].end = Open
         /\ UNCHANGED <<parentVars, drainVars, cursor, pulses, failures>>
<1>1. ASSUME NEW k \in PulseKeys, TurnsOn(k)
      PROVE  /\ now' = now /\ src' \in Seq(PulseRow) /\ Len(src') = Len(src) + 1
             /\ \A i \in 1 .. Len(src) : src'[i] = src[i]
             /\ src'[Len(src) + 1].end = Open
  <2> DEFINE row == [key |-> k, start |-> now, end |-> Open]
  <2>1. row \in PulseRow
    BY Fields, ActuatorConstants DEF ActuatorConstants, PulseRow, Open
  <2>2. src' = Append(src, row) /\ now' = now /\ row.end = Open
    BY <1>1 DEF TurnsOn
  <2> HIDE DEF row
  <2> QED
    BY <2>1, <2>2, AppendProperties DEF TypeOK
<1>2. ASSUME NEW k \in DOMAIN src, TurnsOff(k)
      PROVE  /\ now' = now /\ src' \in Seq(PulseRow) /\ Len(src') = Len(src)
             /\ \A i \in 1 .. Len(src) : i # k => src'[i] = src[i]
             /\ src'[k].key = src[k].key /\ src'[k].start = src[k].start
             /\ src[k].end = Open /\ src'[k].end = now
  <2> DEFINE row == [src[k] EXCEPT !.end = now]
  <2>1. src[k] \in PulseRow /\ k \in 1 .. Len(src)
    BY Fields
  <2>2. /\ row \in PulseRow /\ row.key = src[k].key /\ row.start = src[k].start
        /\ row.end = now
    BY <2>1, Fields DEF PulseRow
  <2>3. src' = [src EXCEPT ![k] = row] /\ now' = now /\ src[k].end = Open
    BY <1>2 DEF TurnsOff
  <2> HIDE DEF row
  <2> QED
    BY <2>1, <2>2, <2>3, ExceptSeq DEF TypeOK
<1>3. CASE ClockTicks
  BY <1>3, Fields DEF ClockTicks, TypeOK, parentVars, drainVars
<1>4. UNCHANGED <<parentVars, drainVars, cursor, pulses, failures>>
  BY DEF Controller, TurnsOn, TurnsOff, ClockTicks
<1>5. CASE \E k \in PulseKeys : TurnsOn(k)
  BY <1>1, <1>4, <1>5, Fields
<1>6. CASE \E k \in DOMAIN src : TurnsOff(k)
  BY <1>2, <1>4, <1>6, Fields
<1> QED
  BY <1>3, <1>5, <1>6 DEF Controller

LEMMA AttributeEffect ==
  ASSUME TypeOK, AttributeActuatorPulses
  PROVE  /\ pulses' \in Seq(WrittenRow) /\ Len(pulses') = Len(pulses)
         /\ \A p \in 1 .. Len(pulses) :
              /\ pulses'[p].src = pulses[p].src
              /\ \/ pulses'[p].seq = pulses[p].seq
                 \/ /\ pulses[p].seq = NoSeq
                    /\ \E d \in dwells :
                         FirstCovering(pulses[p].src, d) /\ pulses'[p].seq = d.seq
<1>1. PICK choice \in [DOMAIN pulses -> {d.seq : d \in dwells} \cup {NoSeq}] :
        /\ \A p \in DOMAIN pulses :
             IF pulses[p].seq # NoSeq THEN choice[p] = pulses[p].seq
             ELSE IF Covering(pulses[p].src) = {} THEN choice[p] = NoSeq
             ELSE \E d \in dwells : FirstCovering(pulses[p].src, d) /\ choice[p] = d.seq
        /\ pulses' = [p \in DOMAIN pulses |-> [pulses[p] EXCEPT !.seq = choice[p]]]
  BY DEF AttributeActuatorPulses
<1> DEFINE n == Len(pulses)
           e(p) == [pulses[p] EXCEPT !.seq = choice[p]]
<1>2. /\ n \in Nat /\ DOMAIN pulses = 1 .. n
      /\ \A p \in 1 .. n : pulses[p] \in WrittenRow
  BY Fields
<1>3. \A p \in 1 .. n : choice[p] \in Nat \cup {NoSeq}
  BY <1>1, <1>2 DEF TypeOK, DwellRow
<1>4. \A p \in 1 .. n :
        e(p) \in WrittenRow /\ e(p).src = pulses[p].src /\ e(p).seq = choice[p]
  BY <1>2, <1>3 DEF WrittenRow
<1>5. pulses' = [p \in 1 .. n |-> e(p)]
  BY <1>1, <1>2
<1> HIDE DEF n, e
<1>6. [p \in 1 .. n |-> e(p)] \in Seq(WrittenRow)
  BY <1>2, <1>4, IsASeq
<1>7. Len(pulses') = n /\ \A p \in 1 .. n : pulses'[p] = e(p)
  BY <1>2, <1>5
<1> QED
  BY <1>1, <1>2, <1>4, <1>5, <1>6, <1>7 DEF n

LEMMA WriteEffect ==
  ASSUME TypeOK, NEW i \in todo, WritePulse(i)
  PROVE  /\ pulses' \in Seq(WrittenRow) /\ Len(pulses') = Len(pulses) + 1
         /\ \A p \in 1 .. Len(pulses) : pulses'[p] = pulses[p]
         /\ pulses'[Len(pulses) + 1].src = i /\ pulses'[Len(pulses) + 1].seq = NoSeq
<1> DEFINE row == [src |-> i, seq |-> NoSeq]
<1>1. i \in Nat
  BY Fields
<1>2. row \in WrittenRow /\ row.src = i /\ row.seq = NoSeq
  BY <1>1 DEF WrittenRow
<1>3. pulses' = Append(pulses, row) /\ pulses \in Seq(WrittenRow)
  BY DEF WritePulse, TypeOK
<1> HIDE DEF row
<1> QED
  BY <1>2, <1>3, AppendProperties

-----------------------------------------------------------------------------
(* Every variable keeps its type. *)
THEOREM TypeCorrect == Spec => []TypeOK
<1>1. Init => TypeOK
  BY DEF Init, TypeOK
<1>2. TypeOK /\ [Next]_vars => TypeOK'
  <2> SUFFICES ASSUME TypeOK, [Next]_vars PROVE TypeOK'
    OBVIOUS
  <2> USE DEF sourceVars, parentVars, drainVars
  <2>1. CASE Controller
    <3>1. /\ Len(src') \in Nat /\ DOMAIN src' = 1 .. Len(src')
          /\ src' \in Seq(PulseRow) /\ now' \in Nat /\ Len(src) <= Len(src')
      BY <2>1, ControllerEffect, LenProperties
    <3>2. todo' \subseteq DOMAIN src'
      BY <2>1, <3>1, ControllerEffect, Fields
    <3> QED
      BY <2>1, <3>1, <3>2, ControllerEffect DEF TypeOK
  <2>2. ASSUME NEW k \in FlushedKeys, NEW s \in Times, NEW m \in Times, NEW x \in Times,
               NEW e \in Times, FlushInterval(k, s, m, x, e)
        PROVE  TypeOK'
    <3>1. k \in Keys /\ s \in Nat /\ m \in Nat /\ x \in Nat /\ e \in Nat
      BY ActuatorConstants DEF ActuatorConstants, Times
    <3>2. MainDwells(k, s, m, e) \subseteq DwellRow /\ LaneDwells(k, x, e) \subseteq DwellRow
      BY <3>1 DEF MainDwells, LaneDwells, DwellRow
    <3>3. flushed' \in [end : Nat, count : Nat]
      BY <2>2, <3>1 DEF FlushInterval, TypeOK
    <3> QED
      BY <2>2, <3>1, <3>2, <3>3 DEF FlushInterval, TypeOK
  <2>3. CASE BeginDrain
    BY <2>3 DEF BeginDrain, TypeOK
  <2>4. ASSUME NEW i \in todo, DrainRow(i) PROVE TypeOK'
    <3>1. src[i].end \in Nat /\ \A r \in {todo \ {i}, {}} : r \subseteq DOMAIN src
      BY EndsNat DEF TypeOK
    <3>2. PassOver(i) => TypeOK'
      BY <3>1 DEF PassOver, TypeOK
    <3>3. AwaitParent(i) => TypeOK'
      BY <3>1 DEF AwaitParent, TypeOK
    <3>4. SkipEmpty(i) => TypeOK'
      BY <3>1 DEF SkipEmpty, TypeOK
    <3>5. CASE WritePulse(i)
      <4>1. pulses' \in Seq(WrittenRow)
        BY <3>5, WriteEffect
      <4> QED
        BY <3>1, <3>5, <4>1 DEF WritePulse, TypeOK
    <3> QED
      BY <2>4, <3>2, <3>3, <3>4, <3>5 DEF DrainRow
  <2>5. CASE EndDrain
    BY <2>5 DEF EndDrain, TypeOK
  <2>6. CASE AttributeActuatorPulses
    <3>1. pulses' \in Seq(WrittenRow)
      BY <2>6, AttributeEffect
    <3> QED
      BY <2>6, <3>1 DEF AttributeActuatorPulses, TypeOK
  <2>7. CASE Fails
    BY <2>7 DEF Fails, TypeOK
  <2>8. CASE UNCHANGED vars
    BY <2>8 DEF vars, TypeOK
  <2> QED
    BY <2>1, <2>2, <2>3, <2>4, <2>5, <2>6, <2>7, <2>8 DEF Next, Drain
<1> QED
  BY <1>1, <1>2, PTL DEF Spec

-----------------------------------------------------------------------------
(* The attribution.  Time has reached what is written: every dwell ends by *)
(* the end of the last interval flushed, and the next one starts there.    *)
DwellsBehind == \A d \in dwells : d.end <= flushed.end
Linked(p) ==
  \E d \in Covering(pulses[p].src) :
    d.seq = pulses[p].seq /\ \A other \in Covering(pulses[p].src) : d.start <= other.start
LinksInv ==
  /\ DwellsBehind
  /\ \A p \in 1 .. Len(pulses) :
       pulses[p].src \in 1 .. Len(src) /\ (pulses[p].seq # NoSeq => Linked(p))

LEMMA ControllerKeepsLinks ==
  ASSUME TypeOK, LinksInv, Controller
  PROVE  LinksInv'
<1>1. /\ pulses' = pulses /\ dwells' = dwells /\ flushed' = flushed
      /\ Len(src) <= Len(src') /\ Len(src) \in Nat /\ Len(src') \in Nat
      /\ \A i \in 1 .. Len(src) : src'[i].key = src[i].key /\ src'[i].start = src[i].start
  BY ControllerEffect, Fields, LenProperties DEF parentVars
<1>2. ASSUME NEW p \in 1 .. Len(pulses)
      PROVE  pulses'[p].src \in 1 .. Len(src') /\ (pulses'[p].seq # NoSeq => Linked(p)')
  <2> DEFINE i == pulses[p].src
  <2>1. i \in 1 .. Len(src) /\ i \in 1 .. Len(src') /\ pulses'[p].src = i
    BY <1>1 DEF LinksInv
  <2>2. Covering(i)' = Covering(i)
    BY <1>1, <2>1 DEF Covering
  <2>3. pulses[p].seq # NoSeq => Linked(p)
    BY DEF LinksInv
  <2> QED
    BY <1>1, <2>1, <2>2, <2>3 DEF Linked
<1> QED
  BY <1>1, <1>2 DEF LinksInv, DwellsBehind

LEMMA FlushKeepsLinks ==
  ASSUME TypeOK, LinksInv, NEW k \in FlushedKeys, NEW s \in Times, NEW m \in Times,
         NEW x \in Times, NEW e \in Times, FlushInterval(k, s, m, x, e)
  PROVE  LinksInv'
<1> DEFINE new == MainDwells(k, s, m, e) \cup LaneDwells(k, x, e)
<1>1. /\ pulses' = pulses /\ src' = src /\ flushed'.end = e
      /\ dwells' = dwells \cup new
  BY DEF FlushInterval, sourceVars, drainVars
<1>2. s \in Nat /\ m \in Nat /\ x \in Nat /\ e \in Nat /\ flushed.end \in Nat
  BY ActuatorConstants DEF ActuatorConstants, Times, TypeOK
<1>3. flushed.end <= s /\ s < m /\ m <= e /\ x \in {s, e}
  BY DEF FlushInterval
<1>4. \A d \in new : flushed.end <= d.start /\ d.start \in Nat /\ d.end <= e
  BY <1>2, <1>3 DEF MainDwells, LaneDwells
<1> HIDE DEF new
<1>5. \A d \in dwells : d.start \in Nat /\ d.end \in Nat
  BY DEF TypeOK, DwellRow
<1>6. DwellsBehind'
  BY <1>1, <1>2, <1>3, <1>4, <1>5 DEF LinksInv, DwellsBehind
<1>7. ASSUME NEW p \in 1 .. Len(pulses), pulses[p].seq # NoSeq PROVE Linked(p)'
  <2> DEFINE i == pulses[p].src
  <2>1. PICK d \in Covering(i) :
          d.seq = pulses[p].seq /\ \A other \in Covering(i) : d.start <= other.start
    BY <1>7 DEF LinksInv, Linked
  <2>2. src[i].start \in Nat /\ src[i].start < flushed.end
    <3>1. i \in 1 .. Len(src) /\ src[i].start \in Nat
      BY Fields DEF LinksInv, PulseRow
    <3>2. d \in dwells /\ src[i].start < d.end /\ d.end <= flushed.end
      BY <2>1 DEF Covering, LinksInv, DwellsBehind
    <3> QED
      BY <1>2, <1>5, <3>1, <3>2
  <2>3. Covering(i)' = Covering(i)
    <3>1. \A n \in new : ~ n.start <= src[i].start
      BY <1>2, <1>4, <2>2
    <3> QED
      BY <1>1, <3>1 DEF Covering
  <2> QED
    BY <1>1, <2>1, <2>3 DEF Linked
<1> QED
  BY <1>1, <1>6, <1>7 DEF LinksInv

LEMMA LinksInvariant == Spec => []LinksInv
<1>1. Init => LinksInv
  BY DEF Init, LinksInv, DwellsBehind
<1>2. TypeOK /\ LinksInv /\ [Next]_vars => LinksInv'
  <2> SUFFICES ASSUME TypeOK, LinksInv, [Next]_vars PROVE LinksInv'
    OBVIOUS
  <2>1. ASSUME NEW i \in todo, WritePulse(i) PROVE LinksInv'
    <3>1. src' = src /\ dwells' = dwells /\ flushed' = flushed
      BY <2>1 DEF WritePulse, sourceVars, parentVars
    <3>2. ASSUME NEW p \in 1 .. Len(pulses')
          PROVE  pulses'[p].src \in 1 .. Len(src) /\ (pulses'[p].seq # NoSeq => Linked(p)')
      <4>1. p \in 1 .. Len(pulses) \/ p = Len(pulses) + 1
        BY <2>1, WriteEffect, Fields
      <4>2. CASE p \in 1 .. Len(pulses)
        <5>1. pulses'[p] = pulses[p]
          BY <2>1, <4>2, WriteEffect
        <5> QED
          BY <3>1, <4>2, <5>1 DEF LinksInv, Linked, Covering
      <4>3. CASE p = Len(pulses) + 1
        BY <2>1, <4>3, WriteEffect, Fields
      <4> QED
        BY <4>1, <4>2, <4>3
    <3> QED
      BY <3>1, <3>2 DEF LinksInv, DwellsBehind
  <2>2. CASE AttributeActuatorPulses
    <3>1. src' = src /\ dwells' = dwells /\ flushed' = flushed
      BY <2>2 DEF AttributeActuatorPulses, sourceVars, parentVars
    <3>2. ASSUME NEW p \in 1 .. Len(pulses), pulses'[p].seq # NoSeq PROVE Linked(p)'
      <4> DEFINE i == pulses[p].src
      <4>1. pulses'[p].src = i /\ Covering(i)' = Covering(i)
        BY <2>2, <3>1, AttributeEffect DEF Covering
      <4>2. CASE pulses'[p].seq = pulses[p].seq
        BY <3>2, <4>1, <4>2 DEF LinksInv, Linked
      <4>3. CASE \E d \in dwells : FirstCovering(i, d) /\ pulses'[p].seq = d.seq
        BY <4>1, <4>3 DEF FirstCovering, Linked
      <4> QED
        BY <2>2, <4>2, <4>3, AttributeEffect
    <3> QED
      BY <2>2, <3>1, <3>2, AttributeEffect DEF LinksInv, DwellsBehind
  <2>3. CASE UNCHANGED <<src, dwells, flushed, pulses>>
    BY <2>3 DEF LinksInv, DwellsBehind, Linked, Covering
  <2>4. BeginDrain \/ EndDrain \/ Fails \/ UNCHANGED vars
          => UNCHANGED <<src, dwells, flushed, pulses>>
    BY DEF BeginDrain, EndDrain, Fails, vars, sourceVars, parentVars
  <2>5. ASSUME NEW i \in todo, PassOver(i) \/ AwaitParent(i) \/ SkipEmpty(i)
        PROVE  UNCHANGED <<src, dwells, flushed, pulses>>
    BY <2>5 DEF PassOver, AwaitParent, SkipEmpty, sourceVars, parentVars
  <2> QED
    BY <2>1, <2>2, <2>3, <2>4, <2>5, ControllerKeepsLinks, FlushKeepsLinks
    DEF Next, Drain, DrainRow
<1> QED
  BY <1>1, <1>2, TypeCorrect, PTL DEF Spec

(* "Regardless of which arrived first": the dwell a pulse is linked to is  *)
(* the first of its order that covers its start, among the dwells written  *)
(* by then and among all that are written later.                           *)
THEOREM LinksAreFinal == Spec => []AttributionOrderFree
<1>1. TypeOK /\ LinksInv => AttributionOrderFree
  BY Fields DEF LinksInv, Linked, AttributionOrderFree
<1> QED
  BY <1>1, TypeCorrect, LinksInvariant, PTL

-----------------------------------------------------------------------------
(* The cursor.  It and the mark of the drain are ends that were read, and  *)
(* the rows still to visit lie beyond both.                                *)
ReadEnd(mark) == mark = 0 \/ \E j \in Closed : src[j].end = mark
DrainInv ==
  /\ now >= 1 /\ \A i \in DOMAIN src : src[i].end <= now
  /\ ReadEnd(cursor)
  /\ pc # "draining" => todo = {}
  /\ pc = "draining" =>
       /\ ReadEnd(high) /\ cursor <= high
       /\ \A j \in todo : j \in Closed /\ src[j].end > cursor /\ src[j].end >= high

(* Behind the cursor, or about to be. *)
Passed(i) ==
  /\ src[i].end # Open
  /\ \/ src[i].end <= cursor
     \/ pc = "draining" /\ i \notin todo /\ src[i].end <= high
CopiesInv ==
  \A i \in DOMAIN src : Cardinality(Copies(i)) <= failures + (IF Passed(i) THEN 1 ELSE 0)

(* A pulse the reader sees, that no other shadows, and that is not written *)
(* yet, lies beyond the cursor and the mark; and if it is not of the batch *)
(* it comes after the batch.                                               *)
Waits(i) == Due(i) /\ i \in Window /\ ~Tied(i) /\ Copies(i) = {}
WaitsInv ==
  \A i \in DOMAIN src : Waits(i) =>
    /\ src[i].end > cursor
    /\ pc = "draining" => /\ src[i].end > high
                          /\ i \notin todo => \A j \in todo : src[j].end <= src[i].end

LEMMA CopiesFinite ==
  ASSUME TypeOK
  PROVE  \A i : IsFiniteSet(Copies(i)) /\ Cardinality(Copies(i)) \in Nat
<1>1. IsFiniteSet(1 .. Len(pulses))
  BY Fields, FS_Interval
<1>2. \A i : Copies(i) \subseteq 1 .. Len(pulses)
  BY Fields DEF Copies
<1> QED
  BY <1>1, <1>2, FS_Subset, FS_CardinalityType

(* A written pulse has one copy more; nothing else changes the copies.     *)
LEMMA WriteCopies ==
  ASSUME TypeOK, NEW i \in todo, WritePulse(i)
  PROVE  /\ Cardinality(Copies(i)') = Cardinality(Copies(i)) + 1
         /\ \A j \in DOMAIN src : j # i => Copies(j)' = Copies(j)
         /\ Copies(i)' # {}
<1> DEFINE n == Len(pulses)
<1>1. /\ n \in Nat /\ DOMAIN pulses = 1 .. n /\ DOMAIN pulses' = 1 .. n + 1
      /\ \A p \in 1 .. n : pulses'[p] = pulses[p]
      /\ pulses'[n + 1].src = i
  BY WriteEffect, Fields, LenProperties
<1>2. \A p \in 1 .. n + 1 : p \in 1 .. n \/ p = n + 1
  BY <1>1
<1>3. n + 1 \notin 1 .. n /\ n + 1 \in 1 .. n + 1 /\ \A p \in 1 .. n : p \in 1 .. n + 1
  BY <1>1
<1>4. Copies(i)' = Copies(i) \cup {n + 1}
  BY <1>1, <1>2, <1>3 DEF Copies
<1>5. \A j : j # i => Copies(j)' = Copies(j)
  BY <1>1, <1>2, <1>3 DEF Copies
<1>6. n + 1 \notin Copies(i)
  BY <1>1, <1>3 DEF Copies
<1> QED
  BY <1>4, <1>5, <1>6, CopiesFinite, FS_AddElement

LEMMA AttributeCopies ==
  ASSUME TypeOK, AttributeActuatorPulses
  PROVE  \A j : Copies(j)' = Copies(j)
<1>1. /\ DOMAIN pulses = 1 .. Len(pulses) /\ DOMAIN pulses' = 1 .. Len(pulses)
      /\ \A p \in 1 .. Len(pulses) : pulses'[p].src = pulses[p].src
  BY AttributeEffect, Fields, LenProperties
<1> QED
  BY <1>1 DEF Copies

(* Rows that close later push others out of the reader's sight, never in.  *)
LEMMA ControllerClosed ==
  ASSUME TypeOK, Controller
  PROVE  /\ Closed \subseteq Closed' /\ DOMAIN src \subseteq DOMAIN src'
         /\ \A i \in Closed : /\ src'[i].end = src[i].end /\ src'[i].start = src[i].start
                              /\ src'[i].key = src[i].key
         /\ \A i \in Closed' : i \notin Closed => i \in DOMAIN src /\ src'[i].end = now
         /\ Closed \cap Window' \subseteq Window
<1>1. /\ Len(src) \in Nat /\ Len(src') \in Nat /\ Len(src) <= Len(src')
      /\ DOMAIN src = 1 .. Len(src) /\ DOMAIN src' = 1 .. Len(src')
      /\ \A i \in 1 .. Len(src) :
           /\ src'[i].key = src[i].key /\ src'[i].start = src[i].start
           /\ src'[i].end = src[i].end \/ (src[i].end = Open /\ src'[i].end = now)
      /\ \A i \in 1 .. Len(src') : i \notin 1 .. Len(src) => src'[i].end = Open
  BY ControllerEffect, Fields, LenProperties
<1>2. Closed \subseteq Closed' /\ DOMAIN src \subseteq DOMAIN src'
  BY <1>1 DEF Closed
<1>3. \A i \in Closed' : i \notin Closed => i \in DOMAIN src /\ src'[i].end = now
  BY <1>1 DEF Closed
<1>4. ASSUME NEW i \in Closed \cap Window' PROVE i \in Window
  <2> DEFINE before == {j \in Closed : j < i}
             after == {j \in Closed' : j < i}
  <2>1. i \in Closed' /\ Cardinality(after) < OverFetch * BatchSize
    BY <1>4 DEF Window
  <2>2. after \subseteq 1 .. Len(src') /\ before \subseteq after
    BY <1>1, <1>2 DEF Closed
  <2>3. IsFiniteSet(1 .. Len(src'))
    <3> DEFINE n == Len(src')
    <3>1. n \in Int
      BY <1>1
    <3> HIDE DEF n
    <3>2. IsFiniteSet(1 .. n)
      BY <3>1, FS_Interval
    <3> QED
      BY <3>2 DEF n
  <2> HIDE DEF before, after
  <2>4. IsFiniteSet(after)
    BY <2>2, <2>3, FS_Subset
  <2>5. IsFiniteSet(before) /\ Cardinality(before) <= Cardinality(after)
    BY <2>2, <2>4, FS_Subset
  <2>6. Cardinality(before) \in Nat /\ Cardinality(after) \in Nat
    BY <2>4, <2>5, FS_CardinalityType
  <2>7. OverFetch * BatchSize \in Nat
    BY ActuatorConstants DEF ActuatorConstants
  <2>8. Cardinality(before) < OverFetch * BatchSize
    BY <2>1, <2>5, <2>6, <2>7
  <2> QED
    BY <1>4, <2>8 DEF Window, before
<1> QED
  BY <1>1, <1>2, <1>3, <1>4 DEF Closed

LEMMA ControllerKeepsDrain ==
  ASSUME TypeOK, DrainInv, Controller
  PROVE  DrainInv'
<1>1. /\ UNCHANGED <<pc, todo, high, cursor>> /\ now \in Nat /\ now' \in Nat /\ now <= now'
      /\ Closed \subseteq Closed'
      /\ \A i \in Closed : src'[i].end = src[i].end
  BY ControllerEffect, ControllerClosed, Fields DEF drainVars
<1>2. \A mark : ReadEnd(mark) => (mark = 0 \/ \E j \in Closed' : src'[j].end = mark)
  BY <1>1 DEF ReadEnd
<1>3. now' >= 1
  BY <1>1 DEF DrainInv
<1>4. ASSUME NEW i \in DOMAIN src' PROVE src'[i].end <= now'
  <2>1. CASE i \in Closed
    <3>1. i \in DOMAIN src /\ src[i].end \in Nat
      BY <2>1, EndsNat
    <3>2. src[i].end <= now
      BY <3>1 DEF DrainInv
    <3> QED
      BY <1>1, <2>1, <3>1, <3>2
  <2>2. CASE i \notin Closed /\ i \in Closed'
    BY <1>1, <2>2, ControllerClosed
  <2>3. CASE i \notin Closed'
    BY <1>1, <1>4, <2>3 DEF Closed, Open
  <2> QED
    BY <2>1, <2>2, <2>3
<1> QED
  BY <1>1, <1>2, <1>3, <1>4 DEF DrainInv, ReadEnd

LEMMA ControllerKeepsCopies ==
  ASSUME TypeOK, LinksInv, CopiesInv, Controller
  PROVE  CopiesInv'
<1>1. UNCHANGED <<pc, todo, high, cursor, pulses, failures>> /\ failures \in Nat
  BY ControllerEffect, Fields DEF drainVars
<1>2. SUFFICES ASSUME NEW i \in DOMAIN src'
               PROVE  Cardinality(Copies(i)') <= failures + (IF Passed(i)' THEN 1 ELSE 0)
  BY <1>1 DEF CopiesInv
<1>3. Copies(i)' = Copies(i) /\ Cardinality(Copies(i)) \in Nat
  BY <1>1, CopiesFinite DEF Copies
<1>4. (Passed(i) /\ i \in DOMAIN src) => Passed(i)'
  BY <1>1, ControllerClosed DEF Passed, Closed
<1>5. CASE i \in DOMAIN src
  BY <1>1, <1>3, <1>4, <1>5 DEF CopiesInv
<1>6. CASE i \notin DOMAIN src
  <2>1. Copies(i) = {}
    BY <1>6, Fields DEF Copies, LinksInv
  <2> QED
    BY <1>1, <1>3, <2>1, FS_EmptySet
<1> QED
  BY <1>5, <1>6

(* A pulse that closes now waits too: every mark is an end that was read,  *)
(* so now is beyond it, or the pulse is tied.                              *)
LEMMA ControllerKeepsWaits ==
  ASSUME TypeOK, DrainInv, WaitsInv, Controller
  PROVE  WaitsInv'
<1>1. /\ UNCHANGED <<pc, todo, high, cursor, pulses, failures>>
      /\ now \in Nat /\ cursor \in Nat /\ high \in Nat
      /\ Closed \subseteq Closed' /\ Closed \cap Window' \subseteq Window
      /\ \A i \in Closed : /\ src'[i].end = src[i].end /\ src'[i].start = src[i].start
                           /\ src'[i].key = src[i].key
  BY ControllerEffect, ControllerClosed, Fields DEF drainVars
<1>2. SUFFICES ASSUME NEW i \in DOMAIN src', Waits(i)'
               PROVE  /\ src'[i].end > cursor
                      /\ pc = "draining" =>
                           /\ src'[i].end > high
                           /\ i \notin todo => \A j \in todo : src'[j].end <= src'[i].end
  BY <1>1 DEF WaitsInv
<1>3. /\ i \in Closed' /\ src'[i].key \in Keys /\ src'[i].start < src'[i].end
      /\ i \in Window' /\ \A j \in Closed' \ {i} : src'[j].end # src'[i].end
      /\ Copies(i) = {}
  BY <1>1, <1>2 DEF Waits, Due, Tied, Copies
<1>4. CASE i \in Closed
  <2>1. Due(i) /\ i \in Window /\ ~Tied(i) /\ i \in DOMAIN src
    BY <1>1, <1>3, <1>4 DEF Due, Tied, Closed
  <2>2. /\ src[i].end > cursor
        /\ pc = "draining" => /\ src[i].end > high
                              /\ i \notin todo => \A j \in todo : src[j].end <= src[i].end
    BY <1>3, <2>1 DEF Waits, WaitsInv
  <2>3. pc = "draining" => \A j \in todo : j \in Closed
    BY DEF DrainInv
  <2> QED
    BY <1>1, <1>4, <2>2, <2>3
<1>5. CASE i \notin Closed
  <2>1. src'[i].end = now
    BY <1>3, <1>5, ControllerClosed
  <2>2. now >= 1 /\ \A j \in Closed : src[j].end <= now /\ src[j].end # now /\ src[j].end \in Nat
    <3>1. now >= 1 /\ \A j \in Closed : src[j].end <= now /\ src[j].end \in Nat
      BY EndsNat DEF DrainInv
    <3>2. \A j \in Closed : src[j].end # now
      BY <1>1, <1>3, <1>5, <2>1
    <3> QED
      BY <3>1, <3>2
  <2>3. \A mark \in Nat : ReadEnd(mark) => mark < now
    BY <1>1, <2>2 DEF ReadEnd
  <2>4. cursor < now /\ (pc = "draining" => high < now)
    BY <1>1, <2>3 DEF DrainInv
  <2>5. pc = "draining" => \A j \in todo : j \in Closed /\ src'[j].end <= now
    BY <1>1, <2>2 DEF DrainInv
  <2> QED
    BY <1>1, <2>1, <2>4, <2>5
<1> QED
  BY <1>4, <1>5

(* The first row of the batch: what comes after it.                        *)
LEMMA NextRow ==
  ASSUME TypeOK, DrainInv, NEW i \in todo, IsNext(i)
  PROVE  /\ i \in DOMAIN src /\ i \in Closed /\ pc = "draining"
         /\ cursor < src[i].end /\ high <= src[i].end /\ src[i].end \in Nat
         /\ \A j \in todo : src[i].end <= src[j].end
BY EndsNat DEF IsNext, DrainInv

LEMMA VisitKeepsDrain ==
  ASSUME TypeOK, DrainInv, NEW i \in todo, DrainRow(i)
  PROVE  DrainInv'
<1>1. /\ UNCHANGED <<pc, src, now, cursor>>
      /\ todo' \subseteq todo
      /\ high' = high \/ (IsNext(i) /\ high' = src[i].end)
  BY DEF DrainRow, PassOver, AwaitParent, SkipEmpty, WritePulse, sourceVars
<1>2. IsNext(i)
  BY DEF DrainRow, PassOver, AwaitParent, SkipEmpty, WritePulse
<1>3. Closed' = Closed /\ \A mark : ReadEnd(mark) <=> (mark = 0 \/ \E j \in Closed' : src'[j].end = mark)
  BY <1>1 DEF Closed, ReadEnd
<1>4. /\ pc = "draining" /\ ReadEnd(high') /\ cursor <= high'
      /\ \A j \in todo' : j \in Closed /\ src[j].end > cursor /\ src[j].end >= high'
  <2>1. CASE high' = high
    BY <1>1, <1>2, <2>1, NextRow DEF DrainInv
  <2>2. CASE high' = src[i].end
    <3>1. ReadEnd(high')
      BY <1>2, <2>2, NextRow DEF ReadEnd
    <3>2. \A j \in todo' : j \in Closed /\ src[j].end > cursor /\ src[j].end >= high'
      <4> TAKE j \in todo'
      <4>1. j \in todo /\ src[j].end \in Nat /\ j \in Closed /\ src[j].end > cursor
        BY <1>1, <1>2, EndsNat, NextRow DEF DrainInv
      <4> QED
        BY <1>2, <2>2, <4>1, NextRow
    <3> QED
      BY <1>2, <2>2, <3>1, <3>2, NextRow, Fields
  <2> QED
    BY <1>1, <2>1, <2>2
<1> QED
  BY <1>1, <1>3, <1>4 DEF DrainInv, ReadEnd

(* A row that leaves the batch unwritten is none to be written, or the     *)
(* loop has ended.                                                         *)
LEMMA VisitKeepsCopies ==
  ASSUME TypeOK, DrainInv, CopiesInv, NEW i \in todo, DrainRow(i)
  PROVE  CopiesInv'
<1>1. IsNext(i) /\ UNCHANGED <<pc, src, cursor, failures>> /\ todo' \subseteq todo
  BY DEF DrainRow, PassOver, AwaitParent, SkipEmpty, WritePulse, sourceVars
<1>2. /\ i \in DOMAIN src /\ pc = "draining" /\ failures \in Nat /\ cursor \in Nat /\ high \in Nat
      /\ cursor < src[i].end /\ high <= src[i].end /\ src[i].end \in Nat
  BY <1>1, NextRow, Fields
<1>3. \A j \in DOMAIN src : src[j].end \in Nat /\ Cardinality(Copies(j)) \in Nat
  BY EndsNat, CopiesFinite
<1>4. \A j \in DOMAIN src : high <= high' /\ high' \in Nat => (Passed(j) => Passed(j)')
  BY <1>1, <1>2, <1>3 DEF Passed
<1>5. CASE PassOver(i) \/ AwaitParent(i) \/ SkipEmpty(i)
  <2>1. pulses' = pulses /\ high <= high' /\ high' \in Nat
    BY <1>2, <1>5 DEF PassOver, AwaitParent, SkipEmpty
  <2>2. \A j \in DOMAIN src : Copies(j)' = Copies(j)
    BY <2>1 DEF Copies
  <2> QED
    BY <1>1, <1>2, <1>3, <1>4, <2>1, <2>2 DEF CopiesInv
<1>6. CASE WritePulse(i)
  <2>1. high' = src[i].end /\ i \notin todo' /\ pc' = "draining"
    BY <1>1, <1>2, <1>6 DEF WritePulse
  <2>2. Cardinality(Copies(i)) <= failures
    <3>1. ~Passed(i)
      BY <1>2 DEF Passed
    <3> QED
      BY <1>2, <1>3, <3>1 DEF CopiesInv
  <2>3. Passed(i)'
    BY <1>1, <1>2, <2>1 DEF Passed, Open
  <2>4. Cardinality(Copies(i)') <= failures + 1
    BY <1>2, <1>3, <1>6, <2>2, WriteCopies
  <2>5. \A j \in DOMAIN src : j # i =>
          Cardinality(Copies(j)') <= failures + (IF Passed(j)' THEN 1 ELSE 0)
    BY <1>2, <1>3, <1>4, <1>6, <2>1, WriteCopies DEF CopiesInv
  <2> QED
    BY <1>1, <2>3, <2>4, <2>5 DEF CopiesInv
<1> QED
  BY <1>5, <1>6 DEF DrainRow

LEMMA VisitKeepsWaits ==
  ASSUME TypeOK, DrainInv, WaitsInv, NEW i \in todo, DrainRow(i)
  PROVE  WaitsInv'
<1>1. IsNext(i) /\ UNCHANGED <<pc, src, cursor>> /\ todo' \subseteq todo
  BY DEF DrainRow, PassOver, AwaitParent, SkipEmpty, WritePulse, sourceVars
<1>2. /\ Closed' = Closed /\ Window' = Window
      /\ \A j : (Due(j) <=> Due(j)') /\ (Tied(j) <=> Tied(j)')
  BY <1>1 DEF Closed, Window, Due, Tied
<1>3. SUFFICES ASSUME NEW j \in DOMAIN src, Waits(j)'
               PROVE  /\ src[j].end > cursor
                      /\ src[j].end > high'
                      /\ j \notin todo' => \A k \in todo' : src[k].end <= src[j].end
  BY <1>1 DEF WaitsInv
<1>4. Waits(j)
  <2>1. Copies(j) \subseteq Copies(j)'
    <3>1. CASE pulses' = pulses
      BY <1>1, <3>1 DEF Copies
    <3>2. CASE WritePulse(i)
      BY <3>2, WriteCopies, <1>3 DEF Waits
    <3> QED
      BY <3>1, <3>2 DEF DrainRow, PassOver, AwaitParent, SkipEmpty
  <2> QED
    BY <1>2, <1>3, <2>1 DEF Waits
<1>5. /\ pc = "draining" /\ src[j].end > cursor /\ src[j].end > high
      /\ j \notin todo => \A k \in todo : src[k].end <= src[j].end
      /\ src[j].end \in Nat /\ src[i].end \in Nat /\ i \in Closed
  BY <1>1, <1>4, NextRow, EndsNat DEF WaitsInv
<1>6. CASE AwaitParent(i)
  BY <1>5, <1>6 DEF AwaitParent
<1>7. CASE PassOver(i) \/ SkipEmpty(i) \/ WritePulse(i)
  <2>1. j # i
    <3>1. PassOver(i) => ~Due(i)
      BY ActuatorConstants DEF ActuatorConstants, PassOver, Due
    <3>2. SkipEmpty(i) => ~Due(i)
      BY EndsNat, NextRow, <1>1 DEF SkipEmpty, Due
    <3>3. WritePulse(i) => Copies(i)' # {}
      BY WriteCopies
    <3> QED
      BY <1>3, <1>4, <1>7, <3>1, <3>2, <3>3 DEF Waits
  <2>2. todo' = todo \ {i} /\ (high' = high \/ high' = src[i].end)
    BY <1>7 DEF PassOver, SkipEmpty, WritePulse
  <2>3. src[i].end < src[j].end
    <3>1. src[i].end # src[j].end
      BY <1>4, <1>5, <2>1 DEF Waits, Tied
    <3>2. src[i].end <= src[j].end
      BY <1>1, <1>5, NextRow
    <3> QED
      BY <1>5, <3>1, <3>2
  <2>4. j \notin todo' => j \notin todo
    BY <2>1, <2>2
  <2> QED
    BY <1>5, <2>2, <2>3, <2>4
<1> QED
  BY <1>6, <1>7 DEF DrainRow

CursorInv == DrainInv /\ CopiesInv /\ WaitsInv

LEMMA BeginKeeps ==
  ASSUME TypeOK, CursorInv, BeginDrain
  PROVE  CursorInv'
<1>1. /\ UNCHANGED <<now, src, cycles, dwells, flushed, cursor, pulses, failures>>
      /\ pc # "draining" /\ pc' = "draining" /\ high' = cursor /\ IsBatch(todo')
  BY DEF BeginDrain, sourceVars, parentVars
<1>2. /\ Closed' = Closed /\ Window' = Window
      /\ \A j : /\ (Due(j) <=> Due(j)') /\ (Tied(j) <=> Tied(j)') /\ Copies(j)' = Copies(j)
                /\ (ReadEnd(j) <=> ReadEnd(j)')
  BY <1>1 DEF Closed, Window, Due, Tied, Copies, ReadEnd
<1>3. \A j \in todo' : j \in Closed /\ src[j].end > cursor
  BY <1>1 DEF IsBatch, Fresh, Window
<1>4. cursor \in Nat /\ ReadEnd(cursor) /\ \A j \in DOMAIN src : src[j].end \in Nat
  BY Fields, EndsNat DEF CursorInv, DrainInv
<1>5. ReadEnd(high)'
  BY <1>1, <1>4 DEF ReadEnd, Closed
<1>6. \A j \in todo' : src[j].end >= cursor
  BY <1>3, <1>4, EndsNat
<1>7. DrainInv'
  BY <1>1, <1>2, <1>3, <1>4, <1>5, <1>6 DEF CursorInv, DrainInv, ReadEnd
<1>8. CopiesInv'
  <2>1. \A j \in DOMAIN src : Passed(j) => Passed(j)'
    BY <1>1 DEF Passed
  <2> QED
    BY <1>1, <1>2, <2>1, Fields, CopiesFinite DEF CursorInv, CopiesInv
<1>9. WaitsInv'
  <2> SUFFICES ASSUME NEW j \in DOMAIN src, Waits(j)
               PROVE  src[j].end > cursor /\ (j \notin todo' => \A k \in todo' : src[k].end <= src[j].end)
    BY <1>1, <1>2 DEF WaitsInv, Waits
  <2>1. src[j].end > cursor
    BY DEF CursorInv, WaitsInv
  <2>2. j \in Fresh
    BY <2>1 DEF Waits, Fresh
  <2> QED
    BY <1>1, <2>1, <2>2 DEF IsBatch
<1> QED
  BY <1>7, <1>8, <1>9 DEF CursorInv

LEMMA EndKeeps ==
  ASSUME TypeOK, CursorInv, EndDrain
  PROVE  CursorInv'
<1>1. /\ UNCHANGED <<now, src, cycles, dwells, flushed, todo, pulses, failures>>
      /\ pc = "draining" /\ todo = {} /\ pc' = "attributing" /\ cursor' = high
  BY DEF EndDrain, sourceVars, parentVars
<1>2. /\ Closed' = Closed /\ Window' = Window
      /\ \A j : (Due(j) <=> Due(j)') /\ (Tied(j) <=> Tied(j)') /\ Copies(j)' = Copies(j)
  BY <1>1 DEF Closed, Window, Due, Tied, Copies
<1>3. cursor <= high /\ cursor \in Nat /\ high \in Nat /\ ReadEnd(high)
  BY <1>1, Fields DEF CursorInv, DrainInv
<1>4. DrainInv'
  BY <1>1, <1>2, <1>3 DEF CursorInv, DrainInv, ReadEnd
<1>5. CopiesInv'
  <2>1. \A j \in DOMAIN src : Passed(j) => Passed(j)'
    BY <1>1, <1>3, EndsNat DEF Passed
  <2> QED
    BY <1>1, <1>2, <2>1, Fields, CopiesFinite DEF CursorInv, CopiesInv
<1>6. WaitsInv'
  BY <1>1, <1>2 DEF CursorInv, WaitsInv, Waits
<1> QED
  BY <1>4, <1>5, <1>6 DEF CursorInv

(* What leaves the drain, its rows and the copies alone. *)
LEMMA OthersKeep ==
  ASSUME TypeOK, CursorInv, UNCHANGED <<now, src, cursor>>, \A j : Copies(j)' = Copies(j),
         \/ UNCHANGED <<pc, todo, high, failures>>
         \/ /\ pc # "draining" /\ pc' # "draining"
            /\ todo' = todo /\ failures' = failures
         \/ pc' # "draining" /\ todo' = {} /\ failures' = failures + 1
  PROVE  CursorInv'
<1>1. /\ Closed' = Closed /\ Window' = Window
      /\ \A j : (Due(j) <=> Due(j)') /\ (Tied(j) <=> Tied(j)')
  BY DEF Closed, Window, Due, Tied
<1>2. DrainInv'
  BY <1>1 DEF CursorInv, DrainInv, ReadEnd
<1>3. CopiesInv'
  <2> SUFFICES ASSUME NEW j \in DOMAIN src
               PROVE  Cardinality(Copies(j)) <= failures' + (IF Passed(j)' THEN 1 ELSE 0)
    BY DEF CopiesInv
  <2>1. /\ Cardinality(Copies(j)) <= failures + (IF Passed(j) THEN 1 ELSE 0)
        /\ Cardinality(Copies(j)) \in Nat /\ failures \in Nat
    BY Fields, CopiesFinite DEF CursorInv, CopiesInv
  <2>2. CASE failures' = failures + 1
    BY <2>1, <2>2
  <2>3. CASE failures' = failures /\ (Passed(j) => Passed(j)')
    BY <2>1, <2>3
  <2> QED
    BY <2>2, <2>3 DEF Passed
<1>4. WaitsInv'
  BY <1>1 DEF CursorInv, WaitsInv, Waits
<1> QED
  BY <1>2, <1>3, <1>4 DEF CursorInv

LEMMA CursorInvariant == Spec => []CursorInv
<1>1. Init => CursorInv
  BY DEF Init, CursorInv, DrainInv, CopiesInv, WaitsInv, ReadEnd
<1>2. TypeOK /\ LinksInv /\ CursorInv /\ [Next]_vars => CursorInv'
  <2> SUFFICES ASSUME TypeOK, LinksInv, CursorInv, [Next]_vars PROVE CursorInv'
    OBVIOUS
  <2>1. CASE Controller
    BY <2>1, ControllerKeepsDrain, ControllerKeepsCopies, ControllerKeepsWaits DEF CursorInv
  <2>2. ASSUME NEW k \in FlushedKeys, NEW s \in Times, NEW m \in Times, NEW x \in Times,
               NEW e \in Times, FlushInterval(k, s, m, x, e)
        PROVE  CursorInv'
    BY <2>2, OthersKeep DEF FlushInterval, sourceVars, drainVars, Copies
  <2>3. ASSUME NEW i \in todo, DrainRow(i) PROVE CursorInv'
    BY <2>3, VisitKeepsDrain, VisitKeepsCopies, VisitKeepsWaits DEF CursorInv
  <2>4. CASE AttributeActuatorPulses
    BY <2>4, AttributeCopies, OthersKeep DEF AttributeActuatorPulses, sourceVars
  <2>5. CASE Fails
    BY <2>5, OthersKeep DEF Fails, sourceVars, Copies
  <2>6. CASE UNCHANGED vars
    BY <2>6, OthersKeep DEF vars, sourceVars, drainVars, Copies
  <2> QED
    BY <2>1, <2>2, <2>3, <2>4, <2>5, <2>6, BeginKeeps, EndKeeps DEF Next, Drain
<1> QED
  BY <1>1, <1>2, TypeCorrect, LinksInvariant, PTL DEF Spec

(* "Leave the watermark behind it so this row is retried on a later tick   *)
(* rather than lost": the cursor passes a due pulse only once it is        *)
(* written, unless it is tied or beyond what the reader looks at; and a    *)
(* pulse is written again only for a failure.                              *)
THEOREM PulsesWritten == Spec => []PulsesExactlyOnce
<1>1. TypeOK /\ CursorInv => PulsesExactlyOnce
  <2> SUFFICES ASSUME TypeOK, CursorInv, NEW i \in DOMAIN src
               PROVE  /\ Cardinality(Copies(i)) <= 1 + failures
                      /\ Due(i) /\ src[i].end <= cursor =>
                           Copies(i) # {} \/ Tied(i) \/ i \notin Window
    BY DEF PulsesExactlyOnce
  <2>1. /\ Cardinality(Copies(i)) \in Nat /\ failures \in Nat
        /\ src[i].end \in Nat /\ cursor \in Nat
    BY Fields, EndsNat, CopiesFinite
  <2>2. Cardinality(Copies(i)) <= failures + (IF Passed(i) THEN 1 ELSE 0)
    BY DEF CursorInv, CopiesInv
  <2>3. Waits(i) => src[i].end > cursor
    BY DEF CursorInv, WaitsInv
  <2> QED
    BY <2>1, <2>2, <2>3 DEF Waits
<1> QED
  BY <1>1, TypeCorrect, CursorInvariant, PTL
=============================================================================

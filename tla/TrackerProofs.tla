---------------------------- MODULE TrackerProofs ----------------------------
(***************************************************************************)
(* Theorems of Tracker, for every set of source rows and every cap.        *)
(*                                                                         *)
(* TypeCorrect and the partition come first (Same, Follows and Settled say *)
(* what a method leaves alone).  Then the shape of each method's result,   *)
(* and one part for each property of the rows: their numbers, their times, *)
(* the evidence for results, door episodes, and that no row is lost.  Each *)
(* part has one relation, a lemma per method that keeps it, and one per    *)
(* handler.                                                                *)
(***************************************************************************)
EXTENDS Tracker, SequenceTheorems, FiniteSetTheorems, TLAPS

(* u differs from t only inside the open interval's rows and in the        *)
(* bookkeeping around it.                                                  *)
Same(t, u) ==
  /\ u \in TrackerValue
  /\ u.closed = t.closed
  /\ t.cur = Nil <=> u.cur = Nil
  /\ t.cur # Nil => /\ u.cur.start = t.cur.start
                    /\ u.cur.prod = t.cur.prod
                    /\ u.cur.key = t.cur.key
                    /\ u.cur.result = t.cur.result

ForcedResults == Results \cup {""}

LEMMA NilIsNothing ==
  Nil \notin Interval /\ Nil \notin Span /\ Nil \notin Door /\ Nil \notin Dwell
BY TrackerConstants DEF TrackerConstants

LEMMA TrackerFields ==
  ASSUME NEW t \in TrackerValue
  PROVE  /\ t.closed \in Seq(Interval)
         /\ t.cur # Nil => t.cur \in Interval
         /\ t.span # Nil => t.span \in Span
         /\ t.door # Nil => t.door \in Door
         /\ \A l \in Lanes : t.dwell[l] # Nil => t.dwell[l] \in Dwell
         /\ \A l \in Lanes : t.seq[l] \in Nat
BY DEF TrackerValue

LEMMA IntervalFields ==
  ASSUME NEW iv \in Interval
  PROVE  iv.start \in Nat /\ iv.end \in Nat /\ iv.result \in Results
         /\ iv.prod \in BOOLEAN
BY DEF Interval

LEMMA AddRowSame ==
  ASSUME NEW t \in TrackerValue, t.cur # Nil, NEW r \in Row
  PROVE  Same(t, AddRow(t, r))
<1> DEFINE iv == [t.cur EXCEPT !.rows = Append(@, r)]
<1>1. t.cur \in Interval
  BY DEF TrackerValue
<1>2. iv \in Interval /\ iv.start = t.cur.start /\ iv.prod = t.cur.prod
      /\ iv.key = t.cur.key /\ iv.result = t.cur.result
  <2>1. Append(t.cur.rows, r) \in Seq(Row)
    BY <1>1 DEF Interval
  <2> QED
    BY <1>1, <2>1 DEF Interval
<1>3. AddRow(t, r) = [t EXCEPT !.cur = iv]
  BY DEF AddRow, TrackerValue
<1>4. iv # Nil
  BY <1>2, NilIsNothing
<1> HIDE DEF iv
<1>5. [t EXCEPT !.cur = iv] \in TrackerValue
  BY <1>2 DEF TrackerValue
<1>6. [t EXCEPT !.cur = iv].cur = iv /\ [t EXCEPT !.cur = iv].closed = t.closed
  BY DEF TrackerValue
<1> QED
  BY <1>2, <1>3, <1>4, <1>5, <1>6 DEF Same

LEMMA RowTypes ==
  ASSUME NEW at \in Nat, NEW id \in Nat, NEW n \in NatOrNull, NEW w \in STRING
  PROVE  /\ \A lane \in Lanes, from \in Nat : DwellRow(lane, w, from, at, n) \in Row
         /\ \A s \in Span : SpanRow(s, at) \in Row
         /\ FaultRow(w, at, id, n) \in Row
         /\ ToggleRow(w, at, id) \in Row
         /\ ConfigRow(w, at, id) \in Row
<1>1. /\ "" \in Texts /\ w \in Texts
      /\ "" \in LanesOrNone /\ \A lane \in Lanes : lane \in LanesOrNone
      /\ 0 \in NatOrNull
  BY DEF Texts, LanesOrNone, NatOrNull
<1>2. \A lane \in Lanes, from \in Nat : DwellRow(lane, w, from, at, n) \in Row
  BY <1>1 DEF DwellRow, Row, Tables
<1>3. \A s \in Span : SpanRow(s, at) \in Row
  <2> SUFFICES ASSUME NEW s \in Span PROVE SpanRow(s, at) \in Row
    OBVIOUS
  <2>1. s.entered \in Nat /\ s.state \in Texts
    BY DEF Span, Texts
  <2> QED
    BY <1>1, <2>1 DEF SpanRow, Row, Tables
<1>4. /\ FaultRow(w, at, id, n) \in Row
      /\ ToggleRow(w, at, id) \in Row
      /\ ConfigRow(w, at, id) \in Row
  BY <1>1 DEF FaultRow, ToggleRow, ConfigRow, Row, Tables
<1> QED
  BY <1>2, <1>3, <1>4

LEMMA DoorRowType ==
  ASSUME NEW at \in Nat, NEW id \in Nat, NEW d \in Door
  PROVE  DoorRow(d, at, id) \in Row
<1>1. d.opened \in Nat /\ d.resets \in NatOrNull
  BY DEF Door, NatOrNull
<1>2. "" \in Texts /\ "" \in LanesOrNone
  BY DEF Texts, LanesOrNone
<1> QED
  BY <1>1, <1>2 DEF DoorRow, Row, Tables

LEMMA CloseDwellSame ==
  ASSUME NEW t \in TrackerValue, NEW lane \in Lanes, NEW at \in Nat
  PROVE  Same(t, CloseDwell(t, lane, at))
<1> DEFINE d == t.dwell[lane]
           gone == [t EXCEPT !.dwell[lane] = Nil]
           row == DwellRow(lane, d.state, d.start, at, d.seq)
<1>1. gone \in TrackerValue /\ gone.cur = t.cur /\ gone.closed = t.closed
  BY DEF TrackerValue
<1>2. Same(t, t) /\ Same(t, gone)
  BY <1>1 DEF Same
<1>3. CASE d = Nil \/ t.cur = Nil
  BY <1>2, <1>3 DEF CloseDwell
<1>4. CASE d # Nil /\ t.cur # Nil
  <2>1. d \in Dwell
    BY <1>4 DEF TrackerValue
  <2>2. row \in Row
    <3>1. d.start \in Nat /\ d.seq \in Nat /\ d.state \in STRING
      BY <2>1 DEF Dwell
    <3>2. d.seq \in NatOrNull
      BY <3>1 DEF NatOrNull
    <3> HIDE DEF d
    <3> QED
      BY <3>1, <3>2, RowTypes
  <2>3. Same(gone, AddRow(gone, row))
    BY <1>1, <1>4, <2>2, AddRowSame
  <2>4. Same(t, AddRow(gone, row))
    BY <1>1, <2>3 DEF Same
  <2> QED
    BY <1>2, <1>4, <2>4 DEF CloseDwell
<1> QED
  BY <1>3, <1>4

LEMMA SameTrans ==
  ASSUME NEW t, NEW u, NEW w, Same(t, u), Same(u, w)
  PROVE  Same(t, w)
BY DEF Same

LEMMA CloseOpenDwellsSame ==
  ASSUME NEW t \in TrackerValue, NEW at \in Nat
  PROVE  Same(t, CloseOpenDwells(t, at))
<1> DEFINE c == CloseDwell(t, "crusher", at)
           m == CloseDwell(c, "main", at)
<1>1. "crusher" \in Lanes /\ "main" \in Lanes /\ "tilter" \in Lanes
  BY DEF Lanes
<1>2. Same(t, c) /\ c \in TrackerValue
  BY <1>1, CloseDwellSame DEF Same
<1>3. Same(c, m) /\ m \in TrackerValue
  BY <1>1, <1>2, CloseDwellSame DEF Same
<1>4. Same(m, CloseDwell(m, "tilter", at))
  BY <1>1, <1>3, CloseDwellSame
<1> HIDE DEF c, m
<1>5. Same(t, CloseDwell(m, "tilter", at))
  BY <1>2, <1>3, <1>4, SameTrans
<1> QED
  BY <1>5 DEF CloseOpenDwells, c, m

LEMMA CloseStateSpanSame ==
  ASSUME NEW t \in TrackerValue, NEW at \in Nat
  PROVE  Same(t, CloseStateSpanAt(t, at))
<1> DEFINE row == SpanRow(t.span, at)
           added == AddRow(t, row)
<1>1. Same(t, t)
  BY DEF Same
<1>2. CASE t.span # Nil /\ t.cur # Nil /\ at > t.span.entered
  <2>1. t.span \in Span
    BY <1>2 DEF TrackerValue
  <2>2. row \in Row
    <3>1. t.span.state \in STRING
      BY <2>1 DEF Span
    <3>2. 0 \in NatOrNull /\ 0 \in Nat
      BY DEF NatOrNull
    <3> QED
      BY <2>1, <3>1, <3>2, RowTypes
  <2>3. Same(t, added)
    BY <1>2, <2>2, AddRowSame
  <2> HIDE DEF row, added
  <2>4. Same(added, [added EXCEPT !.span = Nil])
    BY <2>3 DEF Same, TrackerValue
  <2>5. Same(t, [added EXCEPT !.span = Nil])
    BY <2>3, <2>4, SameTrans
  <2> QED
    BY <1>2, <2>5 DEF CloseStateSpanAt, added, row
<1>3. CASE ~(t.span # Nil /\ t.cur # Nil /\ at > t.span.entered)
  BY <1>1, <1>3 DEF CloseStateSpanAt
<1> QED
  BY <1>2, <1>3

(* What closeInterval does to the queue: nothing, or one interval that     *)
(* ends now and lasted some time.                                          *)
LEMMA CloseIntervalQueue ==
  ASSUME NEW t \in TrackerValue, NEW at \in Nat, NEW forced \in ForcedResults
  PROVE  LET u == CloseInterval(t, at, forced)
         IN  /\ u \in TrackerValue /\ u.cur = Nil
             /\ \/ u.closed = t.closed
                \/ /\ t.cur # Nil /\ at > t.cur.start
                   /\ \E iv \in Interval : /\ u.closed = Append(t.closed, iv)
                                          /\ iv.start = t.cur.start
                                          /\ iv.end = at
<1> DEFINE b == CloseOpenDwells(t, at)
           c == CloseStateSpanAt(b, at)
           res == IF forced = "" THEN c.cur.result ELSE forced
           iv == [c.cur EXCEPT !.end = at, !.result = res]
           dropped == [c EXCEPT !.cur = Nil]
           kept == [c EXCEPT !.cur = Nil, !.closed = Append(@, iv)]
<1>1. CASE t.cur = Nil
  BY <1>1 DEF CloseInterval
<1>2. CASE t.cur # Nil
  <2>1. Same(t, b) /\ b \in TrackerValue
    BY CloseOpenDwellsSame DEF Same
  <2>2. Same(b, c)
    BY <2>1, CloseStateSpanSame
  <2>3. Same(t, c)
    BY <2>1, <2>2, SameTrans
  <2> HIDE DEF b, c
  <2>4. /\ c \in TrackerValue /\ c.closed = t.closed
        /\ c.cur \in Interval /\ c.cur.start = t.cur.start
    BY <1>2, <2>3 DEF Same, TrackerValue
  <2>5. res \in Results
    BY <2>4 DEF Interval, ForcedResults
  <2> HIDE DEF res
  <2>6. iv \in Interval /\ iv.start = t.cur.start /\ iv.end = at
    BY <2>4, <2>5 DEF Interval
  <2> HIDE DEF iv
  <2>7. dropped \in TrackerValue /\ dropped.cur = Nil /\ dropped.closed = t.closed
    BY <2>4 DEF TrackerValue
  <2>8. /\ kept \in TrackerValue /\ kept.cur = Nil
        /\ kept.closed = Append(t.closed, iv)
    <3>1. c.closed \in Seq(Interval)
      BY <2>4, TrackerFields
    <3>2. Append(c.closed, iv) \in Seq(Interval)
      BY <2>6, <3>1, AppendProperties
    <3> QED
      BY <2>4, <3>2 DEF TrackerValue
  <2>9. t.cur.start \in Nat
    BY <1>2, TrackerFields, IntervalFields
  <2>10. CloseInterval(t, at, forced) = IF at <= t.cur.start THEN dropped ELSE kept
    BY <1>2 DEF CloseInterval, iv, res, c, b
  <2> HIDE DEF dropped, kept
  <2>11. CASE at <= t.cur.start
    BY <2>7, <2>10, <2>11
  <2>12. CASE ~(at <= t.cur.start)
    <3>1. at > t.cur.start
      BY <2>9, <2>12
    <3>2. \E v \in Interval : /\ kept.closed = Append(t.closed, v)
                               /\ v.start = t.cur.start /\ v.end = at
      BY <2>6, <2>8
    <3>3. CloseInterval(t, at, forced) = kept
      BY <2>10, <2>12
    <3> QED
      BY <1>2, <2>8, <3>1, <3>2, <3>3
  <2> QED
    BY <2>11, <2>12
<1> QED
  BY <1>1, <1>2

(* The intervals in s and those t has closed form a partition up to now,   *)
(* and the open one follows them.                                          *)
Chron(s, t, now) ==
  /\ Ordered(s \o t.closed)
  /\ \A i \in DOMAIN (s \o t.closed) : (s \o t.closed)[i].end <= now
  /\ t.cur # Nil =>
       /\ t.cur.start <= now
       /\ \A i \in DOMAIN (s \o t.closed) : (s \o t.closed)[i].end <= t.cur.start

(* u is a tracker, and follows t at time at: it keeps the partition that t *)
(* has at any earlier time.                                                *)
Follows(t, u, at) ==
  /\ u \in TrackerValue
  /\ \A s \in Seq(Interval), now \in Nat :
       now <= at /\ Chron(s, t, now) => Chron(s, u, at)

LEMMA FollowsTrans ==
  ASSUME NEW t, NEW u, NEW w, NEW at \in Nat, Follows(t, u, at), Follows(u, w, at)
  PROVE  Follows(t, w, at)
BY DEF Follows

LEMMA OrderedAppend ==
  ASSUME NEW q \in Seq(Interval), NEW iv \in Interval, Ordered(q),
         iv.start < iv.end, \A i \in DOMAIN q : q[i].end <= iv.start
  PROVE  /\ Append(q, iv) \in Seq(Interval)
         /\ Ordered(Append(q, iv))
         /\ \A i \in DOMAIN Append(q, iv) : Append(q, iv)[i].end <= iv.end
<1> DEFINE p == Append(q, iv)
<1>1. /\ p \in Seq(Interval)
      /\ Len(p) = Len(q) + 1
      /\ \A i \in 1 .. Len(q) : p[i] = q[i]
      /\ p[Len(q) + 1] = iv
  BY AppendProperties
<1>2. Len(q) \in Nat /\ DOMAIN q = 1 .. Len(q) /\ DOMAIN p = 1 .. Len(q) + 1
  BY <1>1, LenProperties
<1>3. \A i \in 1 .. Len(q) : q[i] \in Interval
  BY <1>2, ElementOfSeq
<1>4. iv.start \in Nat /\ iv.end \in Nat
  BY IntervalFields
<1>5. \A i \in 1 .. Len(q) : q[i].start \in Nat /\ q[i].end \in Nat
  BY <1>3, IntervalFields
<1>6. \A i \in 1 .. Len(q) : q[i].start < q[i].end /\ q[i].end <= iv.start
  BY <1>2 DEF Ordered
<1>7. \A i, j \in 1 .. Len(q) : i < j => q[i].end <= q[j].start
  BY <1>2 DEF Ordered
<1> HIDE DEF p
<1>8. \A i \in 1 .. Len(q) + 1 : p[i].start < p[i].end /\ p[i].end <= iv.end
  <2> TAKE i \in 1 .. Len(q) + 1
  <2>1. CASE i = Len(q) + 1
    BY <1>1, <1>4, <2>1
  <2>2. CASE i # Len(q) + 1
    <3>1. i \in 1 .. Len(q)
      BY <1>2, <2>2
    <3> QED
      BY <1>1, <1>4, <1>5, <1>6, <3>1
  <2> QED
    BY <2>1, <2>2
<1>9. \A i, j \in 1 .. Len(q) + 1 : i < j => p[i].end <= p[j].start
  <2> SUFFICES ASSUME NEW i \in 1 .. Len(q) + 1, NEW j \in 1 .. Len(q) + 1, i < j
               PROVE  p[i].end <= p[j].start
    OBVIOUS
  <2>1. i \in 1 .. Len(q)
    BY <1>2
  <2>2. CASE j = Len(q) + 1
    BY <1>1, <1>6, <2>1, <2>2
  <2>3. CASE j # Len(q) + 1
    <3>1. j \in 1 .. Len(q)
      BY <1>2, <2>3
    <3> QED
      BY <1>1, <1>7, <2>1, <3>1
  <2> QED
    BY <2>2, <2>3
<1> QED
  BY <1>1, <1>2, <1>8, <1>9 DEF Ordered, p

LEMMA AppendConcat ==
  ASSUME NEW s \in Seq(Interval), NEW q \in Seq(Interval), NEW iv \in Interval
  PROVE  s \o Append(q, iv) = Append(s \o q, iv)
OBVIOUS

(* The times of the intervals finished so far only have later bounds. *)
LEMMA EndsBelow ==
  ASSUME NEW q \in Seq(Interval), NEW now \in Nat, NEW at \in Nat, now <= at,
         \A i \in DOMAIN q : q[i].end <= now
  PROVE  \A i \in DOMAIN q : q[i].end <= at
<1> TAKE i \in DOMAIN q
<1>1. q[i] \in Interval
  BY LenProperties, ElementOfSeq
<1>2. q[i].end \in Nat
  BY <1>1, IntervalFields
<1> QED
  BY <1>2

LEMMA SameFollows ==
  ASSUME NEW t \in TrackerValue, NEW u, Same(t, u), NEW at \in Nat
  PROVE  Follows(t, u, at)
<1> SUFFICES ASSUME NEW s \in Seq(Interval), NEW now \in Nat, now <= at, Chron(s, t, now)
             PROVE  Chron(s, u, at)
  BY DEF Follows, Same
<1> DEFINE q == s \o t.closed
<1>1. u.closed = t.closed /\ (u.cur # Nil => t.cur # Nil /\ u.cur.start = t.cur.start)
  BY DEF Same
<1>2. q \in Seq(Interval)
  BY TrackerFields, ConcatProperties
<1>3. t.cur # Nil => t.cur.start \in Nat
  BY TrackerFields, IntervalFields
<1>4. \A i \in DOMAIN q : q[i].end <= at
  <2>1. \A i \in DOMAIN q : q[i].end <= now
    BY DEF Chron
  <2> HIDE DEF q
  <2> QED
    BY <1>2, <2>1, EndsBelow
<1> QED
  BY <1>1, <1>3, <1>4 DEF Chron

LEMMA CloseIntervalFollows ==
  ASSUME NEW t \in TrackerValue, NEW at \in Nat, NEW forced \in ForcedResults
  PROVE  /\ Follows(t, CloseInterval(t, at, forced), at)
         /\ CloseInterval(t, at, forced) \in TrackerValue
         /\ CloseInterval(t, at, forced).cur = Nil
<1> DEFINE u == CloseInterval(t, at, forced)
<1>1. u \in TrackerValue /\ u.cur = Nil
  BY CloseIntervalQueue
<1> SUFFICES ASSUME NEW s \in Seq(Interval), NEW now \in Nat, now <= at, Chron(s, t, now)
             PROVE  Chron(s, u, at)
  BY <1>1 DEF Follows
<1> DEFINE q == s \o t.closed
<1>2. t.closed \in Seq(Interval) /\ q \in Seq(Interval)
  BY TrackerFields, ConcatProperties
<1>3. Ordered(q) /\ \A i \in DOMAIN q : q[i].end <= now
  BY DEF Chron
<1>4. CASE u.closed = t.closed
  <2> HIDE DEF u
  <2>1. \A i \in DOMAIN q : q[i].end <= at
    BY <1>2, <1>3, EndsBelow
  <2> QED
    BY <1>1, <1>3, <1>4, <2>1 DEF Chron
<1>5. ASSUME t.cur # Nil, at > t.cur.start,
             NEW iv \in Interval, u.closed = Append(t.closed, iv),
             iv.start = t.cur.start, iv.end = at
      PROVE  Chron(s, u, at)
  <2> HIDE DEF u
  <2>1. s \o u.closed = Append(q, iv)
    BY <1>2, <1>5, AppendConcat
  <2>2. \A i \in DOMAIN q : q[i].end <= iv.start
    BY <1>5 DEF Chron
  <2>3. iv.start < iv.end
    BY <1>5
  <2>4. /\ Ordered(Append(q, iv))
        /\ \A i \in DOMAIN Append(q, iv) : Append(q, iv)[i].end <= at
    <3> HIDE DEF q
    <3> QED
      BY <1>2, <1>3, <1>5, <2>2, <2>3, OrderedAppend
  <2> QED
    BY <1>1, <2>1, <2>4 DEF Chron
<1> QED
  BY <1>4, <1>5, CloseIntervalQueue

-----------------------------------------------------------------------------
(* Opening and ensuring *)

KeysOrNone == OrderKeys \cup {NoKey}

(* The open interval of u is younger than the cap at time at. *)
Young(u, at) ==
  MaxInterval > 0 /\ u.cur # Nil => at - u.cur.start < MaxInterval

(* What a handler called at time at leaves behind. *)
Settled(t, u, at) == Follows(t, u, at) /\ Young(u, at)

LEMMA SettledSame ==
  ASSUME NEW t, NEW u, NEW w, NEW at \in Nat, Settled(t, u, at), Same(u, w)
  PROVE  Settled(t, w, at)
<1>1. u \in TrackerValue
  BY DEF Settled, Follows
<1>2. Follows(u, w, at)
  BY <1>1, SameFollows
<1>3. Follows(t, w, at)
  BY <1>2, FollowsTrans DEF Settled
<1>4. Young(w, at)
  BY DEF Settled, Young, Same
<1> QED
  BY <1>3, <1>4 DEF Settled

LEMMA SettledClose ==
  ASSUME NEW t, NEW u, NEW at \in Nat, NEW forced \in ForcedResults, Follows(t, u, at)
  PROVE  Settled(t, CloseInterval(u, at, forced), at)
<1> DEFINE w == CloseInterval(u, at, forced)
<1>1. u \in TrackerValue
  BY DEF Follows
<1>2. Follows(u, w, at) /\ w.cur = Nil
  BY <1>1, CloseIntervalFollows
<1> HIDE DEF w
<1>3. Follows(t, w, at)
  BY <1>2, FollowsTrans
<1>4. Young(w, at)
  BY <1>2 DEF Young
<1> QED
  BY <1>3, <1>4 DEF Settled, w

LEMMA NewIntervalType ==
  ASSUME NEW key \in OrderKeys \cup SynthKeys, NEW prod \in BOOLEAN, NEW at \in Nat,
         NEW result \in Results
  PROVE  /\ NewInterval(key, prod, at, result) \in Interval
         /\ NewInterval(key, prod, at, result).start = at
         /\ NewInterval(key, prod, at, result) # Nil
<1>1. NewInterval(key, prod, at, result) \in Interval
  <2>1. <<>> \in Seq(Row) /\ 0 \in Nat
    OBVIOUS
  <2> QED
    BY <2>1 DEF NewInterval, Interval
<1> QED
  BY <1>1, NilIsNothing DEF NewInterval

LEMMA OpenIntervalOpens ==
  ASSUME NEW t \in TrackerValue, t.cur = Nil, NEW key \in KeysOrNone,
         NEW want \in SynthResults, NEW at \in Nat
  PROVE  LET u == OpenInterval(t, key, want, at)
         IN  /\ u \in TrackerValue /\ u.closed = t.closed
             /\ u.cur # Nil /\ u.cur.start = at
<1> DEFINE fresh == [t EXCEPT !.seq = [l \in Lanes |-> 0]]
<1>1. fresh \in TrackerValue /\ fresh.closed = t.closed /\ fresh.synth = t.synth
  <2>1. [l \in Lanes |-> 0] \in [Lanes -> Nat]
    OBVIOUS
  <2> HIDE DEF fresh
  <2>2. \A f \in [Lanes -> Nat] :
           /\ [t EXCEPT !.seq = f] \in TrackerValue
           /\ [t EXCEPT !.seq = f].closed = t.closed
           /\ [t EXCEPT !.seq = f].synth = t.synth
    BY DEF TrackerValue
  <2> QED
    BY <2>1, <2>2 DEF fresh
<1>2. t.synth \in Nat
  BY DEF TrackerValue
<1> HIDE DEF fresh
<1>3. CASE key # NoKey
  <2> DEFINE iv == NewInterval(key, TRUE, at, "aborted")
  <2>1. iv \in Interval /\ iv.start = at /\ iv # Nil
    <3>1. key \in OrderKeys \cup SynthKeys /\ "aborted" \in Results
      BY <1>3 DEF KeysOrNone, Results
    <3> QED
      BY <3>1, NewIntervalType
  <2>2. OpenInterval(t, key, want, at) = [fresh EXCEPT !.cur = iv]
    BY <1>3 DEF OpenInterval, fresh
  <2> HIDE DEF iv
  <2> QED
    BY <1>1, <2>1, <2>2 DEF TrackerValue
<1>4. CASE key = NoKey
  <2> DEFINE n == t.synth + 1
             k == <<want, at, n % 10000>>
             iv == NewInterval(k, FALSE, at, want)
  <2>1. n \in Nat /\ n % 10000 \in Nat
    BY <1>2
  <2>2. k \in OrderKeys \cup SynthKeys
    <3> HIDE DEF n
    <3> QED
      BY <2>1 DEF SynthKeys
  <2>3. want \in Results
    BY DEF Results
  <2>4. iv \in Interval /\ iv.start = at /\ iv # Nil
    <3> HIDE DEF k
    <3> QED
      BY <2>2, <2>3, NewIntervalType
  <2>5. OpenInterval(t, key, want, at) = [fresh EXCEPT !.synth = n, !.cur = iv]
    BY <1>1, <1>4 DEF OpenInterval, fresh
  <2> HIDE DEF iv, k, n
  <2>6. \A m \in Nat, v \in Interval :
          /\ [fresh EXCEPT !.synth = m, !.cur = v] \in TrackerValue
          /\ [fresh EXCEPT !.synth = m, !.cur = v].closed = fresh.closed
          /\ [fresh EXCEPT !.synth = m, !.cur = v].cur = v
    BY <1>1 DEF TrackerValue
  <2>7. n \in Nat
    BY <2>1
  <2> DEFINE w == [fresh EXCEPT !.synth = n, !.cur = iv]
  <2>8. w \in TrackerValue /\ w.closed = t.closed /\ w.cur = iv
    BY <1>1, <2>4, <2>6, <2>7
  <2> HIDE DEF w
  <2> QED
    BY <2>4, <2>5, <2>8 DEF w
<1> QED
  BY <1>3, <1>4

(* A new interval that opens now follows whatever was closed before. *)
LEMMA OpenIntervalSettles ==
  ASSUME NEW t \in TrackerValue, t.cur = Nil, NEW key \in KeysOrNone,
         NEW want \in SynthResults, NEW at \in Nat
  PROVE  Settled(t, OpenInterval(t, key, want, at), at)
<1> DEFINE u == OpenInterval(t, key, want, at)
<1>1. u \in TrackerValue /\ u.closed = t.closed /\ u.cur # Nil /\ u.cur.start = at
  BY OpenIntervalOpens
<1> HIDE DEF u
<1>2. Young(u, at)
  BY <1>1, TrackerConstants DEF Young, TrackerConstants
<1>3. ASSUME NEW s \in Seq(Interval), NEW now \in Nat, now <= at, Chron(s, t, now)
      PROVE  Chron(s, u, at)
  <2> DEFINE q == s \o t.closed
  <2>1. q \in Seq(Interval)
    BY TrackerFields, ConcatProperties
  <2>2. Ordered(q) /\ \A i \in DOMAIN q : q[i].end <= now
    BY <1>3 DEF Chron
  <2>3. \A i \in DOMAIN q : q[i].end <= at
    <3> HIDE DEF q
    <3> QED
      BY <1>3, <2>1, <2>2, EndsBelow
  <2> QED
    BY <1>1, <2>2, <2>3 DEF Chron
<1> QED
  BY <1>1, <1>2, <1>3 DEF Settled, Follows, u

LEMMA ResultForStateType ==
  ASSUME NEW state PROVE ResultForState(state) \in SynthResults
BY DEF ResultForState, SynthResults

LEMMA ForcedResultsType ==
  /\ "" \in ForcedResults /\ "aborted" \in ForcedResults /\ "completed" \in ForcedResults
  /\ \A t \in TrackerValue : t.cur # Nil => t.cur.result \in ForcedResults
  /\ \A type : FaultResult(type) \in ForcedResults
<1>1. Results \subseteq ForcedResults /\ "" \in ForcedResults
  BY DEF ForcedResults
<1>2. "aborted" \in Results /\ "completed" \in Results
  BY DEF Results
<1>3. \A t \in TrackerValue : t.cur # Nil => t.cur.result \in Results
  BY TrackerFields, IntervalFields
<1>4. \A type : FaultResult(type) \in Results
  BY DEF FaultResult, FaultResults, Results
<1> QED
  BY <1>1, <1>2, <1>3, <1>4

(* ensureInterval, for any row: the partition goes on, an interval is open *)
(* afterwards, and it is younger than the cap.                             *)
LEMMA EnsureSettled ==
  ASSUME NEW t \in TrackerValue, NEW key \in KeysOrNone, NEW state, NEW at \in Nat
  PROVE  LET u == EnsureInterval(t, key, state, at)
         IN  Settled(t, u, at) /\ u \in TrackerValue /\ u.cur # Nil
<1> DEFINE want == ResultForState(state)
           forced == IF t.cur.prod THEN "aborted" ELSE t.cur.result
           young == IF OverCap(t, at) THEN CloseInterval(t, at, forced) ELSE t
           shut == CloseInterval(young, at, "")
           u == OpenInterval(shut, key, want, at)
<1>1. want \in SynthResults
  BY ResultForStateType
<1>2. Settled(t, young, at) /\ young \in TrackerValue
  <2>1. CASE OverCap(t, at)
    <3>1. forced \in ForcedResults
      BY <2>1, ForcedResultsType DEF OverCap
    <3>2. Same(t, t)
      BY DEF Same
    <3>3. Follows(t, t, at)
      BY <3>2, SameFollows
    <3> HIDE DEF forced
    <3>4. Settled(t, CloseInterval(t, at, forced), at)
      BY <3>1, <3>3, SettledClose
    <3> QED
      BY <2>1, <3>4 DEF Settled, Follows
  <2>2. CASE ~OverCap(t, at)
    <3>1. Same(t, t)
      BY DEF Same
    <3>2. Follows(t, t, at)
      BY <3>1, SameFollows
    <3>3. Young(t, at)
      <4> SUFFICES ASSUME MaxInterval > 0, t.cur # Nil PROVE at - t.cur.start < MaxInterval
        BY DEF Young
      <4>1. t.cur.start \in Nat
        BY TrackerFields, IntervalFields
      <4>2. ~(at - t.cur.start >= MaxInterval)
        BY <2>2 DEF OverCap
      <4> QED
        BY <4>1, <4>2, TrackerConstants DEF TrackerConstants
    <3> QED
      BY <2>2, <3>2, <3>3 DEF Settled
  <2> QED
    BY <2>1, <2>2
<1>3. EnsureInterval(t, key, state, at) = IF Fits(young, key, want) THEN young ELSE u
  BY DEF EnsureInterval
<1> HIDE DEF want, young
<1>4. Settled(t, shut, at) /\ shut \in TrackerValue /\ shut.cur = Nil
  <2>1. Settled(t, shut, at)
    BY <1>2, SettledClose, ForcedResultsType DEF Settled
  <2>2. shut.cur = Nil
    BY <1>2, CloseIntervalFollows, ForcedResultsType
  <2> QED
    BY <2>1, <2>2 DEF Settled, Follows
<1> HIDE DEF shut
<1>5. Settled(shut, u, at) /\ u \in TrackerValue /\ u.cur # Nil
  BY <1>1, <1>4, OpenIntervalSettles, OpenIntervalOpens
<1> HIDE DEF u
<1>6. Settled(t, u, at)
  BY <1>4, <1>5, FollowsTrans DEF Settled
<1>7. Fits(young, key, want) => young.cur # Nil
  BY DEF Fits
<1> QED
  BY <1>2, <1>3, <1>5, <1>6, <1>7

-----------------------------------------------------------------------------
(* Handlers *)

LEMMA OrderSettled ==
  ASSUME NEW t \in TrackerValue, NEW o \in OrderShape, NEW at \in Nat
  PROVE  Settled(t, ApplyOrder(t, o, at), at)
<1> DEFINE v == EnsureInterval(t, o.key, "AutoCycle", at)
           w == [v EXCEPT !.cur.recipe = TRUE]
<1>1. o.key \in KeysOrNone
  BY DEF OrderShape, KeysOrNone
<1>2. Settled(t, v, at) /\ v \in TrackerValue /\ v.cur # Nil
  BY <1>1, EnsureSettled
<1> HIDE DEF v
<1>3. Same(v, w)
  <2> DEFINE iv == [v.cur EXCEPT !.recipe = TRUE]
  <2>1. v.cur \in Interval
    BY <1>2, TrackerFields
  <2>2. /\ iv \in Interval /\ iv.start = v.cur.start /\ iv.prod = v.cur.prod
        /\ iv.key = v.cur.key /\ iv.result = v.cur.result
    BY <2>1 DEF Interval
  <2>3. iv # Nil
    BY <2>2, NilIsNothing
  <2>4. w = [v EXCEPT !.cur = iv]
    BY <1>2 DEF TrackerValue
  <2> HIDE DEF iv, w
  <2>5. w \in TrackerValue /\ w.cur = iv /\ w.closed = v.closed
    BY <1>2, <2>2, <2>4 DEF TrackerValue
  <2> QED
    BY <1>2, <2>2, <2>3, <2>5 DEF Same
<1> HIDE DEF w
<1>4. Settled(t, w, at)
  BY <1>2, <1>3, SettledSame
<1> QED
  BY <1>4 DEF ApplyOrder, v, w

LEMMA TrackStateSpanSame ==
  ASSUME NEW t \in TrackerValue, NEW e \in EventShape, NEW at \in Nat
  PROVE  Same(t, TrackStateSpan(t, e, at))
<1> DEFINE c == CloseStateSpanAt(t, at)
           span == [state |-> e.state, entered |-> at]
<1>1. Same(t, t)
  BY DEF Same
<1>2. Same(t, c) /\ c \in TrackerValue
  BY CloseStateSpanSame DEF Same
<1>3. span \in Span
  BY DEF EventShape, Span
<1> HIDE DEF c, span
<1>4. Same(c, [c EXCEPT !.span = span])
  BY <1>2, <1>3 DEF Same, TrackerValue
<1>5. Same(t, [c EXCEPT !.span = span])
  BY <1>2, <1>4, SameTrans
<1> QED
  BY <1>1, <1>5 DEF TrackStateSpan, c, span

LEMMA TrackDwellSame ==
  ASSUME NEW t \in TrackerValue, NEW e \in EventShape, NEW at \in Nat
  PROVE  Same(t, TrackDwell(t, e, at))
<1> DEFINE lane == LaneForState(e.state)
           step == IF e.stepTo = NoStep THEN e.stepFrom ELSE e.stepTo
           c == CloseDwell(t, lane, at)
           d == [state |-> e.state, step |-> step, start |-> at, seq |-> t.seq[lane]]
           w == [c EXCEPT !.dwell[lane] = d, !.seq[lane] = @ + 1]
<1>1. Same(t, t)
  BY DEF Same
<1>2. lane \in Lanes
  BY DEF LaneForState, Lanes
<1>3. e.state \in STRING /\ step \in Int
  BY DEF EventShape
<1> HIDE DEF lane, step
<1>4. Same(t, c) /\ c \in TrackerValue
  BY <1>2, CloseDwellSame DEF Same
<1>5. t.seq[lane] \in Nat /\ c.seq[lane] + 1 \in Nat
  <2>1. t.seq[lane] \in Nat /\ c.seq[lane] \in Nat
    BY <1>2, <1>4, TrackerFields
  <2> QED
    BY <2>1
<1>6. d \in Dwell
  BY <1>3, <1>5 DEF Dwell
<1> HIDE DEF c, d
<1>7. Same(c, w)
  BY <1>2, <1>4, <1>5, <1>6 DEF Same, TrackerValue
<1> HIDE DEF w
<1>8. Same(t, w)
  BY <1>4, <1>7, SameTrans
<1>9. TrackDwell(t, e, at) = t \/ TrackDwell(t, e, at) = w
  BY DEF TrackDwell, w, d, c, lane, step
<1> QED
  BY <1>1, <1>8, <1>9

LEMMA EventSettled ==
  ASSUME NEW t \in TrackerValue, NEW e \in EventShape, NEW at \in Nat
  PROVE  Settled(t, ApplyFSMEvent(t, e, at), at)
<1> DEFINE v == EnsureInterval(t, e.key, e.state, at)
           s == TrackStateSpan(v, e, at)
           d == IF UseStepRuns THEN s ELSE TrackDwell(s, e, at)
<1>1. e.key \in KeysOrNone
  BY DEF EventShape, KeysOrNone
<1>2. Settled(t, v, at) /\ v \in TrackerValue
  BY <1>1, EnsureSettled
<1> HIDE DEF v
<1>3. Same(v, s) /\ s \in TrackerValue
  BY <1>2, TrackStateSpanSame DEF Same
<1> HIDE DEF s
<1>4. Settled(t, s, at)
  BY <1>2, <1>3, SettledSame
<1>5. Settled(t, d, at)
  BY <1>3, <1>4, TrackDwellSame, SettledSame
<1> HIDE DEF d
<1>6. Settled(t, CloseInterval(d, at, "completed"), at)
  BY <1>5, SettledClose, ForcedResultsType DEF Settled
<1> QED
  BY <1>5, <1>6 DEF ApplyFSMEvent, d, s, v

LEMMA RecordLedgerFaultSame ==
  ASSUME NEW t \in TrackerValue, NEW type \in STRING, NEW at \in Nat
  PROVE  Same(t, RecordLedgerFault(t, type, at))
<1> DEFINE l == {n \in t.ledger \cup {[type |-> type, at |-> at]} : n.at >= at - MaxInterval}
<1>1. l \in SUBSET [type : STRING, at : Nat]
  BY DEF TrackerValue
<1>2. RecordLedgerFault(t, type, at) = [t EXCEPT !.ledger = l]
  BY DEF RecordLedgerFault, TrackerValue
<1> HIDE DEF l
<1> QED
  BY <1>1, <1>2 DEF Same, TrackerValue

LEMMA FaultSettled ==
  ASSUME NEW t \in TrackerValue, NEW f \in FaultShape, NEW at \in Nat, NEW id \in Nat
  PROVE  Settled(t, ApplyFault(t, f, at, id), at)
<1> DEFINE v == EnsureInterval(t, f.key, f.state, at)
           n == RecordLedgerFault(v, f.type, at)
           main == n.dwell["main"]
           num == IF main = Nil THEN NoStep ELSE main.seq
           row == FaultRow(f.type, at, id, num)
           a == AddRow(n, row)
<1>1. f.key \in KeysOrNone /\ f.type \in STRING
  BY DEF FaultShape, KeysOrNone
<1>2. Settled(t, v, at) /\ v \in TrackerValue /\ v.cur # Nil
  BY <1>1, EnsureSettled
<1> HIDE DEF v
<1>3. Same(v, n) /\ n \in TrackerValue /\ n.cur # Nil
  BY <1>1, <1>2, RecordLedgerFaultSame DEF Same
<1> HIDE DEF n
<1>4. num \in NatOrNull
  <2>1. "main" \in Lanes
    BY DEF Lanes
  <2>2. main # Nil => main \in Dwell
    BY <1>3, <2>1, TrackerFields
  <2> HIDE DEF main
  <2> QED
    BY <2>2 DEF NatOrNull, Dwell
<1> HIDE DEF num
<1>5. row \in Row
  BY <1>1, <1>4, RowTypes
<1> HIDE DEF row
<1>6. Same(n, a)
  BY <1>3, <1>5, AddRowSame
<1> HIDE DEF a
<1>7. Settled(t, n, at)
  BY <1>2, <1>3, SettledSame
<1>8. Settled(t, a, at)
  BY <1>6, <1>7, SettledSame
<1>9. Settled(t, CloseInterval(a, at, FaultResult(f.type)), at)
  BY <1>8, SettledClose, ForcedResultsType DEF Settled
<1> QED
  BY <1>8, <1>9 DEF ApplyFault, a, row, num, main, n, v

LEMMA CloseDoorEpisodeSame ==
  ASSUME NEW t \in TrackerValue, t.cur # Nil, NEW at \in Nat, NEW id \in Nat
  PROVE  Same(t, CloseDoorEpisode(t, at, id))
<1> DEFINE row == DoorRow(t.door, at, id)
           a == AddRow(t, row)
<1>1. Same(t, [t EXCEPT !.door = Nil])
  BY DEF Same, TrackerValue
<1>2. CASE t.door # Nil /\ at > t.door.opened
  <2>1. t.door \in Door
    BY <1>2, TrackerFields
  <2>3. row \in Row
    BY <2>1, DoorRowType
  <2> HIDE DEF row
  <2>4. Same(t, a)
    BY <2>3, AddRowSame
  <2> HIDE DEF a
  <2>5. Same(a, [a EXCEPT !.door = Nil])
    BY <2>4 DEF Same, TrackerValue
  <2>6. Same(t, [a EXCEPT !.door = Nil])
    BY <2>4, <2>5, SameTrans
  <2> QED
    BY <1>2, <2>6 DEF CloseDoorEpisode, a, row
<1>3. CASE ~(t.door # Nil /\ at > t.door.opened)
  BY <1>1, <1>3 DEF CloseDoorEpisode
<1> QED
  BY <1>2, <1>3

LEMMA DoorSignalsSame ==
  ASSUME NEW t \in TrackerValue, t.cur # Nil, NEW s, NEW at \in Nat, NEW id \in Nat
  PROVE  Same(t, ApplyDoorSignals(t, s, at, id))
<1> DEFINE open == [opened |-> at, resets |-> 0]
<1>1. Same(t, t)
  BY DEF Same
<1>2. Same(t, CloseDoorEpisode(t, at, id))
  BY CloseDoorEpisodeSame
<1>3. open \in Door
  BY DEF Door
<1> HIDE DEF open
<1>4. Same(t, [t EXCEPT !.door = open])
  BY <1>3 DEF Same, TrackerValue
<1>5. t.door # Nil => Same(t, [t EXCEPT !.door.resets = @ + 1])
  <2> SUFFICES ASSUME t.door # Nil PROVE Same(t, [t EXCEPT !.door.resets = @ + 1])
    OBVIOUS
  <2> DEFINE d == [t.door EXCEPT !.resets = @ + 1]
  <2>1. t.door \in Door
    BY TrackerFields
  <2>2. d \in Door
    BY <2>1 DEF Door
  <2>3. [t EXCEPT !.door.resets = @ + 1] = [t EXCEPT !.door = d]
    BY DEF TrackerValue
  <2> HIDE DEF d
  <2>4. Same(t, [t EXCEPT !.door = d])
    BY <2>2 DEF Same, TrackerValue
  <2> QED
    BY <2>3, <2>4
<1> QED
  BY <1>1, <1>2, <1>4, <1>5 DEF ApplyDoorSignals, open

LEMMA ToggleSettled ==
  ASSUME NEW t \in TrackerValue, NEW s \in ToggleShape, NEW at \in Nat, NEW id \in Nat
  PROVE  Settled(t, ApplySensorToggle(t, s, at, id), at)
<1> DEFINE v == EnsureInterval(t, s.key, s.state, at)
           d == ApplyDoorSignals(v, s, at, id)
           row == ToggleRow(s.input, at, id)
           a == AddRow(d, row)
<1>1. s.key \in KeysOrNone /\ s.input \in STRING
  BY DEF ToggleShape, KeysOrNone
<1>2. Settled(t, v, at) /\ v \in TrackerValue /\ v.cur # Nil
  BY <1>1, EnsureSettled
<1> HIDE DEF v
<1>3. Same(v, d) /\ d \in TrackerValue /\ d.cur # Nil
  BY <1>2, DoorSignalsSame DEF Same
<1> HIDE DEF d
<1>4. row \in Row
  <2>1. 0 \in NatOrNull
    BY DEF NatOrNull
  <2> QED
    BY <1>1, <2>1, RowTypes
<1> HIDE DEF row
<1>5. Same(d, a)
  BY <1>3, <1>4, AddRowSame
<1> HIDE DEF a
<1>6. Same(v, a)
  BY <1>3, <1>5, SameTrans
<1>7. Settled(t, a, at)
  BY <1>2, <1>6, SettledSame
<1> QED
  BY <1>7 DEF ApplySensorToggle, a, row, d, v

LEMMA ConfigSettled ==
  ASSUME NEW t \in TrackerValue, NEW k \in STRING, NEW at \in Nat, NEW id \in Nat
  PROVE  Settled(t, ApplyConfigChange(t, k, at, id), at)
<1> DEFINE state == IF t.cur # Nil /\ ~t.cur.prod THEN t.cur.result ELSE ""
           v == EnsureInterval(t, NoKey, state, at)
           row == ConfigRow(k, at, id)
           a == AddRow(v, row)
<1> HIDE DEF state
<1>1. NoKey \in KeysOrNone
  BY DEF KeysOrNone
<1>2. Settled(t, v, at) /\ v \in TrackerValue /\ v.cur # Nil
  BY <1>1, EnsureSettled
<1> HIDE DEF v
<1>3. row \in Row
  <2>1. 0 \in NatOrNull
    BY DEF NatOrNull
  <2> QED
    BY <2>1, RowTypes
<1> HIDE DEF row
<1>4. Same(v, a)
  BY <1>2, <1>3, AddRowSame
<1> HIDE DEF a
<1>5. Settled(t, a, at)
  BY <1>2, <1>4, SettledSame
<1> QED
  BY <1>5 DEF ApplyConfigChange, a, row, v, state

LEMMA StepRunFaultType ==
  ASSUME NEW t \in TrackerValue, t.cur # Nil, NEW sr \in StepRunShape,
         NEW start, NEW end \in Nat, NEW seq \in Nat, NEW id \in Nat
  PROVE  ApplyStepRunFault(t, sr, start, end, seq, id) \in TrackerValue
<1> DEFINE row == FaultRow(sr.fault, end, id, seq)
           f == AddRow(t, row)
<1>1. row \in Row
  <2>1. sr.fault \in STRING /\ seq \in NatOrNull
    BY DEF StepRunShape, NatOrNull
  <2> QED
    BY <2>1, RowTypes
<1> HIDE DEF row
<1>2. f \in TrackerValue
  BY <1>1, AddRowSame DEF Same
<1> HIDE DEF f
<1>3. CloseInterval(f, end, FaultResult(sr.fault)) \in TrackerValue
  BY <1>2, ForcedResultsType, CloseIntervalFollows
<1> QED
  BY <1>2, <1>3 DEF ApplyStepRunFault, f, row

LEMMA StepRunType ==
  ASSUME NEW t \in TrackerValue, NEW sr \in StepRunShape, NEW at \in Nat,
         sr.len <= at, NEW id \in Nat
  PROVE  ApplyStepRun(t, sr, at, id) \in TrackerValue
<1> DEFINE start == at - sr.len
           in == EnsureInterval(t, sr.key, sr.state, start)
           lane == LaneForState(sr.state)
           n == in.seq[lane]
           counted == [in EXCEPT !.seq[lane] = @ + 1]
           row == DwellRow(lane, sr.state, start, at, n)
           dwelt == AddRow(counted, row)
           done == ApplyStepRunFault(dwelt, sr, start, at, n, id)
<1>1. start \in Nat /\ sr.key \in KeysOrNone /\ sr.state \in STRING
  <2>1. sr.len \in Nat /\ sr.key \in KeysOrNone /\ sr.state \in STRING
    BY DEF StepRunShape, KeysOrNone
  <2> QED
    BY <2>1
<1>2. lane \in Lanes
  BY DEF LaneForState, Lanes
<1> HIDE DEF start, lane
<1>3. in \in TrackerValue /\ in.cur # Nil
  BY <1>1, EnsureSettled
<1> HIDE DEF in
<1>4. n \in Nat /\ n + 1 \in Nat
  <2>1. n \in Nat
    BY <1>2, <1>3, TrackerFields
  <2> QED
    BY <2>1
<1>5. counted \in TrackerValue /\ counted.cur # Nil
  <2>1. counted = [in EXCEPT !.seq[lane] = n + 1]
    OBVIOUS
  <2> HIDE DEF n
  <2> QED
    BY <1>2, <1>3, <1>4, <2>1 DEF TrackerValue
<1> HIDE DEF n, counted
<1>6. row \in Row
  <2>1. n \in NatOrNull
    BY <1>4 DEF NatOrNull
  <2> QED
    BY <1>1, <1>2, <2>1, RowTypes
<1> HIDE DEF row
<1>7. dwelt \in TrackerValue /\ dwelt.cur # Nil
  BY <1>5, <1>6, AddRowSame DEF Same
<1> HIDE DEF dwelt
<1>8. done \in TrackerValue
  BY <1>4, <1>7, StepRunFaultType
<1> HIDE DEF done
<1>9. CloseInterval(done, at, "completed") \in TrackerValue
  BY <1>8, CloseIntervalFollows, ForcedResultsType
<1> QED
  BY <1>3, <1>5, <1>8, <1>9 DEF ApplyStepRun, done, dwelt, row, counted, n, lane, in, start

(* The shutdown flush ends the open interval now, or a millisecond later   *)
(* when it opened just now.                                                *)
LEMMA FlushOpenSettles ==
  ASSUME NEW t \in TrackerValue, NEW now \in Nat
  PROVE  /\ FlushOpen(t, now) \in TrackerValue
         /\ FlushOpen(t, now).cur = Nil
         /\ \A s \in Seq(Interval) : Chron(s, t, now) => Chron(s, FlushOpen(t, now), now + 1)
<1>1. CASE t.cur = Nil
  <2>1. Same(t, t)
    BY DEF Same
  <2>2. Follows(t, t, now + 1)
    BY <2>1, SameFollows
  <2> QED
    BY <1>1, <2>2 DEF FlushOpen, Follows
<1>2. CASE t.cur # Nil
  <2> DEFINE end == IF now <= t.cur.start THEN t.cur.start + 1 ELSE now
             forced == IF t.cur.prod THEN "aborted" ELSE t.cur.result
             u == CloseInterval(t, end, forced)
  <2>1. t.cur.start \in Nat
    BY <1>2, TrackerFields, IntervalFields
  <2>2. end \in Nat /\ now <= end /\ (t.cur.start <= now => end <= now + 1)
    BY <2>1
  <2>3. forced \in ForcedResults
    BY <1>2, ForcedResultsType
  <2>4. FlushOpen(t, now) = u
    BY <1>2 DEF FlushOpen
  <2> HIDE DEF end, forced
  <2>5. Follows(t, u, end) /\ u \in TrackerValue /\ u.cur = Nil
    BY <2>2, <2>3, CloseIntervalFollows
  <2> HIDE DEF u
  <2>6. ASSUME NEW s \in Seq(Interval), Chron(s, t, now)
        PROVE  Chron(s, u, now + 1)
    <3>1. Chron(s, u, end)
      BY <2>2, <2>5, <2>6 DEF Follows
    <3>2. end <= now + 1
      BY <1>2, <2>2, <2>6 DEF Chron
    <3>3. Same(u, u)
      BY <2>5 DEF Same
    <3>4. Follows(u, u, now + 1)
      BY <2>5, <3>3, SameFollows
    <3> QED
      BY <2>2, <3>1, <3>2, <3>4 DEF Follows
  <2> QED
    BY <2>4, <2>5, <2>6
<1> QED
  BY <1>1, <1>2

-----------------------------------------------------------------------------
(* PendingIntervals *)

(* Ranks count from 0, and no two positions have the same one: the pigeon- *)
(* hole principle gives every place of the result an element.              *)
LEMMA SortByEndType ==
  ASSUME NEW s \in Seq(Interval)
  PROVE  /\ SortByEnd(s) \in Seq(Interval)
         /\ \A k \in DOMAIN SortByEnd(s) : \E i \in DOMAIN s : SortByEnd(s)[k] = s[i]
<1> DEFINE n == Len(s)
           D == 1 .. n
           Before(i) == {j \in D : EndsBefore(s, j, i)}
           R == 0 .. n - 1
           rank == [i \in D |-> Cardinality(Before(i))]
<1>1. n \in Nat /\ DOMAIN s = D
  BY LenProperties
<1>2. \A i \in D : s[i] \in Interval /\ s[i].end \in Nat
  BY <1>1, ElementOfSeq, IntervalFields
<1>3. IsFiniteSet(D) /\ Cardinality(D) = n
  BY <1>1, FS_Interval
<1>4. IsFiniteSet(R) /\ Cardinality(R) = n
  BY <1>1, FS_Interval
<1>5. \A i \in D : IsFiniteSet(Before(i)) /\ Cardinality(Before(i)) \in Nat
  BY <1>3, FS_Subset, FS_CardinalityType
<1> HIDE DEF n
<1>6. \A i, j \in D : i # j => EndsBefore(s, i, j) \/ EndsBefore(s, j, i)
  BY <1>1, <1>2 DEF EndsBefore
<1>7. \A i \in D : ~EndsBefore(s, i, i)
  BY <1>1, <1>2 DEF EndsBefore
<1>8. \A i, j, k \in D : EndsBefore(s, i, j) /\ EndsBefore(s, j, k) => EndsBefore(s, i, k)
  BY <1>1, <1>2 DEF EndsBefore
<1>9. ASSUME NEW i \in D, NEW j \in D, EndsBefore(s, i, j)
      PROVE  Cardinality(Before(i)) < Cardinality(Before(j))
  <2>1. Before(i) \subseteq Before(j) /\ i \in Before(j) /\ i \notin Before(i)
    BY <1>7, <1>8, <1>9
  <2> HIDE DEF Before
  <2>2. /\ Cardinality(Before(i)) <= Cardinality(Before(j))
        /\ Cardinality(Before(j)) = Cardinality(Before(i)) => Before(j) = Before(i)
    BY <1>5, <1>9, <2>1, FS_Subset
  <2> QED
    BY <1>5, <1>9, <2>1, <2>2
<1>10. \A i \in D : Cardinality(Before(i)) \in R
  <2> TAKE i \in D
  <2>1. Before(i) \subseteq D /\ i \notin Before(i)
    BY <1>7
  <2> HIDE DEF Before
  <2>2. /\ Cardinality(Before(i)) <= n
        /\ n = Cardinality(Before(i)) => D = Before(i)
    BY <1>3, <2>1, FS_Subset
  <2>3. Cardinality(Before(i)) # n
    BY <2>1, <2>2
  <2> QED
    BY <1>1, <1>5, <2>2, <2>3
<1>11. rank \in [D -> R]
  BY <1>10
<1>12. rank \in Injection(D, R)
  <2>1. \A i, j \in D : i # j => Cardinality(Before(i)) # Cardinality(Before(j))
    <3> SUFFICES ASSUME NEW i \in D, NEW j \in D, i # j
                 PROVE  Cardinality(Before(i)) # Cardinality(Before(j))
      OBVIOUS
    <3> HIDE DEF Before
    <3>1. Cardinality(Before(i)) < Cardinality(Before(j)) \/ Cardinality(Before(j)) < Cardinality(Before(i))
      BY <1>6, <1>9
    <3> QED
      BY <1>5, <3>1
  <2> HIDE DEF Before
  <2> QED
    BY <1>11, <2>1 DEF Injection, IsInjective
<1>13. rank \in Surjection(D, R)
  <2> HIDE DEF rank
  <2> QED
    BY <1>3, <1>4, <1>12, FS_Injection
<1>14. \A k \in D : \E i \in D : EndRank(s, i) = k - 1
  <2> TAKE k \in D
  <2>1. k - 1 \in R
    BY <1>1
  <2>2. PICK i \in D : rank[i] = k - 1
    <3> HIDE DEF rank, R, D
    <3> QED
      BY <1>13, <2>1 DEF Surjection
  <2>3. EndRank(s, i) = rank[i]
    BY <1>1 DEF EndRank
  <2> QED
    BY <2>2, <2>3
<1> DEFINE Place(k) == CHOOSE i \in D : EndRank(s, i) = k - 1
<1>15. \A k \in D : Place(k) \in D
  BY <1>14
<1>16. SortByEnd(s) = [k \in D |-> s[Place(k)]]
  BY <1>1 DEF SortByEnd
<1> HIDE DEF Place, D
<1>17. \A k \in D : s[Place(k)] \in Interval
  BY <1>2, <1>15
<1>18. [k \in D |-> s[Place(k)]] \in Seq(Interval)
  <2> HIDE DEF Before, rank, R
  <2> QED
    BY <1>1, <1>17, IsASeq DEF D
<1>19. \A k \in D : [j \in D |-> s[Place(j)]][k] = s[Place(k)]
  OBVIOUS
<1> QED
  BY <1>1, <1>15, <1>16, <1>18, <1>19

(* Intervals that are already in order stay where they are. *)
LEMMA SortByEndSorted ==
  ASSUME NEW s \in Seq(Interval), Ordered(s)
  PROVE  SortByEnd(s) = s
<1> DEFINE n == Len(s)
           D == 1 .. n
<1>1. n \in Nat /\ DOMAIN s = D /\ s = [i \in D |-> s[i]]
  BY LenProperties
<1>2. \A i \in D : s[i].start \in Nat /\ s[i].end \in Nat
  BY <1>1, ElementOfSeq, IntervalFields
<1> HIDE DEF n
<1>3. \A i \in D : s[i].start < s[i].end
  BY <1>1 DEF Ordered
<1>4. \A i, j \in D : i < j => s[i].end <= s[j].start
  BY <1>1 DEF Ordered
<1>5. \A i \in D : EndRank(s, i) = i - 1
  <2> TAKE i \in D
  <2>1. \A j \in D : EndsBefore(s, j, i) <=> j < i
    <3> TAKE j \in D
    <3>1. CASE j < i
      <4>1. s[j].end <= s[i].start /\ s[i].start < s[i].end
        BY <1>3, <1>4, <3>1
      <4> QED
        BY <1>2, <3>1, <4>1 DEF EndsBefore
    <3>2. CASE i < j
      <4>1. s[i].end <= s[j].start /\ s[j].start < s[j].end
        BY <1>3, <1>4, <3>2
      <4> QED
        BY <1>1, <1>2, <3>2, <4>1 DEF EndsBefore
    <3>3. CASE i = j
      BY <1>1, <1>2, <3>3 DEF EndsBefore
    <3> QED
      BY <1>1, <3>1, <3>2, <3>3
  <2>2. {j \in D : EndsBefore(s, j, i)} = 1 .. i - 1
    BY <1>1, <2>1
  <2>3. Cardinality(1 .. i - 1) = i - 1
    <3>1. i - 1 \in Int /\ 1 \in Int /\ i \in Nat /\ i >= 1
      BY <1>1
    <3>2. Cardinality(1 .. i - 1) = IF 1 > i - 1 THEN 0 ELSE (i - 1) - 1 + 1
      BY <3>1, FS_Interval
    <3> QED
      BY <3>1, <3>2
  <2> QED
    BY <1>1, <2>2, <2>3 DEF EndRank
<1>6. \A k \in D : (CHOOSE i \in D : EndRank(s, i) = k - 1) = k
  <2> TAKE k \in D
  <2>1. \A i \in D : EndRank(s, i) = k - 1 => i = k
    <3> TAKE i \in D
    <3>1. i \in Int /\ k \in Int
      BY <1>1
    <3> QED
      BY <1>5, <3>1
  <2>2. EndRank(s, k) = k - 1
    BY <1>5
  <2> QED
    BY <2>1, <2>2
<1>7. SortByEnd(s) = [k \in D |-> s[CHOOSE i \in D : EndRank(s, i) = k - 1]]
  BY <1>1 DEF SortByEnd
<1>8. SortByEnd(s) = [k \in D |-> s[k]]
  BY <1>6, <1>7
<1> QED
  BY <1>1, <1>8

-----------------------------------------------------------------------------
(* Type correctness *)

LEMMA NewTrackerType == NewTracker \in TrackerValue /\ NewTracker.cur = Nil
                        /\ NewTracker.closed = <<>>
<1>1. /\ [l \in Lanes |-> 0] \in [Lanes -> Nat]
      /\ [l \in Lanes |-> Nil] \in [Lanes -> Dwell \cup {Nil}]
      /\ <<>> \in Seq(Interval) /\ 0 \in Nat
      /\ {} \in SUBSET [type : STRING, at : Nat]
  OBVIOUS
<1> QED
  BY <1>1 DEF NewTracker, TrackerValue

LEMMA FedType ==
  ASSUME TypeOK, NEW kind \in Kinds, NEW at \in Nat,
         NEW row \in OrderShape \cup EventShape \cup FaultShape \cup ToggleShape
                      \cup StepRunShape \cup [config : STRING],
         Fed(kind, row, at)
  PROVE  /\ latest' \in Nat /\ stopped' \in BOOLEAN
         /\ fed' \in Seq(FedRow) /\ out' \in Seq(Interval)
<1>1. [kind |-> kind, row |-> row, at |-> at] \in FedRow
  BY DEF FedRow
<1>2. fed' \in Seq(FedRow)
  BY <1>1, AppendProperties DEF TypeOK, Fed
<1> QED
  BY <1>2 DEF TypeOK, Fed

LEMMA NextIdType == TypeOK => NextId \in Nat
BY LenProperties DEF TypeOK, NextId

LEMMA SettledType ==
  ASSUME NEW t, NEW u, NEW at, Settled(t, u, at) PROVE u \in TrackerValue
BY DEF Settled, Follows

(* The variables of Tracker stay in their types, whatever rows arrive and  *)
(* however late: every result is in the vocabulary, the queue and the      *)
(* output hold whole intervals, and no handler ever meets a nil interval.  *)
THEOREM TypeCorrect == Spec => []TypeOK
<1>1. Init => TypeOK
  <2>1. <<>> \in Seq(FedRow) /\ <<>> \in Seq(Interval) /\ 0 \in Nat
    OBVIOUS
  <2> QED
    BY <2>1, NewTrackerType DEF Init, TypeOK
<1>2. TypeOK /\ [Next]_vars => TypeOK'
  <2> SUFFICES ASSUME TypeOK, [Next]_vars PROVE TypeOK'
    OBVIOUS
  <2>1. trk \in TrackerValue /\ latest \in Nat /\ NextId \in Nat
    BY NextIdType DEF TypeOK
  <2>2. ASSUME NEW at \in 0 .. MaxTime, NEW o \in Orders, OrderArrives(o, at) PROVE TypeOK'
    <3>1. o \in OrderShape /\ at \in Nat /\ "order" \in Kinds
      BY SourceShapes DEF SourceShapes, Kinds
    <3>2. Fed("order", o, at) /\ trk' = ApplyOrder(trk, o, at)
      BY <2>2 DEF OrderArrives
    <3>3. trk' \in TrackerValue
      BY <2>1, <3>1, <3>2, OrderSettled, SettledType
    <3> QED
      BY <3>1, <3>2, <3>3, FedType DEF TypeOK
  <2>3. ASSUME NEW at \in 0 .. MaxTime, NEW e \in Events, EventArrives(e, at) PROVE TypeOK'
    <3>1. e \in EventShape /\ at \in Nat /\ "event" \in Kinds
      BY SourceShapes DEF SourceShapes, Kinds
    <3>2. Fed("event", e, at) /\ trk' = ApplyFSMEvent(trk, e, at)
      BY <2>3 DEF EventArrives
    <3>3. trk' \in TrackerValue
      BY <2>1, <3>1, <3>2, EventSettled, SettledType
    <3> QED
      BY <3>1, <3>2, <3>3, FedType DEF TypeOK
  <2>4. ASSUME NEW at \in 0 .. MaxTime, NEW f \in Faults, FaultArrives(f, at) PROVE TypeOK'
    <3>1. f \in FaultShape /\ at \in Nat /\ "fault" \in Kinds
      BY SourceShapes DEF SourceShapes, Kinds
    <3>2. Fed("fault", f, at) /\ trk' = ApplyFault(trk, f, at, NextId)
      BY <2>4 DEF FaultArrives
    <3>3. trk' \in TrackerValue
      BY <2>1, <3>1, <3>2, FaultSettled, SettledType
    <3> QED
      BY <3>1, <3>2, <3>3, FedType DEF TypeOK
  <2>5. ASSUME NEW at \in 0 .. MaxTime, NEW s \in Toggles, ToggleArrives(s, at) PROVE TypeOK'
    <3>1. s \in ToggleShape /\ at \in Nat /\ "toggle" \in Kinds
      BY SourceShapes DEF SourceShapes, Kinds
    <3>2. Fed("toggle", s, at) /\ trk' = ApplySensorToggle(trk, s, at, NextId)
      BY <2>5 DEF ToggleArrives
    <3>3. trk' \in TrackerValue
      BY <2>1, <3>1, <3>2, ToggleSettled, SettledType
    <3> QED
      BY <3>1, <3>2, <3>3, FedType DEF TypeOK
  <2>6. ASSUME NEW at \in 0 .. MaxTime, NEW sr \in StepRuns, StepRunArrives(sr, at) PROVE TypeOK'
    <3>1. sr \in StepRunShape /\ at \in Nat /\ "step_run" \in Kinds
      BY SourceShapes DEF SourceShapes, Kinds
    <3>2. Fed("step_run", sr, at) /\ trk' = ApplyStepRun(trk, sr, at, NextId) /\ sr.len <= at
      BY <2>6 DEF StepRunArrives
    <3>3. trk' \in TrackerValue
      BY <2>1, <3>1, <3>2, StepRunType
    <3> QED
      BY <3>1, <3>2, <3>3, FedType DEF TypeOK
  <2>7. ASSUME NEW k \in ConfigKeys, ConfigChanges(k) PROVE TypeOK'
    <3>1. k \in STRING /\ "config" \in Kinds /\ [config |-> k] \in [config : STRING]
      BY SourceShapes DEF SourceShapes, Kinds
    <3>2. Fed("config", [config |-> k], latest) /\ trk' = ApplyConfigChange(trk, k, latest, NextId)
      BY <2>7 DEF ConfigChanges
    <3>3. trk' \in TrackerValue
      BY <2>1, <3>1, <3>2, ConfigSettled, SettledType
    <3> QED
      BY <2>1, <3>1, <3>2, <3>3, FedType DEF TypeOK
  <2>8. CASE Take
    <3>1. SortByEnd(trk.closed) \in Seq(Interval)
      BY <2>1, TrackerFields, SortByEndType
    <3>2. out' \in Seq(Interval)
      BY <2>8, <3>1, ConcatProperties DEF Take, TypeOK
    <3>3. trk' \in TrackerValue
      <4>1. <<>> \in Seq(Interval)
        OBVIOUS
      <4> QED
        BY <2>1, <2>8, <4>1 DEF Take, TakePending, TrackerValue
    <3> QED
      BY <2>8, <3>2, <3>3 DEF Take, TypeOK
  <2>9. CASE Shutdown
    <3>1. trk' \in TrackerValue
      BY <2>1, <2>9, FlushOpenSettles DEF Shutdown
    <3> QED
      BY <2>9, <3>1 DEF Shutdown, TypeOK
  <2>10. CASE UNCHANGED vars
    BY <2>10 DEF vars, TypeOK
  <2> QED
    BY <2>2, <2>3, <2>4, <2>5, <2>6, <2>7, <2>8, <2>9, <2>10 DEF Next
<1> QED
  BY <1>1, <1>2, PTL DEF Spec

-----------------------------------------------------------------------------
(* The partition, on a timeline in order and with no step-run rows: a step *)
(* run is placed at its end and looks its interval up at its start, which  *)
(* may lie in an interval that a fault has closed meanwhile.               *)

TimelineInOrder == StepRuns = {} /\ MaxLate = 0

Now == IF stopped THEN latest + 1 ELSE latest

Inv ==
  /\ TypeOK
  /\ latest > 0 => \E n \in DOMAIN fed : fed[n].at = latest
  /\ Chron(out, trk, Now)
  /\ Young(trk, latest)

LEMMA InvInit == Init => Inv
<1> SUFFICES ASSUME Init PROVE Inv
  OBVIOUS
<1>1. TypeOK
  <2>1. <<>> \in Seq(FedRow) /\ <<>> \in Seq(Interval) /\ 0 \in Nat
    OBVIOUS
  <2> QED
    BY <2>1, NewTrackerType DEF Init, TypeOK
<1>2. Chron(out, trk, Now)
  <2>1. out \o trk.closed = <<>>
    BY NewTrackerType DEF Init
  <2> QED
    BY <2>1, NewTrackerType DEF Init, Chron, Ordered
<1> QED
  BY <1>1, <1>2, NewTrackerType DEF Init, Inv, Young

(* Any handler: what it settles at the time of its row, the invariant has. *)
LEMMA InvHandler ==
  ASSUME Inv, TypeOK', NEW kind, NEW row, NEW at \in Nat, latest <= at, ~stopped,
         Fed(kind, row, at), Settled(trk, trk', at)
  PROVE  Inv'
<1>1. Chron(out, trk', at)
  BY DEF Inv, TypeOK, Now, Settled, Follows
<1>2. Chron(out, trk, Now)'
  BY <1>1 DEF Fed, Now
<1>3. (\E n \in DOMAIN fed : fed[n].at = latest)'
  <2> DEFINE r == [kind |-> kind, row |-> row, at |-> at]
  <2>1. fed \in Seq(FedRow) /\ Len(fed) \in Nat
    BY LenProperties DEF Inv, TypeOK
  <2>2. Len(fed) + 1 \in DOMAIN Append(fed, r) /\ Append(fed, r)[Len(fed) + 1] = r
    BY <2>1
  <2> QED
    BY <2>2 DEF Fed
<1>4. Young(trk, latest)'
  BY DEF Settled, Young, Fed
<1> QED
  BY <1>2, <1>3, <1>4 DEF Inv

LEMMA ArrivesLater ==
  ASSUME TimelineInOrder, Inv, NEW kind, NEW at \in Nat, Arrives(kind, at)
  PROVE  latest <= at /\ ~stopped
<1>1. \A n \in DOMAIN fed : fed[n].at <= at
  <2>1. \A n \in DOMAIN fed : fed[n].at <= at \/ fed[n].at <= at + 0
    BY DEF Arrives, TimelineInOrder
  <2> QED
    BY <2>1
<1>2. CASE latest > 0
  BY <1>1, <1>2 DEF Inv, Arrives, Running
<1>3. CASE ~(latest > 0)
  BY <1>3 DEF Inv, TypeOK, Arrives, Running
<1> QED
  BY <1>2, <1>3

LEMMA InvStep ==
  ASSUME TimelineInOrder, Inv, TypeOK', [Next]_vars
  PROVE  Inv'
<1>1. trk \in TrackerValue /\ latest \in Nat /\ NextId \in Nat /\ out \in Seq(Interval)
  BY NextIdType DEF Inv, TypeOK
<1>2. ASSUME NEW at \in 0 .. MaxTime, NEW o \in Orders, OrderArrives(o, at) PROVE Inv'
  <2>1. o \in OrderShape /\ at \in Nat
    BY SourceShapes DEF SourceShapes
  <2>2. latest <= at /\ ~stopped
    BY <1>2, <2>1, ArrivesLater DEF OrderArrives
  <2>3. Settled(trk, trk', at)
    BY <1>1, <1>2, <2>1, OrderSettled DEF OrderArrives
  <2> QED
    BY <1>2, <2>1, <2>2, <2>3, InvHandler DEF OrderArrives
<1>3. ASSUME NEW at \in 0 .. MaxTime, NEW e \in Events, EventArrives(e, at) PROVE Inv'
  <2>1. e \in EventShape /\ at \in Nat
    BY SourceShapes DEF SourceShapes
  <2>2. latest <= at /\ ~stopped
    BY <1>3, <2>1, ArrivesLater DEF EventArrives
  <2>3. Settled(trk, trk', at)
    BY <1>1, <1>3, <2>1, EventSettled DEF EventArrives
  <2> QED
    BY <1>3, <2>1, <2>2, <2>3, InvHandler DEF EventArrives
<1>4. ASSUME NEW at \in 0 .. MaxTime, NEW f \in Faults, FaultArrives(f, at) PROVE Inv'
  <2>1. f \in FaultShape /\ at \in Nat
    BY SourceShapes DEF SourceShapes
  <2>2. latest <= at /\ ~stopped
    BY <1>4, <2>1, ArrivesLater DEF FaultArrives
  <2>3. Settled(trk, trk', at)
    BY <1>1, <1>4, <2>1, FaultSettled DEF FaultArrives
  <2> QED
    BY <1>4, <2>1, <2>2, <2>3, InvHandler DEF FaultArrives
<1>5. ASSUME NEW at \in 0 .. MaxTime, NEW s \in Toggles, ToggleArrives(s, at) PROVE Inv'
  <2>1. s \in ToggleShape /\ at \in Nat
    BY SourceShapes DEF SourceShapes
  <2>2. latest <= at /\ ~stopped
    BY <1>5, <2>1, ArrivesLater DEF ToggleArrives
  <2>3. Settled(trk, trk', at)
    BY <1>1, <1>5, <2>1, ToggleSettled DEF ToggleArrives
  <2> QED
    BY <1>5, <2>1, <2>2, <2>3, InvHandler DEF ToggleArrives
<1>6. ASSUME NEW k \in ConfigKeys, ConfigChanges(k) PROVE Inv'
  <2>1. k \in STRING
    BY SourceShapes DEF SourceShapes
  <2>2. ~stopped /\ latest <= latest
    BY <1>1, <1>6 DEF ConfigChanges, Running
  <2>3. Settled(trk, trk', latest)
    BY <1>1, <1>6, <2>1, ConfigSettled DEF ConfigChanges
  <2> QED
    BY <1>1, <1>6, <2>2, <2>3, InvHandler DEF ConfigChanges
<1>7. CASE Take
  <2>1. trk.closed \in Seq(Interval) /\ <<>> \in Seq(Interval)
    BY <1>1, TrackerFields
  <2>2. Chron(out, trk, Now)
    BY DEF Inv
  <2>3. Ordered(trk.closed)
    <3> DEFINE q == out \o trk.closed
               m == Len(out)
    <3>1. m \in Nat /\ Len(trk.closed) \in Nat /\ DOMAIN trk.closed = 1 .. Len(trk.closed)
      BY <1>1, <2>1, LenProperties
    <3>2. q \in Seq(Interval) /\ Len(q) = m + Len(trk.closed) /\ DOMAIN q = 1 .. Len(q)
      BY <1>1, <2>1, ConcatProperties, LenProperties
    <3>3. \A i \in DOMAIN trk.closed : i + m \in DOMAIN q /\ q[i + m] = trk.closed[i]
      <4> TAKE i \in DOMAIN trk.closed
      <4>1. i + m \in 1 .. Len(q) /\ i + m > m /\ (i + m) - m = i
        BY <3>1, <3>2
      <4>2. q[i + m] = IF i + m <= m THEN out[i + m] ELSE trk.closed[(i + m) - m]
        BY <1>1, <2>1, <3>2, <4>1, ConcatProperties
      <4> QED
        BY <3>1, <3>2, <4>1, <4>2
    <3>4. Ordered(q)
      BY <2>2 DEF Chron
    <3> HIDE DEF q, m
    <3>5. \A i \in DOMAIN trk.closed : trk.closed[i].start < trk.closed[i].end
      BY <3>3, <3>4 DEF Ordered
    <3>6. \A i, j \in DOMAIN trk.closed : i < j => trk.closed[i].end <= trk.closed[j].start
      <4> SUFFICES ASSUME NEW i \in DOMAIN trk.closed, NEW j \in DOMAIN trk.closed, i < j
                   PROVE  trk.closed[i].end <= trk.closed[j].start
        OBVIOUS
      <4>1. i + m < j + m
        BY <3>1
      <4> QED
        BY <3>3, <3>4, <4>1 DEF Ordered
    <3> QED
      BY <3>5, <3>6 DEF Ordered
  <2>4. out' = out \o trk.closed
    BY <1>7, <2>1, <2>3, SortByEndSorted DEF Take
  <2>5. trk'.closed = <<>> /\ trk'.cur = trk.cur
    BY <1>1, <1>7 DEF Take, TakePending, TrackerValue
  <2>6. out' \o trk'.closed = out \o trk.closed
    <3>1. out' \in Seq(Interval)
      BY DEF TypeOK
    <3> QED
      BY <2>4, <2>5, <3>1, ConcatEmptySeq
  <2>7. Now' = Now /\ latest' = latest /\ fed' = fed
    BY <1>7 DEF Take, Now
  <2>8. Chron(out, trk, Now)'
    BY <2>2, <2>5, <2>6, <2>7 DEF Chron
  <2> QED
    BY <2>5, <2>7, <2>8 DEF Inv, Young
<1>8. CASE Shutdown
  <2>1. Chron(out, trk, latest)
    BY <1>8 DEF Shutdown, Inv, Now
  <2>2. Chron(out, FlushOpen(trk, latest), latest + 1) /\ FlushOpen(trk, latest).cur = Nil
    BY <1>1, <2>1, FlushOpenSettles
  <2>3. Chron(out, trk, Now)' /\ Young(trk, latest)'
    BY <1>8, <2>2 DEF Shutdown, Now, Young
  <2> QED
    BY <1>8, <2>3 DEF Shutdown, Inv
<1>9. CASE UNCHANGED vars
  BY <1>9 DEF vars, Inv, TypeOK, Chron, Ordered, Young, Now
<1>10. ~(\E sr \in StepRuns : TRUE)
  BY DEF TimelineInOrder
<1> QED
  BY <1>2, <1>3, <1>4, <1>5, <1>6, <1>7, <1>8, <1>9, <1>10 DEF Next

LEMMA Invariance ==
  ASSUME TimelineInOrder PROVE Spec => []Inv
<1>1. Inv /\ TypeOK' /\ [Next]_vars => Inv'
  BY InvStep
<1> QED
  BY <1>1, InvInit, TypeCorrect, PTL DEF Spec

(* The emitted intervals and the open one never share an instant, none is  *)
(* empty, and they reach the writer in time order: no handler, no cap, no  *)
(* config change and no shutdown breaks the partition of machine time.     *)
THEOREM Partition ==
  ASSUME TimelineInOrder PROVE Spec => []IntervalsDisjoint
<1>1. Inv => IntervalsDisjoint
  BY DEF Inv, Chron, IntervalsDisjoint, Done
<1> QED
  BY <1>1, Invariance, PTL

(* After any row the open interval is younger than the cap.                *)
THEOREM CapHolds ==
  ASSUME TimelineInOrder PROVE Spec => []OpenBounded
<1>1. Inv => OpenBounded
  BY DEF Inv, Young, OpenBounded
<1> QED
  BY <1>1, Invariance, PTL

-----------------------------------------------------------------------------
(* The shape of what the methods do, for the proofs about rows below. *)

Members(s) == {s[i] : i \in DOMAIN s}

LEMMA MembersOfAppend ==
  ASSUME NEW s \in Seq(Interval), NEW iv \in Interval
  PROVE  Members(Append(s, iv)) = Members(s) \cup {iv}
<1> DEFINE p == Append(s, iv)
<1>1. /\ Len(s) \in Nat /\ DOMAIN s = 1 .. Len(s) /\ DOMAIN p = 1 .. Len(s) + 1
      /\ \A i \in 1 .. Len(s) : p[i] = s[i]
      /\ p[Len(s) + 1] = iv
  BY AppendProperties, LenProperties
<1> HIDE DEF p
<1>2. \A i \in 1 .. Len(s) + 1 : i \in 1 .. Len(s) \/ i = Len(s) + 1
  BY <1>1
<1>3. \A i \in 1 .. Len(s) : i \in 1 .. Len(s) + 1
  BY <1>1
<1>4. Len(s) + 1 \in 1 .. Len(s) + 1
  BY <1>1
<1>5. Members(p) = Members(s) \cup {iv}
  BY <1>1, <1>2, <1>3, <1>4 DEF Members
<1> QED
  BY <1>5 DEF p

LEMMA MembersOfConcat ==
  ASSUME NEW s \in Seq(Interval), NEW q \in Seq(Interval)
  PROVE  Members(s \o q) = Members(s) \cup Members(q)
<1> DEFINE p == s \o q
<1>1. /\ Len(s) \in Nat /\ DOMAIN s = 1 .. Len(s)
      /\ Len(q) \in Nat /\ DOMAIN q = 1 .. Len(q)
      /\ DOMAIN p = 1 .. Len(s) + Len(q)
      /\ \A i \in 1 .. Len(s) + Len(q) : p[i] = IF i <= Len(s) THEN s[i] ELSE q[i - Len(s)]
  BY ConcatProperties, LenProperties
<1> HIDE DEF p
<1>2. ASSUME NEW i \in DOMAIN p PROVE p[i] \in Members(s) \cup Members(q)
  <2>1. CASE i <= Len(s)
    BY <1>1, <2>1 DEF Members
  <2>2. CASE ~(i <= Len(s))
    <3>1. i - Len(s) \in 1 .. Len(q) /\ p[i] = q[i - Len(s)]
      BY <1>1, <2>2
    <3> QED
      BY <1>1, <3>1 DEF Members
  <2> QED
    BY <2>1, <2>2
<1>3. ASSUME NEW i \in DOMAIN s PROVE s[i] \in Members(p)
  <2>1. i \in DOMAIN p /\ p[i] = s[i]
    BY <1>1
  <2> QED
    BY <2>1 DEF Members
<1>4. ASSUME NEW i \in DOMAIN q PROVE q[i] \in Members(p)
  <2>1. i + Len(s) \in DOMAIN p /\ ~(i + Len(s) <= Len(s)) /\ (i + Len(s)) - Len(s) = i
    BY <1>1
  <2>2. p[i + Len(s)] = q[i]
    BY <1>1, <2>1
  <2> QED
    BY <2>1, <2>2 DEF Members
<1>5. Members(p) = Members(s) \cup Members(q)
  BY <1>2, <1>3, <1>4 DEF Members
<1> QED
  BY <1>5 DEF p

LEMMA MembersAreIntervals ==
  ASSUME NEW s \in Seq(Interval) PROVE Members(s) \subseteq Interval
BY LenProperties, ElementOfSeq DEF Members

(* Sorting the pending intervals invents none. *)
LEMMA SortByEndMembers ==
  ASSUME NEW s \in Seq(Interval)
  PROVE  Members(SortByEnd(s)) \subseteq Members(s)
  BY SortByEndType DEF Members

(* What AddRow changes. *)
LEMMA AddRowFields ==
  ASSUME NEW t \in TrackerValue, t.cur # Nil, NEW r \in Row
  PROVE  LET u == AddRow(t, r)
         IN  /\ u \in TrackerValue /\ u.cur = [t.cur EXCEPT !.rows = Append(@, r)]
             /\ u.cur.rows = Append(t.cur.rows, r)
             /\ u.span = t.span /\ u.door = t.door /\ u.dwell = t.dwell /\ u.seq = t.seq
             /\ u.ledger = t.ledger /\ u.closed = t.closed
<1> DEFINE iv == [t.cur EXCEPT !.rows = Append(@, r)]
<1>1. t.cur \in Interval
  BY DEF TrackerValue
<1>2. iv.rows = Append(t.cur.rows, r)
  BY <1>1 DEF Interval
<1>3. AddRow(t, r) = [t EXCEPT !.cur = iv]
  BY DEF AddRow, TrackerValue
<1>4. AddRow(t, r) \in TrackerValue
  BY AddRowSame DEF Same
<1> HIDE DEF iv
<1>5. AddRow(t, r).cur = iv
  BY <1>3 DEF TrackerValue
<1> QED
  BY <1>2, <1>3, <1>4, <1>5 DEF TrackerValue, iv

LEMMA RowsOfOpen ==
  ASSUME NEW t \in TrackerValue, t.cur # Nil
  PROVE  /\ t.cur \in Interval /\ t.cur.rows \in Seq(Row) /\ Len(t.cur.rows) \in Nat
         /\ DOMAIN t.cur.rows = 1 .. Len(t.cur.rows)
         /\ \A k \in DOMAIN t.cur.rows : t.cur.rows[k] \in Row
<1>1. t.cur \in Interval
  BY TrackerFields
<1>2. t.cur.rows \in Seq(Row)
  BY <1>1 DEF Interval
<1> QED
  BY <1>1, <1>2, LenProperties, ElementOfSeq

LEMMA RowsOfInterval ==
  ASSUME NEW iv \in Interval
  PROVE  /\ iv.rows \in Seq(Row) /\ Len(iv.rows) \in Nat
         /\ DOMAIN iv.rows = 1 .. Len(iv.rows)
         /\ \A k \in DOMAIN iv.rows : iv.rows[k] \in Row
<1>1. iv.rows \in Seq(Row)
  BY DEF Interval
<1> QED
  BY <1>1, LenProperties, ElementOfSeq

(* One row more at the end. *)
LEMMA RowAppended ==
  ASSUME NEW rows \in Seq(Row), NEW r \in Row
  PROVE  LET new == Append(rows, r)
         IN  /\ new \in Seq(Row)
             /\ \A k \in DOMAIN new : k \in DOMAIN rows \/ k = Len(rows) + 1
             /\ \A k \in DOMAIN rows : k \in DOMAIN new /\ new[k] = rows[k] /\ k \in Nat /\ k < Len(rows) + 1
             /\ Len(rows) + 1 \in DOMAIN new /\ new[Len(rows) + 1] = r
<1> DEFINE new == Append(rows, r)
<1>1. /\ Len(rows) \in Nat /\ DOMAIN rows = 1 .. Len(rows) /\ DOMAIN new = 1 .. Len(rows) + 1
      /\ \A i \in 1 .. Len(rows) : new[i] = rows[i]
      /\ new[Len(rows) + 1] = r /\ new \in Seq(Row)
  BY AppendProperties, LenProperties
<1> HIDE DEF new
<1>2. /\ \A k \in DOMAIN new : k \in DOMAIN rows \/ k = Len(rows) + 1
      /\ \A k \in DOMAIN rows : k \in DOMAIN new /\ new[k] = rows[k] /\ k \in Nat /\ k < Len(rows) + 1
      /\ Len(rows) + 1 \in DOMAIN new
  BY <1>1
<1> QED
  BY <1>1, <1>2 DEF new

(* The result of an interval that is closed before its time: the one it    *)
(* was opened with, in so many words.                                      *)
Capped(t) == IF t.cur.prod THEN "aborted" ELSE t.cur.result

(* ensureInterval either finds the open interval fitting and young, or     *)
(* closes it and opens another, once.                                      *)
LEMMA EnsureShape ==
  ASSUME NEW t \in TrackerValue, NEW key \in KeysOrNone, NEW state, NEW at \in Nat
  PROVE  LET u == EnsureInterval(t, key, state, at)
             want == ResultForState(state)
         IN  \/ u = t /\ Fits(t, key, want)
             \/ \E forced \in ForcedResults :
                  /\ forced = "" \/ (t.cur # Nil /\ forced = Capped(t))
                  /\ u = OpenInterval(CloseInterval(t, at, forced), key, want, at)
<1> DEFINE want == ResultForState(state)
           forced == Capped(t)
           young == IF OverCap(t, at) THEN CloseInterval(t, at, forced) ELSE t
           u == EnsureInterval(t, key, state, at)
<1>1. u = IF Fits(young, key, want) THEN young
          ELSE OpenInterval(CloseInterval(young, at, ""), key, want, at)
  BY DEF EnsureInterval, Capped
<1>2. CASE ~OverCap(t, at)
  <2>1. young = t
    BY <1>2
  <2>2. "" \in ForcedResults
    BY ForcedResultsType
  <2> HIDE DEF want, young, u
  <2> QED
    BY <1>1, <2>1, <2>2 DEF want, u
<1>3. CASE OverCap(t, at)
  <2>1. t.cur # Nil
    BY <1>3 DEF OverCap
  <2>2. forced \in ForcedResults
    BY <2>1, ForcedResultsType DEF Capped
  <2> HIDE DEF forced
  <2>3. young = CloseInterval(t, at, forced) /\ young.cur = Nil
    BY <1>3, <2>2, CloseIntervalFollows
  <2>4. CloseInterval(young, at, "") = young
    BY <2>3 DEF CloseInterval
  <2>5. ~Fits(young, key, want)
    BY <2>3 DEF Fits
  <2>6. u = OpenInterval(CloseInterval(t, at, forced), key, want, at)
    <3> HIDE DEF want, young, u
    <3> QED
      BY <1>1, <2>3, <2>4, <2>5
  <2> HIDE DEF u, want
  <2> QED
    BY <2>1, <2>2, <2>6 DEF forced, u, want
<1> QED
  BY <1>2, <1>3

(* What newInterval and resetPerInterval leave as it was. *)
LEMMA OpenIntervalFields ==
  ASSUME NEW t \in TrackerValue, t.cur = Nil, NEW key \in KeysOrNone,
         NEW want \in SynthResults, NEW at \in Nat
  PROVE  LET u == OpenInterval(t, key, want, at)
         IN  /\ u \in TrackerValue /\ u.cur # Nil
             /\ u.closed = t.closed /\ u.dwell = t.dwell
             /\ u.span = t.span /\ u.door = t.door /\ u.ledger = t.ledger
             /\ u.seq = [l \in Lanes |-> 0]
             /\ u.cur.rows = <<>> /\ u.cur.start = at
             /\ u.cur.prod <=> key # NoKey
             /\ key # NoKey => u.cur.key = key /\ u.cur.result = "aborted"
             /\ key = NoKey => u.cur.result = want
<1> DEFINE u == OpenInterval(t, key, want, at)
           zero == [l \in Lanes |-> 0]
           fresh == [t EXCEPT !.seq = zero]
<1>1. u \in TrackerValue /\ u.cur # Nil
  BY OpenIntervalOpens
<1> HIDE DEF zero
<1>2. /\ fresh.closed = t.closed /\ fresh.dwell = t.dwell /\ fresh.span = t.span
      /\ fresh.door = t.door /\ fresh.ledger = t.ledger /\ fresh.seq = zero
  BY DEF TrackerValue
<1>3. CASE key # NoKey
  <2> DEFINE iv == NewInterval(key, TRUE, at, "aborted")
  <2>1. u = [fresh EXCEPT !.cur = iv]
    BY <1>3 DEF OpenInterval, fresh, zero
  <2>2. iv.rows = <<>> /\ iv.start = at /\ iv.prod = TRUE /\ iv.key = key /\ iv.result = "aborted"
    BY DEF NewInterval
  <2> HIDE DEF iv, u
  <2>3. /\ u.cur = iv /\ u.closed = t.closed /\ u.dwell = t.dwell
        /\ u.span = t.span /\ u.door = t.door /\ u.ledger = t.ledger /\ u.seq = zero
    BY <1>2, <2>1 DEF TrackerValue
  <2> QED
    BY <1>1, <1>3, <2>2, <2>3 DEF u, zero
<1>4. CASE key = NoKey
  <2> DEFINE n == t.synth + 1
             iv == NewInterval(<<want, at, n % 10000>>, FALSE, at, want)
  <2>1. u = [fresh EXCEPT !.synth = n, !.cur = iv]
    BY <1>4 DEF OpenInterval, fresh, zero, TrackerValue
  <2>2. iv.rows = <<>> /\ iv.start = at /\ iv.prod = FALSE /\ iv.result = want
    BY DEF NewInterval
  <2> HIDE DEF iv, u, n
  <2>3. /\ u.cur = iv /\ u.closed = t.closed /\ u.dwell = t.dwell
        /\ u.span = t.span /\ u.door = t.door /\ u.ledger = t.ledger /\ u.seq = zero
    BY <1>2, <2>1 DEF TrackerValue
  <2> QED
    BY <1>1, <1>4, <2>2, <2>3 DEF u, zero
<1> QED
  BY <1>3, <1>4

(* The row that closeDwell may write. *)
DwellRowOf(t, lane, at) ==
  DwellRow(lane, t.dwell[lane].state, t.dwell[lane].start, at, t.dwell[lane].seq)

LEMMA CloseDwellShape ==
  ASSUME NEW t \in TrackerValue, t.cur # Nil, NEW lane \in Lanes, NEW at \in Nat
  PROVE  LET u == CloseDwell(t, lane, at)
             row == DwellRowOf(t, lane, at)
         IN  /\ u \in TrackerValue /\ Same(t, u)
             /\ u.dwell = [t.dwell EXCEPT ![lane] = Nil]
             /\ u.seq = t.seq /\ u.span = t.span /\ u.door = t.door /\ u.ledger = t.ledger
             /\ \/ u.cur.rows = t.cur.rows
                \/ /\ t.dwell[lane] # Nil /\ at > t.dwell[lane].start
                   /\ row \in Row /\ u.cur.rows = Append(t.cur.rows, row)
<1> DEFINE d == t.dwell[lane]
           gone == [t EXCEPT !.dwell[lane] = Nil]
           row == DwellRow(lane, d.state, d.start, at, d.seq)
           u == CloseDwell(t, lane, at)
<1>0. u \in TrackerValue /\ Same(t, u)
  BY CloseDwellSame DEF Same
<1>1. /\ gone \in TrackerValue /\ gone.cur = t.cur /\ gone.closed = t.closed
      /\ gone.dwell = [t.dwell EXCEPT ![lane] = Nil]
      /\ gone.seq = t.seq /\ gone.span = t.span /\ gone.door = t.door /\ gone.ledger = t.ledger
  BY DEF TrackerValue
<1>2. CASE d = Nil
  <2>1. u = t
    BY <1>2 DEF CloseDwell
  <2>2. t.dwell = [t.dwell EXCEPT ![lane] = Nil]
    BY <1>2 DEF TrackerValue
  <2> QED
    BY <1>0, <2>1, <2>2
<1>3. CASE d # Nil /\ at > d.start /\ EmitsDwell(d.state, t.cur.prod)
  <2>1. d \in Dwell
    BY <1>3 DEF TrackerValue
  <2>2. row \in Row
    <3>1. d.start \in Nat /\ d.seq \in Nat /\ d.state \in STRING
      BY <2>1 DEF Dwell
    <3>2. d.seq \in NatOrNull
      BY <3>1 DEF NatOrNull
    <3> HIDE DEF d
    <3> QED
      BY <3>1, <3>2, RowTypes
  <2>3. u = AddRow(gone, row)
    BY <1>3 DEF CloseDwell
  <2>4. row = DwellRowOf(t, lane, at)
    BY DEF DwellRowOf
  <2> HIDE DEF row, gone, u
  <2>5. /\ u.cur.rows = Append(t.cur.rows, row) /\ u.dwell = gone.dwell
        /\ u.seq = t.seq /\ u.span = t.span /\ u.door = t.door /\ u.ledger = t.ledger
    BY <1>1, <2>2, <2>3, AddRowFields
  <2> QED
    BY <1>0, <1>1, <1>3, <2>2, <2>4, <2>5 DEF u
<1>4. CASE d # Nil /\ ~(at > d.start /\ EmitsDwell(d.state, t.cur.prod))
  <2>1. u = gone
    BY <1>4 DEF CloseDwell
  <2> QED
    BY <1>0, <1>1, <2>1
<1> QED
  BY <1>2, <1>3, <1>4

LEMMA CloseDwellFrame ==
  ASSUME NEW t \in TrackerValue, t.cur # Nil, NEW lane \in Lanes, NEW at \in Nat
  PROVE  /\ CloseDwell(t, lane, at) \in TrackerValue
         /\ Same(t, CloseDwell(t, lane, at))
         /\ CloseDwell(t, lane, at).cur # Nil
         /\ CloseDwell(t, lane, at).dwell = [t.dwell EXCEPT ![lane] = Nil]
         /\ CloseDwell(t, lane, at).seq = t.seq
         /\ CloseDwell(t, lane, at).span = t.span
         /\ CloseDwell(t, lane, at).door = t.door
         /\ CloseDwell(t, lane, at).ledger = t.ledger
BY CloseDwellShape DEF Same

LEMMA CloseStateSpanShape ==
  ASSUME NEW t \in TrackerValue, t.cur # Nil, NEW at \in Nat
  PROVE  LET u == CloseStateSpanAt(t, at)
         IN  /\ u \in TrackerValue /\ Same(t, u)
             /\ u.dwell = t.dwell /\ u.seq = t.seq /\ u.door = t.door /\ u.ledger = t.ledger
             /\ \/ /\ u.cur = t.cur /\ u.span = t.span
                   /\ t.span # Nil => ~(at > t.span.entered)
                \/ /\ t.span # Nil /\ at > t.span.entered
                   /\ SpanRow(t.span, at) \in Row /\ u.span = Nil
                   /\ u.cur.rows = Append(t.cur.rows, SpanRow(t.span, at))
<1> DEFINE row == SpanRow(t.span, at)
           added == AddRow(t, row)
           u == CloseStateSpanAt(t, at)
<1>0. u \in TrackerValue /\ Same(t, u)
  BY CloseStateSpanSame DEF Same
<1>1. CASE t.span # Nil /\ at > t.span.entered
  <2>1. t.span \in Span
    BY <1>1 DEF TrackerValue
  <2>2. row \in Row
    <3>1. t.span.state \in STRING
      BY <2>1 DEF Span
    <3>2. 0 \in NatOrNull /\ 0 \in Nat
      BY DEF NatOrNull
    <3> QED
      BY <2>1, <3>1, <3>2, RowTypes
  <2>3. u = [added EXCEPT !.span = Nil]
    BY <1>1 DEF CloseStateSpanAt
  <2> HIDE DEF row
  <2>4. /\ added \in TrackerValue
        /\ added.cur.rows = Append(t.cur.rows, row) /\ added.dwell = t.dwell
        /\ added.seq = t.seq /\ added.door = t.door /\ added.ledger = t.ledger
    BY <2>2, AddRowFields
  <2> HIDE DEF added, u
  <2>5. /\ u.cur = added.cur /\ u.span = Nil /\ u.dwell = added.dwell
        /\ u.seq = added.seq /\ u.door = added.door /\ u.ledger = added.ledger
    BY <2>3, <2>4 DEF TrackerValue
  <2>6. /\ u.cur.rows = Append(t.cur.rows, row) /\ u.span = Nil /\ u.dwell = t.dwell
        /\ u.seq = t.seq /\ u.door = t.door /\ u.ledger = t.ledger
    BY <2>4, <2>5
  <2> QED
    BY <1>0, <1>1, <2>2, <2>6 DEF u, row
<1>2. CASE ~(t.span # Nil /\ at > t.span.entered)
  <2>1. u = t
    BY <1>2 DEF CloseStateSpanAt
  <2> QED
    BY <1>0, <1>2, <2>1
<1> QED
  BY <1>1, <1>2

LEMMA CloseOpenDwellsShape ==
  ASSUME NEW t \in TrackerValue, t.cur # Nil, NEW at \in Nat
  PROVE  LET u == CloseOpenDwells(t, at)
         IN  /\ u \in TrackerValue /\ Same(t, u)
             /\ u.dwell = [l \in Lanes |-> Nil]
             /\ u.seq = t.seq /\ u.span = t.span /\ u.door = t.door /\ u.ledger = t.ledger
<1> DEFINE c == CloseDwell(t, "crusher", at)
           m == CloseDwell(c, "main", at)
           u == CloseDwell(m, "tilter", at)
<1>1. "crusher" \in Lanes /\ "main" \in Lanes /\ "tilter" \in Lanes
  BY DEF Lanes
<1>2. /\ c \in TrackerValue /\ c.cur # Nil /\ c.dwell = [t.dwell EXCEPT !["crusher"] = Nil]
      /\ c.seq = t.seq /\ c.span = t.span /\ c.door = t.door /\ c.ledger = t.ledger
  BY <1>1, CloseDwellFrame
<1> HIDE DEF c
<1>3. /\ m \in TrackerValue /\ m.cur # Nil /\ m.dwell = [c.dwell EXCEPT !["main"] = Nil]
      /\ m.seq = c.seq /\ m.span = c.span /\ m.door = c.door /\ m.ledger = c.ledger
  BY <1>1, <1>2, CloseDwellFrame
<1> HIDE DEF m
<1>4. /\ u.dwell = [m.dwell EXCEPT !["tilter"] = Nil]
      /\ u.seq = m.seq /\ u.span = m.span /\ u.door = m.door /\ u.ledger = m.ledger
  BY <1>1, <1>3, CloseDwellFrame
<1>5. u = CloseOpenDwells(t, at)
  BY DEF CloseOpenDwells, u, m, c
<1>6. u \in TrackerValue /\ Same(t, u)
  BY <1>5, CloseOpenDwellsSame DEF Same
<1> HIDE DEF u
<1>7. u.dwell = [l \in Lanes |-> Nil]
  <2>1. t.dwell \in [Lanes -> Dwell \cup {Nil}]
    BY DEF TrackerValue
  <2> QED
    BY <1>2, <1>3, <1>4, <2>1 DEF Lanes
<1> QED
  BY <1>2, <1>3, <1>4, <1>5, <1>6, <1>7

(* What is left of the open interval once its dwells and its span are      *)
(* closed: the rows closeInterval emits.                                   *)
Emptied(t, at) == CloseStateSpanAt(CloseOpenDwells(t, at), at)

LEMMA EmptiedShape ==
  ASSUME NEW t \in TrackerValue, t.cur # Nil, NEW at \in Nat
  PROVE  LET c == Emptied(t, at)
         IN  /\ c \in TrackerValue /\ Same(t, c) /\ c.cur # Nil
             /\ c.dwell = [l \in Lanes |-> Nil]
             /\ c.seq = t.seq /\ c.door = t.door /\ c.ledger = t.ledger
             /\ c.span # Nil => c.span = t.span /\ ~(at > c.span.entered)
<1> DEFINE b == CloseOpenDwells(t, at)
           c == CloseStateSpanAt(b, at)
<1>1. /\ b \in TrackerValue /\ Same(t, b) /\ b.dwell = [l \in Lanes |-> Nil]
      /\ b.seq = t.seq /\ b.span = t.span /\ b.door = t.door /\ b.ledger = t.ledger
  BY CloseOpenDwellsShape
<1>2. b.cur # Nil
  BY <1>1 DEF Same
<1> HIDE DEF b
<1>3. /\ c \in TrackerValue /\ Same(b, c)
      /\ c.dwell = b.dwell /\ c.seq = b.seq /\ c.door = b.door /\ c.ledger = b.ledger
      /\ c.span # Nil => c.span = b.span /\ ~(at > b.span.entered)
  BY <1>1, <1>2, CloseStateSpanShape
<1>4. Same(t, c) /\ c.cur # Nil
  BY <1>1, <1>2, <1>3, SameTrans DEF Same
<1> QED
  BY <1>1, <1>3, <1>4 DEF Emptied, b

LEMMA CloseIntervalNothing ==
  ASSUME NEW t, t.cur = Nil, NEW at, NEW forced
  PROVE  CloseInterval(t, at, forced) = t
BY DEF CloseInterval

EmittedAs(t, at, forced, iv) ==
  /\ at > t.cur.start
  /\ iv.start = t.cur.start /\ iv.end = at
  /\ iv.key = t.cur.key /\ iv.prod = t.cur.prod
  /\ iv.result = (IF forced = "" THEN t.cur.result ELSE forced)
  /\ iv.rows = Emptied(t, at).cur.rows

LEMMA CloseIntervalShape ==
  ASSUME NEW t \in TrackerValue, t.cur # Nil, NEW at \in Nat, NEW forced \in ForcedResults
  PROVE  /\ CloseInterval(t, at, forced) \in TrackerValue
         /\ CloseInterval(t, at, forced).cur = Nil
         /\ CloseInterval(t, at, forced).dwell = [l \in Lanes |-> Nil]
         /\ CloseInterval(t, at, forced).span = Emptied(t, at).span
         /\ CloseInterval(t, at, forced).door = t.door
         /\ CloseInterval(t, at, forced).ledger = t.ledger
         /\ \/ CloseInterval(t, at, forced).closed = t.closed
            \/ \E iv \in Interval :
                 /\ CloseInterval(t, at, forced).closed = Append(t.closed, iv)
                 /\ EmittedAs(t, at, forced, iv)
<1> DEFINE c == Emptied(t, at)
           u == CloseInterval(t, at, forced)
           res == IF forced = "" THEN c.cur.result ELSE forced
           iv == [c.cur EXCEPT !.end = at, !.result = res]
           dropped == [c EXCEPT !.cur = Nil]
           kept == [c EXCEPT !.cur = Nil, !.closed = Append(@, iv)]
<1>1. u = IF at <= t.cur.start THEN dropped ELSE kept
  BY DEF CloseInterval, Emptied
<1>2. u \in TrackerValue /\ u.cur = Nil
  BY CloseIntervalQueue
<1>3. /\ c \in TrackerValue /\ Same(t, c) /\ c.cur # Nil
      /\ c.dwell = [l \in Lanes |-> Nil] /\ c.door = t.door /\ c.ledger = t.ledger
  BY EmptiedShape
<1> SUFFICES /\ u.dwell = c.dwell /\ u.span = c.span /\ u.door = c.door /\ u.ledger = c.ledger
             /\ \/ u.closed = t.closed
                \/ \E v \in Interval :
                     u.closed = Append(t.closed, v) /\ EmittedAs(t, at, forced, v)
  BY <1>2, <1>3
<1> HIDE DEF c, u
<1>4. /\ c.cur \in Interval /\ c.closed = t.closed /\ c.cur.start = t.cur.start
      /\ c.cur.key = t.cur.key /\ c.cur.prod = t.cur.prod /\ c.cur.result = t.cur.result
  BY <1>3, TrackerFields DEF Same
<1>5. res = (IF forced = "" THEN t.cur.result ELSE forced) /\ res \in Results
  BY <1>4 DEF Interval, ForcedResults
<1> HIDE DEF res
<1>6. /\ iv \in Interval /\ iv.start = t.cur.start /\ iv.end = at /\ iv.key = t.cur.key
      /\ iv.prod = t.cur.prod /\ iv.result = res /\ iv.rows = c.cur.rows
  BY <1>4, <1>5 DEF Interval
<1> HIDE DEF iv
<1>7. t.cur.start \in Nat
  BY TrackerFields, IntervalFields
<1>8. CASE at <= t.cur.start
  <2>1. u = dropped
    BY <1>1, <1>8
  <2>2. /\ u.dwell = c.dwell /\ u.span = c.span /\ u.door = c.door
        /\ u.ledger = c.ledger /\ u.closed = c.closed
    BY <1>3, <2>1 DEF TrackerValue
  <2> QED
    BY <1>4, <2>2
<1>9. CASE ~(at <= t.cur.start)
  <2>1. u = kept /\ at > t.cur.start
    BY <1>1, <1>7, <1>9
  <2>2. /\ u.dwell = c.dwell /\ u.span = c.span /\ u.door = c.door
        /\ u.ledger = c.ledger /\ u.closed = Append(c.closed, iv)
    BY <1>3, <2>1 DEF TrackerValue
  <2>3. EmittedAs(t, at, forced, iv)
    BY <1>4, <1>5, <1>6, <2>1 DEF EmittedAs, c
  <2> HIDE DEF kept, dropped
  <2> QED
    BY <1>4, <1>6, <2>2, <2>3
<1> QED
  BY <1>8, <1>9

(* The pieces of the handlers. *)
LEMMA RecipeShape ==
  ASSUME NEW t \in TrackerValue, t.cur # Nil
  PROVE  LET u == [t EXCEPT !.cur.recipe = TRUE]
         IN  /\ u \in TrackerValue /\ Same(t, u) /\ u.cur # Nil /\ u.cur.rows = t.cur.rows
             /\ u.dwell = t.dwell /\ u.seq = t.seq /\ u.span = t.span /\ u.door = t.door
             /\ u.closed = t.closed
<1> DEFINE iv == [t.cur EXCEPT !.recipe = TRUE]
           u == [t EXCEPT !.cur.recipe = TRUE]
<1>1. t.cur \in Interval
  BY TrackerFields
<1>2. /\ iv \in Interval /\ iv.start = t.cur.start /\ iv.prod = t.cur.prod
      /\ iv.key = t.cur.key /\ iv.result = t.cur.result /\ iv.rows = t.cur.rows
  BY <1>1 DEF Interval
<1>3. iv # Nil
  BY <1>2, NilIsNothing
<1>4. u = [t EXCEPT !.cur = iv]
  BY DEF TrackerValue
<1> HIDE DEF iv, u
<1>5. /\ u \in TrackerValue /\ u.cur = iv /\ u.closed = t.closed /\ u.dwell = t.dwell
      /\ u.seq = t.seq /\ u.span = t.span /\ u.door = t.door
  BY <1>2, <1>4 DEF TrackerValue
<1>6. Same(t, u)
  BY <1>2, <1>3, <1>5 DEF Same
<1> QED
  BY <1>2, <1>3, <1>5, <1>6 DEF u

LEMMA LedgerShape ==
  ASSUME NEW t \in TrackerValue, NEW type \in STRING, NEW at \in Nat
  PROVE  LET u == RecordLedgerFault(t, type, at)
         IN  /\ u \in TrackerValue /\ u.cur = t.cur /\ u.dwell = t.dwell /\ u.seq = t.seq
             /\ u.span = t.span /\ u.door = t.door /\ u.closed = t.closed
<1>1. RecordLedgerFault(t, type, at) \in TrackerValue
  BY RecordLedgerFaultSame DEF Same
<1> QED
  BY <1>1 DEF RecordLedgerFault, TrackerValue

(* The span that trackStateSpan leaves open. *)
LEMMA TrackStateSpanShape ==
  ASSUME NEW t \in TrackerValue, t.cur # Nil, NEW e \in EventShape, NEW at \in Nat
  PROVE  LET u == TrackStateSpan(t, e, at)
             c == CloseStateSpanAt(t, at)
         IN  /\ u \in TrackerValue /\ u.cur # Nil
             /\ \/ u = t
                \/ /\ u.cur = c.cur /\ u.dwell = c.dwell /\ u.seq = c.seq
                   /\ u.door = c.door /\ u.closed = c.closed
                   /\ u.span = [state |-> e.state, entered |-> at]
<1> DEFINE u == TrackStateSpan(t, e, at)
           c == CloseStateSpanAt(t, at)
           span == [state |-> e.state, entered |-> at]
<1>1. u \in TrackerValue /\ u.cur # Nil
  BY TrackStateSpanSame DEF Same
<1>2. c \in TrackerValue
  BY CloseStateSpanShape
<1>3. u = t \/ u = [c EXCEPT !.span = span]
  BY DEF TrackStateSpan
<1> HIDE DEF u, c, span
<1>4. u = t \/ (/\ u.cur = c.cur /\ u.dwell = c.dwell /\ u.seq = c.seq
                /\ u.door = c.door /\ u.closed = c.closed /\ u.span = span)
  BY <1>2, <1>3 DEF TrackerValue
<1> QED
  BY <1>1, <1>4 DEF u, c, span

(* u has the dwell d open in place of the one t had. *)
Tracked(t, u, lane, d, at) ==
  /\ d.start = at /\ d.seq = t.seq[lane]
  /\ u.cur = CloseDwell(t, lane, at).cur
  /\ u.span = t.span /\ u.door = t.door /\ u.closed = t.closed
  /\ u.dwell = [t.dwell EXCEPT ![lane] = d]
  /\ u.seq = [t.seq EXCEPT ![lane] = t.seq[lane] + 1]

LEMMA TrackDwellShape ==
  ASSUME NEW t \in TrackerValue, t.cur # Nil, NEW e \in EventShape, NEW at \in Nat
  PROVE  /\ LaneForState(e.state) \in Lanes
         /\ TrackDwell(t, e, at) \in TrackerValue /\ TrackDwell(t, e, at).cur # Nil
         /\ \/ TrackDwell(t, e, at) = t
            \/ \E d \in Dwell : Tracked(t, TrackDwell(t, e, at), LaneForState(e.state), d, at)
<1> DEFINE lane == LaneForState(e.state)
           step == IF e.stepTo = NoStep THEN e.stepFrom ELSE e.stepTo
           c == CloseDwell(t, lane, at)
           d == [state |-> e.state, step |-> step, start |-> at, seq |-> t.seq[lane]]
           w == [c EXCEPT !.dwell[lane] = d, !.seq[lane] = @ + 1]
           u == TrackDwell(t, e, at)
<1>1. u \in TrackerValue /\ u.cur # Nil
  BY TrackDwellSame DEF Same
<1>2. lane \in Lanes
  BY DEF LaneForState, Lanes
<1>3. e.state \in STRING /\ step \in Int
  BY DEF EventShape
<1>4. u = t \/ u = w
  BY DEF TrackDwell
<1> HIDE DEF lane, step, u
<1>5. t.seq[lane] \in Nat
  BY <1>2, TrackerFields
<1>6. d \in Dwell /\ d.start = at /\ d.seq = t.seq[lane]
  BY <1>3, <1>5 DEF Dwell
<1>7. /\ c \in TrackerValue /\ c.dwell = [t.dwell EXCEPT ![lane] = Nil] /\ c.seq = t.seq
      /\ c.span = t.span /\ c.door = t.door /\ c.closed = t.closed
  BY <1>2, CloseDwellFrame DEF Same
<1> HIDE DEF c, d
<1>8. /\ w.cur = c.cur /\ w.span = t.span /\ w.door = t.door /\ w.closed = t.closed
      /\ w.dwell = [c.dwell EXCEPT ![lane] = d] /\ w.seq = [c.seq EXCEPT ![lane] = c.seq[lane] + 1]
  BY <1>7 DEF TrackerValue
<1>9. w.dwell = [t.dwell EXCEPT ![lane] = d]
  <2>1. t.dwell \in [Lanes -> Dwell \cup {Nil}]
    BY DEF TrackerValue
  <2> QED
    BY <1>2, <1>7, <1>8, <2>1
<1> HIDE DEF w
<1>10. u = w => Tracked(t, u, lane, d, at)
  BY <1>6, <1>7, <1>8, <1>9 DEF Tracked, c
<1> QED
  BY <1>1, <1>2, <1>4, <1>6, <1>10 DEF u, lane

(* An opening edge starts an episode, a closing one ends it with a row, a  *)
(* reset counts while one is open.                                         *)
DoorStep(t, u, s, at, id) ==
  /\ u.cur # Nil
  /\ u.dwell = t.dwell /\ u.seq = t.seq /\ u.span = t.span /\ u.closed = t.closed
  /\ \/ u.cur = t.cur
     \/ /\ ~DoorOpened(s) /\ DoorClosed(s) /\ t.door # Nil /\ at > t.door.opened
        /\ DoorRow(t.door, at, id) \in Row
        /\ u.cur.rows = Append(t.cur.rows, DoorRow(t.door, at, id))
  /\ DoorOpened(s) => u.door = [opened |-> at, resets |-> 0]
  /\ ~DoorOpened(s) /\ DoorClosed(s) => u.door = Nil
  /\ ~DoorOpened(s) /\ ~DoorClosed(s) /\ ResetPressed(s) /\ t.door # Nil =>
       u.door = [t.door EXCEPT !.resets = @ + 1]
  /\ ~DoorOpened(s) /\ ~DoorClosed(s) /\ ~(ResetPressed(s) /\ t.door # Nil) =>
       u.door = t.door

LEMMA DoorSignalsShape ==
  ASSUME NEW t \in TrackerValue, t.cur # Nil, NEW s, NEW at \in Nat, NEW id \in Nat
  PROVE  /\ ApplyDoorSignals(t, s, at, id) \in TrackerValue
         /\ DoorStep(t, ApplyDoorSignals(t, s, at, id), s, at, id)
<1> DEFINE u == ApplyDoorSignals(t, s, at, id)
           row == DoorRow(t.door, at, id)
           e == CloseDoorEpisode(t, at, id)
<1>0. u \in TrackerValue /\ u.cur # Nil
  BY DoorSignalsSame DEF Same
<1>1. CASE DoorOpened(s)
  <2> DEFINE open == [opened |-> at, resets |-> 0]
  <2>1. u = [t EXCEPT !.door = open]
    BY <1>1 DEF ApplyDoorSignals, DoorOpened, DoorClosed, ResetPressed
  <2> HIDE DEF u, open
  <2>2. /\ u.door = open /\ u.cur = t.cur /\ u.dwell = t.dwell /\ u.seq = t.seq
        /\ u.span = t.span /\ u.closed = t.closed
    BY <2>1 DEF TrackerValue
  <2> QED
    BY <1>0, <1>1, <2>2 DEF u, open, DoorStep
<1>2. CASE ~DoorOpened(s) /\ DoorClosed(s)
  <2>1. u = e
    BY <1>2 DEF ApplyDoorSignals, DoorOpened, DoorClosed, ResetPressed
  <2>2. CASE t.door # Nil /\ at > t.door.opened
    <3> DEFINE a == AddRow(t, row)
    <3>1. t.door \in Door
      BY <2>2, TrackerFields
    <3>2. row \in Row
      BY <3>1, DoorRowType
    <3>3. e = [a EXCEPT !.door = Nil]
      BY <2>2 DEF CloseDoorEpisode
    <3> HIDE DEF row, u, e
    <3>4. /\ a \in TrackerValue /\ a.cur.rows = Append(t.cur.rows, row) /\ a.dwell = t.dwell
          /\ a.seq = t.seq /\ a.span = t.span /\ a.closed = t.closed
      BY <3>2, AddRowFields
    <3> HIDE DEF a
    <3>5. /\ u.cur = a.cur /\ u.door = Nil /\ u.dwell = a.dwell /\ u.seq = a.seq
          /\ u.span = a.span /\ u.closed = a.closed
      BY <2>1, <3>3, <3>4 DEF TrackerValue
    <3>6. /\ u.cur.rows = Append(t.cur.rows, row) /\ u.door = Nil /\ u.dwell = t.dwell /\ u.seq = t.seq
          /\ u.span = t.span /\ u.closed = t.closed
      BY <3>4, <3>5
    <3> QED
      BY <1>0, <1>2, <2>2, <3>2, <3>6 DEF u, row, DoorStep
  <2>3. CASE ~(t.door # Nil /\ at > t.door.opened)
    <3>1. u = [t EXCEPT !.door = Nil]
      BY <2>1, <2>3 DEF CloseDoorEpisode
    <3> HIDE DEF u
    <3>2. /\ u.door = Nil /\ u.cur = t.cur /\ u.dwell = t.dwell /\ u.seq = t.seq
          /\ u.span = t.span /\ u.closed = t.closed
      BY <3>1 DEF TrackerValue
    <3> QED
      BY <1>0, <1>2, <3>2 DEF u, DoorStep
  <2> QED
    BY <2>2, <2>3
<1>3. CASE ~DoorOpened(s) /\ ~DoorClosed(s) /\ ResetPressed(s) /\ t.door # Nil
  <2> DEFINE d == [t.door EXCEPT !.resets = @ + 1]
  <2>1. u = [t EXCEPT !.door = d]
    BY <1>3 DEF ApplyDoorSignals, TrackerValue
  <2> HIDE DEF u, d
  <2>2. /\ u.door = d /\ u.cur = t.cur /\ u.dwell = t.dwell /\ u.seq = t.seq
        /\ u.span = t.span /\ u.closed = t.closed
    BY <2>1 DEF TrackerValue
  <2> QED
    BY <1>0, <1>3, <2>2 DEF u, d, DoorStep
<1>4. CASE ~DoorOpened(s) /\ ~DoorClosed(s) /\ ~(ResetPressed(s) /\ t.door # Nil)
  <2>1. u = t
    BY <1>4 DEF ApplyDoorSignals
  <2> QED
    BY <1>0, <1>4, <2>1 DEF DoorStep
<1> QED
  BY <1>1, <1>2, <1>3, <1>4

(* What adds one row to the open interval. *)
LEMMA AddRowShape ==
  ASSUME NEW t \in TrackerValue, t.cur # Nil, NEW r \in Row
  PROVE  /\ AddRow(t, r) \in TrackerValue /\ AddRow(t, r).cur # Nil
         /\ AddRow(t, r).cur.rows = Append(t.cur.rows, r)
         /\ AddRow(t, r).dwell = t.dwell /\ AddRow(t, r).seq = t.seq
         /\ AddRow(t, r).span = t.span /\ AddRow(t, r).door = t.door
         /\ AddRow(t, r).ledger = t.ledger /\ AddRow(t, r).closed = t.closed
BY AddRowFields, AddRowSame DEF Same

LEMMA CountedShape ==
  ASSUME NEW t \in TrackerValue, NEW lane \in Lanes
  PROVE  /\ [t EXCEPT !.seq[lane] = @ + 1] \in TrackerValue
         /\ [t EXCEPT !.seq[lane] = @ + 1].seq = [t.seq EXCEPT ![lane] = t.seq[lane] + 1]
         /\ [t EXCEPT !.seq[lane] = @ + 1].cur = t.cur
         /\ [t EXCEPT !.seq[lane] = @ + 1].dwell = t.dwell
         /\ [t EXCEPT !.seq[lane] = @ + 1].span = t.span
         /\ [t EXCEPT !.seq[lane] = @ + 1].door = t.door
         /\ [t EXCEPT !.seq[lane] = @ + 1].ledger = t.ledger
         /\ [t EXCEPT !.seq[lane] = @ + 1].closed = t.closed
<1>1. t.seq[lane] \in Nat
  BY TrackerFields
<1>2. t.seq[lane] + 1 \in Nat
  BY <1>1
<1> DEFINE n == t.seq[lane] + 1
<1>3. [t EXCEPT !.seq[lane] = @ + 1] = [t EXCEPT !.seq[lane] = n]
  OBVIOUS
<1> HIDE DEF n
<1> QED
  BY <1>2, <1>3 DEF TrackerValue, n

(* What a step run does after its interval is found, piece by piece. *)
StepRunRow(t, sr, at) ==
  DwellRow(LaneForState(sr.state), sr.state, at - sr.len, at, t.seq[LaneForState(sr.state)])
StepRunCounted(t, sr) == [t EXCEPT !.seq[LaneForState(sr.state)] = @ + 1]
StepRunDwelt(t, sr, at) == AddRow(StepRunCounted(t, sr), StepRunRow(t, sr, at))
StepRunDone(t, sr, at, id) ==
  ApplyStepRunFault(StepRunDwelt(t, sr, at), sr, at - sr.len, at, t.seq[LaneForState(sr.state)], id)

LEMMA StepRunPieces ==
  ASSUME NEW t \in TrackerValue, t.cur # Nil, NEW sr \in StepRunShape, NEW at \in Nat,
         sr.len <= at, NEW id \in Nat
  PROVE  /\ LaneForState(sr.state) \in Lanes
         /\ t.seq[LaneForState(sr.state)] \in Nat
         /\ StepRunRow(t, sr, at) \in Row
         /\ StepRunCounted(t, sr) \in TrackerValue /\ StepRunCounted(t, sr).cur # Nil
         /\ StepRunDwelt(t, sr, at) \in TrackerValue /\ StepRunDwelt(t, sr, at).cur # Nil
         /\ StepRunDone(t, sr, at, id) \in TrackerValue
<1> DEFINE lane == LaneForState(sr.state)
           n == t.seq[lane]
           c == StepRunCounted(t, sr)
           row == StepRunRow(t, sr, at)
           d == StepRunDwelt(t, sr, at)
<1>1. at - sr.len \in Nat /\ sr.state \in STRING
  <2>1. sr.len \in Nat /\ sr.state \in STRING
    BY DEF StepRunShape
  <2> QED
    BY <2>1
<1>2. lane \in Lanes
  BY DEF LaneForState, Lanes
<1>3. n \in Nat /\ n \in NatOrNull
  BY <1>2, TrackerFields DEF NatOrNull
<1>4. row \in Row
  <2> HIDE DEF n, lane
  <2>1. DwellRow(lane, sr.state, at - sr.len, at, n) \in Row
    BY <1>1, <1>2, <1>3, RowTypes
  <2> QED
    BY <2>1 DEF StepRunRow, n, lane
<1>5. c \in TrackerValue /\ c.cur # Nil
  BY <1>2, CountedShape DEF StepRunCounted
<1> HIDE DEF c, row
<1>6. d \in TrackerValue /\ d.cur # Nil
  BY <1>4, <1>5, AddRowShape DEF StepRunDwelt, c, row
<1> HIDE DEF d
<1>7. StepRunDone(t, sr, at, id) \in TrackerValue
  BY <1>3, <1>6, StepRunFaultType DEF StepRunDone, d, n, lane
<1> QED
  BY <1>2, <1>3, <1>4, <1>5, <1>6, <1>7 DEF c, d, row, n, lane

LEMMA StepRunShapes ==
  ASSUME NEW t \in TrackerValue, NEW sr \in StepRunShape, NEW at \in Nat, NEW id \in Nat, NEW in,
         in = EnsureInterval(t, sr.key, sr.state, at - sr.len)
  PROVE  \/ ApplyStepRun(t, sr, at, id) = in
         \/ ApplyStepRun(t, sr, at, id) = StepRunCounted(in, sr)
         \/ /\ StepRunDone(in, sr, at, id).cur # Nil
            /\ Completes(StepRunDone(in, sr, at, id), sr.state, sr.step)
            /\ ApplyStepRun(t, sr, at, id) = CloseInterval(StepRunDone(in, sr, at, id), at, "completed")
         \/ ApplyStepRun(t, sr, at, id) = StepRunDone(in, sr, at, id)
BY DEF ApplyStepRun, StepRunDone, StepRunDwelt, StepRunCounted, StepRunRow

-----------------------------------------------------------------------------
(* Dwell numbers.  A lane's counter is beyond every number given in the    *)
(* open interval, and the open dwell has the last one, not yet written.    *)

IsDwell(r, lane) == r.table = "step_dwells" /\ r.lane = lane

NumbersRise(rows) ==
  /\ \A k \in DOMAIN rows : rows[k].table = "step_dwells" => rows[k].lane \in Lanes
  /\ \A j, k \in DOMAIN rows : \A lane \in Lanes :
       j < k /\ IsDwell(rows[j], lane) /\ IsDwell(rows[k], lane) => rows[j].num < rows[k].num
NumbersBelow(rows, lane, n) ==
  \A k \in DOMAIN rows : IsDwell(rows[k], lane) => rows[k].num < n

OpenNumbered(t) ==
  /\ t.cur = Nil \/ UseStepRuns => \A l \in Lanes : t.dwell[l] = Nil
  /\ t.cur # Nil =>
       /\ NumbersRise(t.cur.rows)
       /\ \A l \in Lanes :
            /\ NumbersBelow(t.cur.rows, l, t.seq[l])
            /\ t.dwell[l] # Nil => /\ NumbersBelow(t.cur.rows, l, t.dwell[l].seq)
                                   /\ t.dwell[l].seq < t.seq[l]
Numbered(t) ==
  OpenNumbered(t) /\ \A iv \in Members(t.closed) : NumbersRise(iv.rows)

(* One row more: of another table, or the next number of its lane.         *)
LEMMA NumbersAppend ==
  ASSUME NEW rows \in Seq(Row), NEW r \in Row, NumbersRise(rows),
         r.table = "step_dwells" => r.lane \in Lanes,
         \A l \in Lanes : IsDwell(r, l) => NumbersBelow(rows, l, r.num)
  PROVE  /\ NumbersRise(Append(rows, r))
         /\ \A l \in Lanes, n \in Nat :
              NumbersBelow(rows, l, n) /\ (IsDwell(r, l) => r.num < n)
                => NumbersBelow(Append(rows, r), l, n)
<1> DEFINE new == Append(rows, r)
           m == Len(rows) + 1
<1>1. /\ \A k \in DOMAIN new : k \in DOMAIN rows \/ k = m
      /\ \A k \in DOMAIN rows : k \in DOMAIN new /\ new[k] = rows[k] /\ k \in Nat /\ k < m
      /\ new[m] = r /\ m \in Nat
  <2>1. Len(rows) \in Nat
    BY LenProperties
  <2> QED
    BY <2>1, RowAppended
<1> HIDE DEF new, m
<1>2. NumbersRise(new)
  <2>0. \A k \in DOMAIN new : new[k].table = "step_dwells" => new[k].lane \in Lanes
    BY <1>1 DEF NumbersRise
  <2> SUFFICES ASSUME NEW j \in DOMAIN new, NEW k \in DOMAIN new, NEW l \in Lanes,
                      j < k, IsDwell(new[j], l), IsDwell(new[k], l)
               PROVE  new[j].num < new[k].num
    BY <2>0 DEF NumbersRise
  <2>1. j \in DOMAIN rows
    BY <1>1
  <2>2. CASE k \in DOMAIN rows
    BY <1>1, <2>1, <2>2 DEF NumbersRise
  <2>3. CASE k = m
    BY <1>1, <2>1, <2>3 DEF NumbersBelow
  <2> QED
    BY <1>1, <2>2, <2>3
<1>3. ASSUME NEW l \in Lanes, NEW n \in Nat, NumbersBelow(rows, l, n), IsDwell(r, l) => r.num < n
      PROVE  NumbersBelow(new, l, n)
  BY <1>1, <1>3 DEF NumbersBelow
<1> QED
  BY <1>2, <1>3 DEF new

LEMMA SeqTypes ==
  ASSUME NEW t \in TrackerValue, NEW l \in Lanes
  PROVE  t.seq[l] \in Nat /\ (t.dwell[l] # Nil => t.dwell[l].seq \in Nat /\ t.dwell[l].start \in Nat)
<1>1. t.dwell[l] # Nil => t.dwell[l] \in Dwell
  BY TrackerFields
<1> QED
  BY <1>1, TrackerFields DEF Dwell

(* A row of another table changes nothing here. *)
LEMMA AddedNumbered ==
  ASSUME NEW t \in TrackerValue, t.cur # Nil, OpenNumbered(t),
         NEW u \in TrackerValue, NEW r \in Row, r.table # "step_dwells",
         u.cur # Nil, u.cur.rows = Append(t.cur.rows, r), u.dwell = t.dwell, u.seq = t.seq
  PROVE  OpenNumbered(u)
<1>1. t.cur.rows \in Seq(Row)
  BY RowsOfOpen
<1>2. NumbersRise(t.cur.rows)
  BY DEF OpenNumbered
<1>3. /\ NumbersRise(u.cur.rows)
      /\ \A l \in Lanes, n \in Nat : NumbersBelow(t.cur.rows, l, n) => NumbersBelow(u.cur.rows, l, n)
  <2>1. \A l \in Lanes : ~IsDwell(r, l)
    BY DEF IsDwell
  <2> QED
    BY <1>1, <1>2, <2>1, NumbersAppend
<1> QED
  BY <1>3, SeqTypes DEF OpenNumbered

LEMMA NumberedFrame ==
  ASSUME NEW t, NEW u, OpenNumbered(t), t.cur = Nil <=> u.cur = Nil,
         t.cur # Nil => u.cur.rows = t.cur.rows,
         u.dwell = t.dwell, u.seq = t.seq
  PROVE  OpenNumbered(u)
BY DEF OpenNumbered

LEMMA CloseDwellNumbered ==
  ASSUME NEW t \in TrackerValue, t.cur # Nil, OpenNumbered(t), NEW lane \in Lanes, NEW at \in Nat
  PROVE  OpenNumbered(CloseDwell(t, lane, at))
<1> DEFINE u == CloseDwell(t, lane, at)
           row == DwellRowOf(t, lane, at)
           d == t.dwell[lane]
<1>1. /\ u \in TrackerValue /\ u.cur # Nil
      /\ u.dwell = [t.dwell EXCEPT ![lane] = Nil] /\ u.seq = t.seq
  BY CloseDwellFrame
<1>2. \/ u.cur.rows = t.cur.rows
      \/ d # Nil /\ row \in Row /\ u.cur.rows = Append(t.cur.rows, row)
  BY CloseDwellShape
<1>3. \A l \in Lanes : (l = lane /\ u.dwell[l] = Nil) \/ (l # lane /\ u.dwell[l] = t.dwell[l])
  BY <1>1 DEF TrackerValue
<1> SUFFICES OpenNumbered(u)
  OBVIOUS
<1> HIDE DEF u
<1>4. CASE u.cur.rows = t.cur.rows
  BY <1>1, <1>3, <1>4 DEF OpenNumbered
<1>5. CASE d # Nil /\ row \in Row /\ u.cur.rows = Append(t.cur.rows, row)
  <2>1. t.cur.rows \in Seq(Row) /\ NumbersRise(t.cur.rows)
    BY RowsOfOpen DEF OpenNumbered
  <2>2. row.num = d.seq /\ row.lane \in Lanes /\ \A l \in Lanes : IsDwell(row, l) <=> l = lane
    BY DEF DwellRowOf, DwellRow, IsDwell
  <2>3. NumbersBelow(t.cur.rows, lane, d.seq) /\ d.seq < t.seq[lane]
    BY <1>5 DEF OpenNumbered
  <2> HIDE DEF row
  <2>4. /\ NumbersRise(u.cur.rows)
        /\ \A l \in Lanes, n \in Nat :
             NumbersBelow(t.cur.rows, l, n) /\ (l = lane => d.seq < n)
                => NumbersBelow(u.cur.rows, l, n)
    BY <1>5, <2>1, <2>2, <2>3, NumbersAppend
  <2> HIDE DEF d
  <2>5. \A l \in Lanes : NumbersBelow(u.cur.rows, l, u.seq[l])
    BY <1>1, <2>3, <2>4, SeqTypes DEF OpenNumbered
  <2>6. \A l \in Lanes : u.dwell[l] # Nil => /\ NumbersBelow(u.cur.rows, l, u.dwell[l].seq)
                                             /\ u.dwell[l].seq < u.seq[l]
    BY <1>1, <1>3, <2>4, SeqTypes DEF OpenNumbered
  <2>7. UseStepRuns => \A l \in Lanes : u.dwell[l] = Nil
    BY <1>3 DEF OpenNumbered
  <2> QED
    BY <1>1, <2>4, <2>5, <2>6, <2>7 DEF OpenNumbered
<1> QED
  BY <1>2, <1>4, <1>5

LEMMA CloseStateSpanNumbered ==
  ASSUME NEW t \in TrackerValue, t.cur # Nil, OpenNumbered(t), NEW at \in Nat
  PROVE  OpenNumbered(CloseStateSpanAt(t, at))
<1> DEFINE u == CloseStateSpanAt(t, at)
           row == SpanRow(t.span, at)
<1>1. /\ u \in TrackerValue /\ u.cur # Nil /\ u.dwell = t.dwell /\ u.seq = t.seq
      /\ u.cur = t.cur \/ (row \in Row /\ u.cur.rows = Append(t.cur.rows, row))
  BY CloseStateSpanShape DEF Same
<1>2. row.table # "step_dwells"
  BY DEF SpanRow
<1> HIDE DEF u, row
<1>3. OpenNumbered(u)
  BY <1>1, <1>2, AddedNumbered, NumberedFrame
<1> QED
  BY <1>3 DEF u

LEMMA EmptiedNumbered ==
  ASSUME NEW t \in TrackerValue, t.cur # Nil, OpenNumbered(t), NEW at \in Nat
  PROVE  OpenNumbered(Emptied(t, at))
<1> DEFINE c == CloseDwell(t, "crusher", at)
           m == CloseDwell(c, "main", at)
           u == CloseDwell(m, "tilter", at)
<1>1. "crusher" \in Lanes /\ "main" \in Lanes /\ "tilter" \in Lanes
  BY DEF Lanes
<1>2. c \in TrackerValue /\ c.cur # Nil /\ OpenNumbered(c)
  BY <1>1, CloseDwellFrame, CloseDwellNumbered
<1> HIDE DEF c
<1>3. m \in TrackerValue /\ m.cur # Nil /\ OpenNumbered(m)
  BY <1>1, <1>2, CloseDwellFrame, CloseDwellNumbered
<1> HIDE DEF m
<1>4. u \in TrackerValue /\ u.cur # Nil /\ OpenNumbered(u)
  BY <1>1, <1>3, CloseDwellFrame, CloseDwellNumbered
<1> HIDE DEF u
<1>5. OpenNumbered(CloseStateSpanAt(u, at))
  BY <1>4, CloseStateSpanNumbered
<1> QED
  BY <1>5 DEF Emptied, CloseOpenDwells, u, m, c

LEMMA CloseIntervalNumbered ==
  ASSUME NEW t \in TrackerValue, Numbered(t), NEW at \in Nat, NEW forced \in ForcedResults
  PROVE  Numbered(CloseInterval(t, at, forced))
<1> DEFINE u == CloseInterval(t, at, forced)
<1>1. CASE t.cur = Nil
  BY <1>1, CloseIntervalNothing
<1>2. CASE t.cur # Nil
  <2> DEFINE c == Emptied(t, at)
  <2>1. c.cur # Nil /\ OpenNumbered(c)
    BY <1>2, EmptiedShape, EmptiedNumbered DEF Numbered
  <2>2. NumbersRise(c.cur.rows)
    BY <2>1 DEF OpenNumbered
  <2>3. u.cur = Nil /\ u.dwell = [l \in Lanes |-> Nil]
    BY <1>2, CloseIntervalShape
  <2>4. u.closed = t.closed \/ \E iv \in Interval : u.closed = Append(t.closed, iv) /\ iv.rows = c.cur.rows
    <3>1. \A iv : EmittedAs(t, at, forced, iv) => iv.rows = c.cur.rows
      BY DEF EmittedAs
    <3> HIDE DEF c
    <3> QED
      BY <1>2, <3>1, CloseIntervalShape
  <2> HIDE DEF c, u
  <2>5. OpenNumbered(u)
    BY <2>3 DEF OpenNumbered
  <2>6. \A iv \in Members(u.closed) : NumbersRise(iv.rows)
    <3>1. t.closed \in Seq(Interval)
      BY TrackerFields
    <3>2. ASSUME NEW iv \in Interval, u.closed = Append(t.closed, iv), iv.rows = c.cur.rows
          PROVE  \A v \in Members(u.closed) : NumbersRise(v.rows)
      <4>1. Members(u.closed) = Members(t.closed) \cup {iv}
        BY <3>1, <3>2, MembersOfAppend
      <4> QED
        BY <2>2, <3>2, <4>1 DEF Numbered
    <3>3. CASE u.closed = t.closed
      BY <3>3 DEF Numbered
    <3> QED
      BY <2>4, <3>2, <3>3
  <2> QED
    BY <2>5, <2>6 DEF Numbered, u
<1> QED
  BY <1>1, <1>2

LEMMA EnsureNumbered ==
  ASSUME NEW t \in TrackerValue, Numbered(t), NEW key \in KeysOrNone, NEW state, NEW at \in Nat
  PROVE  Numbered(EnsureInterval(t, key, state, at))
<1> DEFINE u == EnsureInterval(t, key, state, at)
           want == ResultForState(state)
<1>1. CASE u = t
  BY <1>1
<1>2. ASSUME NEW forced \in ForcedResults,
             u = OpenInterval(CloseInterval(t, at, forced), key, want, at)
      PROVE  Numbered(u)
  <2> DEFINE c == CloseInterval(t, at, forced)
  <2>1. c \in TrackerValue /\ c.cur = Nil /\ Numbered(c)
    BY CloseIntervalFollows, CloseIntervalNumbered
  <2>2. want \in SynthResults
    BY ResultForStateType
  <2> HIDE DEF c, want
  <2>3. LET v == OpenInterval(c, key, want, at)
        IN  /\ v.closed = c.closed /\ v.dwell = c.dwell /\ v.cur # Nil /\ v.cur.rows = <<>>
  BY <2>1, <2>2, OpenIntervalFields
  <2>4. u.closed = c.closed /\ u.dwell = c.dwell /\ u.cur # Nil /\ u.cur.rows = <<>>
    BY <1>2, <2>3 DEF c
  <2> HIDE DEF u
  <2>5. \A l \in Lanes : u.dwell[l] = Nil
    BY <2>1, <2>4 DEF Numbered, OpenNumbered
  <2>6. DOMAIN u.cur.rows = {}
    BY <2>4
  <2>7. OpenNumbered(u)
    BY <2>5, <2>6 DEF OpenNumbered, NumbersRise, NumbersBelow
  <2> QED
    BY <2>1, <2>4, <2>7 DEF Numbered
<1> QED
  BY <1>1, <1>2, EnsureShape

(* Handlers. *)
LEMMA TrackStateSpanNumbered ==
  ASSUME NEW t \in TrackerValue, t.cur # Nil, Numbered(t), NEW e \in EventShape, NEW at \in Nat
  PROVE  Numbered(TrackStateSpan(t, e, at))
<1> DEFINE u == TrackStateSpan(t, e, at)
           c == CloseStateSpanAt(t, at)
<1>1. /\ c \in TrackerValue /\ c.cur # Nil /\ c.closed = t.closed
      /\ OpenNumbered(t) /\ OpenNumbered(c)
  BY CloseStateSpanShape, CloseStateSpanNumbered DEF Same, Numbered
<1>2. /\ u \in TrackerValue /\ u.cur # Nil
      /\ u = t \/ (u.cur = c.cur /\ u.dwell = c.dwell /\ u.seq = c.seq /\ u.closed = c.closed)
  BY TrackStateSpanShape
<1> SUFFICES Numbered(u)
  OBVIOUS
<1> HIDE DEF u, c
<1>3. u = t \/ OpenNumbered(u)
  BY <1>1, <1>2, NumberedFrame
<1> QED
  BY <1>1, <1>2, <1>3 DEF Numbered

LEMMA TrackDwellNumbered ==
  ASSUME ~UseStepRuns,
         NEW t \in TrackerValue, t.cur # Nil, Numbered(t), NEW e \in EventShape, NEW at \in Nat
  PROVE  Numbered(TrackDwell(t, e, at))
<1> DEFINE u == TrackDwell(t, e, at)
           lane == LaneForState(e.state)
<1>0. lane \in Lanes /\ u \in TrackerValue /\ (u = t \/ \E d \in Dwell : Tracked(t, u, lane, d, at))
  BY TrackDwellShape
<1> HIDE DEF u, lane
<1> SUFFICES ASSUME NEW d \in Dwell, Tracked(t, u, lane, d, at) PROVE Numbered(u)
  BY <1>0 DEF u
<1> DEFINE c == CloseDwell(t, lane, at)
<1>1. /\ c \in TrackerValue /\ c.cur # Nil /\ OpenNumbered(c)
      /\ c.dwell = [t.dwell EXCEPT ![lane] = Nil] /\ c.seq = t.seq
  BY <1>0, CloseDwellFrame, CloseDwellNumbered DEF Numbered
<1> HIDE DEF c
<1>2. u.cur = c.cur
  BY DEF c, Tracked
<1>3. \A l \in Lanes : /\ t.seq[l] \in Nat
                       /\ l = lane => u.dwell[l] = d /\ u.seq[l] = t.seq[l] + 1
                       /\ l # lane => u.dwell[l] = c.dwell[l] /\ u.seq[l] = t.seq[l]
  BY <1>0, <1>1, TrackerFields DEF TrackerValue, Tracked
<1>4. \A n \in Nat, l \in Lanes : NumbersBelow(u.cur.rows, l, n) => NumbersBelow(u.cur.rows, l, n + 1)
  <2> SUFFICES ASSUME NEW n \in Nat, NEW l \in Lanes, NumbersBelow(u.cur.rows, l, n),
                      NEW k \in DOMAIN u.cur.rows, IsDwell(u.cur.rows[k], l)
               PROVE  u.cur.rows[k].num < n + 1
    BY DEF NumbersBelow
  <2>1. u.cur.rows[k] \in Row /\ u.cur.rows[k].num < n
    BY <1>1, <1>2, RowsOfOpen DEF NumbersBelow
  <2>2. u.cur.rows[k].num \in Int
    BY <2>1 DEF Row, NatOrNull, NoStep
  <2> QED
    BY <2>1, <2>2
<1>5. /\ NumbersRise(u.cur.rows)
      /\ \A l \in Lanes : NumbersBelow(u.cur.rows, l, t.seq[l])
  BY <1>1, <1>2 DEF OpenNumbered
<1>6. ASSUME NEW l \in Lanes
      PROVE  /\ NumbersBelow(u.cur.rows, l, u.seq[l])
             /\ u.dwell[l] # Nil => /\ NumbersBelow(u.cur.rows, l, u.dwell[l].seq)
                                    /\ u.dwell[l].seq < u.seq[l]
  <2>1. CASE l = lane
    <3>1. u.seq[l] = t.seq[l] + 1 /\ u.dwell[l].seq = t.seq[l] /\ t.seq[l] \in Nat
      BY <1>3, <2>1 DEF Tracked
    <3>2. u.dwell[l].seq < u.seq[l]
      BY <3>1
    <3> QED
      BY <1>4, <1>5, <3>1, <3>2
  <2>2. CASE l # lane
    BY <1>1, <1>2, <1>3, <1>5, <2>2 DEF OpenNumbered
  <2> QED
    BY <2>1, <2>2
<1>7. OpenNumbered(u)
  BY <1>1, <1>2, <1>5, <1>6 DEF OpenNumbered
<1> QED
  BY <1>7 DEF Numbered, Tracked

LEMMA AddRowNumbered ==
  ASSUME NEW t \in TrackerValue, t.cur # Nil, Numbered(t), NEW r \in Row, r.table # "step_dwells"
  PROVE  Numbered(AddRow(t, r))
<1> DEFINE u == AddRow(t, r)
<1>1. /\ u \in TrackerValue /\ u.cur # Nil /\ u.cur.rows = Append(t.cur.rows, r)
      /\ u.dwell = t.dwell /\ u.seq = t.seq /\ u.closed = t.closed
  BY AddRowShape
<1> SUFFICES Numbered(u)
  OBVIOUS
<1> HIDE DEF u
<1>2. OpenNumbered(u)
  BY <1>1, AddedNumbered DEF Numbered
<1> QED
  BY <1>1, <1>2 DEF Numbered

LEMMA OrderNumbered ==
  ASSUME NEW t \in TrackerValue, Numbered(t), NEW o \in OrderShape, NEW at \in Nat
  PROVE  Numbered(ApplyOrder(t, o, at))
<1> DEFINE v == EnsureInterval(t, o.key, "AutoCycle", at)
           u == [v EXCEPT !.cur.recipe = TRUE]
<1>1. o.key \in KeysOrNone
  BY DEF OrderShape, KeysOrNone
<1>2. v \in TrackerValue /\ v.cur # Nil /\ Numbered(v)
  BY <1>1, EnsureSettled, EnsureNumbered
<1> HIDE DEF v
<1>3. /\ u.cur # Nil /\ u.cur.rows = v.cur.rows
      /\ u.dwell = v.dwell /\ u.seq = v.seq /\ u.closed = v.closed
  BY <1>2, RecipeShape
<1> HIDE DEF u
<1>4. Numbered(u)
  BY <1>2, <1>3, NumberedFrame DEF Numbered
<1> QED
  BY <1>4 DEF ApplyOrder, u, v

LEMMA EventNumbered ==
  ASSUME NEW t \in TrackerValue, Numbered(t), NEW e \in EventShape, NEW at \in Nat
  PROVE  Numbered(ApplyFSMEvent(t, e, at))
<1> DEFINE v == EnsureInterval(t, e.key, e.state, at)
           s == TrackStateSpan(v, e, at)
           d == IF UseStepRuns THEN s ELSE TrackDwell(s, e, at)
<1>1. e.key \in KeysOrNone
  BY DEF EventShape, KeysOrNone
<1>2. v \in TrackerValue /\ v.cur # Nil /\ Numbered(v)
  BY <1>1, EnsureSettled, EnsureNumbered
<1> HIDE DEF v
<1>3. s \in TrackerValue /\ s.cur # Nil /\ Numbered(s)
  BY <1>2, TrackStateSpanShape, TrackStateSpanNumbered
<1> HIDE DEF s
<1>4. d \in TrackerValue /\ Numbered(d)
  BY <1>3, TrackDwellShape, TrackDwellNumbered
<1> HIDE DEF d
<1>5. Numbered(CloseInterval(d, at, "completed"))
  BY <1>4, CloseIntervalNumbered, ForcedResultsType
<1> QED
  BY <1>4, <1>5 DEF ApplyFSMEvent, d, s, v

LEMMA FaultNumbered ==
  ASSUME NEW t \in TrackerValue, Numbered(t), NEW f \in FaultShape, NEW at \in Nat, NEW id \in Nat
  PROVE  Numbered(ApplyFault(t, f, at, id))
<1> DEFINE v == EnsureInterval(t, f.key, f.state, at)
           n == RecordLedgerFault(v, f.type, at)
           main == n.dwell["main"]
           num == IF main = Nil THEN NoStep ELSE main.seq
           row == FaultRow(f.type, at, id, num)
           a == AddRow(n, row)
<1>1. f.key \in KeysOrNone /\ f.type \in STRING
  BY DEF FaultShape, KeysOrNone
<1>2. v \in TrackerValue /\ v.cur # Nil /\ Numbered(v)
  BY <1>1, EnsureSettled, EnsureNumbered
<1> HIDE DEF v
<1>3. /\ n \in TrackerValue /\ n.cur # Nil /\ n.cur = v.cur
      /\ n.dwell = v.dwell /\ n.seq = v.seq /\ n.closed = v.closed
  BY <1>1, <1>2, LedgerShape
<1> HIDE DEF n
<1>4. Numbered(n)
  BY <1>2, <1>3, NumberedFrame DEF Numbered
<1>5. num \in NatOrNull
  BY <1>3, SeqTypes DEF NatOrNull, Lanes
<1> HIDE DEF num
<1>6. row \in Row /\ row.table # "step_dwells"
  <2>1. row \in Row
    BY <1>1, <1>5, RowTypes
  <2> QED
    BY <2>1 DEF FaultRow
<1> HIDE DEF row
<1>7. a \in TrackerValue /\ Numbered(a)
  BY <1>3, <1>4, <1>6, AddRowShape, AddRowNumbered
<1> HIDE DEF a
<1>8. Numbered(CloseInterval(a, at, FaultResult(f.type)))
  BY <1>7, CloseIntervalNumbered, ForcedResultsType
<1> QED
  BY <1>7, <1>8 DEF ApplyFault, a, row, num, main, n, v

LEMMA ToggleNumbered ==
  ASSUME NEW t \in TrackerValue, Numbered(t), NEW s \in ToggleShape, NEW at \in Nat, NEW id \in Nat
  PROVE  Numbered(ApplySensorToggle(t, s, at, id))
<1> DEFINE v == EnsureInterval(t, s.key, s.state, at)
           d == ApplyDoorSignals(v, s, at, id)
           row == ToggleRow(s.input, at, id)
           door == DoorRow(v.door, at, id)
<1>1. s.key \in KeysOrNone /\ s.input \in STRING
  BY DEF ToggleShape, KeysOrNone
<1>2. v \in TrackerValue /\ v.cur # Nil /\ Numbered(v)
  BY <1>1, EnsureSettled, EnsureNumbered
<1> HIDE DEF v
<1>3. /\ d \in TrackerValue /\ d.cur # Nil
      /\ d.dwell = v.dwell /\ d.seq = v.seq /\ d.closed = v.closed
      /\ d.cur = v.cur \/ (door \in Row /\ d.cur.rows = Append(v.cur.rows, door))
  <2>1. d \in TrackerValue /\ DoorStep(v, d, s, at, id)
    BY <1>2, DoorSignalsShape
  <2> HIDE DEF d
  <2> QED
    BY <2>1 DEF DoorStep
<1>4. door.table # "step_dwells" /\ row.table # "step_dwells"
  BY DEF DoorRow, ToggleRow
<1> HIDE DEF d, door
<1>5. OpenNumbered(d)
  BY <1>2, <1>3, <1>4, AddedNumbered, NumberedFrame DEF Numbered
<1>6. Numbered(d)
  BY <1>2, <1>3, <1>5 DEF Numbered
<1>7. row \in Row
  <2>1. 0 \in NatOrNull
    BY DEF NatOrNull
  <2> QED
    BY <1>1, <2>1, RowTypes
<1> HIDE DEF row
<1>8. Numbered(AddRow(d, row))
  BY <1>3, <1>4, <1>6, <1>7, AddRowNumbered
<1> QED
  BY <1>8 DEF ApplySensorToggle, row, d, v

LEMMA ConfigNumbered ==
  ASSUME NEW t \in TrackerValue, Numbered(t), NEW k \in STRING, NEW at \in Nat, NEW id \in Nat
  PROVE  Numbered(ApplyConfigChange(t, k, at, id))
<1> DEFINE state == IF t.cur # Nil /\ ~t.cur.prod THEN t.cur.result ELSE ""
           v == EnsureInterval(t, NoKey, state, at)
           row == ConfigRow(k, at, id)
<1> HIDE DEF state
<1>1. NoKey \in KeysOrNone
  BY DEF KeysOrNone
<1>2. v \in TrackerValue /\ v.cur # Nil /\ Numbered(v)
  BY <1>1, EnsureSettled, EnsureNumbered
<1> HIDE DEF v
<1>3. row \in Row /\ row.table # "step_dwells"
  <2>1. 0 \in NatOrNull
    BY DEF NatOrNull
  <2>2. row \in Row
    BY <2>1, RowTypes
  <2> QED
    BY <2>2 DEF ConfigRow
<1> HIDE DEF row
<1>4. Numbered(AddRow(v, row))
  BY <1>2, <1>3, AddRowNumbered
<1> QED
  BY <1>4 DEF ApplyConfigChange, row, v, state

LEMMA FlushNumbered ==
  ASSUME NEW t \in TrackerValue, Numbered(t), NEW now \in Nat
  PROVE  Numbered(FlushOpen(t, now))
<1>1. CASE t.cur = Nil
  BY <1>1 DEF FlushOpen
<1>2. CASE t.cur # Nil
  <2> DEFINE end == IF now <= t.cur.start THEN t.cur.start + 1 ELSE now
             forced == IF t.cur.prod THEN "aborted" ELSE t.cur.result
  <2>1. end \in Nat /\ forced \in ForcedResults
    <3>1. t.cur.start \in Nat /\ t.cur.start + 1 \in Nat
      BY <1>2, TrackerFields, IntervalFields
    <3> QED
      BY <1>2, <3>1, ForcedResultsType
  <2>2. FlushOpen(t, now) = CloseInterval(t, end, forced)
    BY <1>2 DEF FlushOpen
  <2> HIDE DEF end, forced
  <2> QED
    BY <2>1, <2>2, CloseIntervalNumbered
<1> QED
  BY <1>1, <1>2

LEMMA StepRunDweltNumbered ==
  ASSUME UseStepRuns, NEW t \in TrackerValue, t.cur # Nil, Numbered(t), NEW sr \in StepRunShape,
         NEW at \in Nat, sr.len <= at
  PROVE  Numbered(StepRunCounted(t, sr)) /\ Numbered(StepRunDwelt(t, sr, at))
<1> DEFINE lane == LaneForState(sr.state)
           c == StepRunCounted(t, sr)
           row == StepRunRow(t, sr, at)
           u == StepRunDwelt(t, sr, at)
<1>1. /\ lane \in Lanes /\ t.seq[lane] \in Nat /\ row \in Row
      /\ c \in TrackerValue /\ c.cur # Nil /\ u \in TrackerValue /\ u.cur # Nil
  BY StepRunPieces
<1>2. /\ c.seq = [t.seq EXCEPT ![lane] = t.seq[lane] + 1]
      /\ c.cur = t.cur /\ c.dwell = t.dwell /\ c.closed = t.closed
  BY <1>1, CountedShape DEF StepRunCounted
<1>3. row.lane = lane /\ row.num = t.seq[lane] /\ \A l \in Lanes : IsDwell(row, l) => l = lane
  BY DEF StepRunRow, DwellRow, IsDwell
<1>4. /\ u.cur.rows = Append(c.cur.rows, row) /\ u.dwell = c.dwell /\ u.seq = c.seq
      /\ u.closed = c.closed
  BY <1>1, AddRowShape DEF StepRunDwelt
<1> HIDE DEF c, row, u, lane
<1>5. \A l \in Lanes : /\ t.seq[l] \in Nat /\ c.seq[l] \in Nat /\ t.seq[l] <= c.seq[l]
                       /\ l = lane => c.seq[l] = t.seq[l] + 1
  BY <1>1, <1>2, TrackerFields DEF TrackerValue
<1>6. /\ t.cur.rows \in Seq(Row) /\ NumbersRise(t.cur.rows)
      /\ \A l \in Lanes : t.dwell[l] = Nil /\ NumbersBelow(t.cur.rows, l, t.seq[l])
  BY RowsOfOpen DEF Numbered, OpenNumbered
<1>7. \A l \in Lanes : NumbersBelow(t.cur.rows, l, c.seq[l])
  <2> SUFFICES ASSUME NEW l \in Lanes, NEW k \in DOMAIN t.cur.rows, IsDwell(t.cur.rows[k], l)
               PROVE  t.cur.rows[k].num < c.seq[l]
    BY DEF NumbersBelow
  <2>1. t.cur.rows[k] \in Row /\ t.cur.rows[k].num < t.seq[l]
    BY <1>6, RowsOfOpen DEF NumbersBelow
  <2>2. t.cur.rows[k].num \in Int
    BY <2>1 DEF Row, NatOrNull, NoStep
  <2> QED
    BY <1>5, <2>1, <2>2
<1>8. OpenNumbered(c)
  BY <1>1, <1>2, <1>6, <1>7 DEF OpenNumbered
<1>9. /\ NumbersRise(u.cur.rows)
      /\ \A l \in Lanes, n \in Nat :
           NumbersBelow(t.cur.rows, l, n) /\ (IsDwell(row, l) => row.num < n)
             => NumbersBelow(u.cur.rows, l, n)
  <2>1. \A l \in Lanes : IsDwell(row, l) => NumbersBelow(t.cur.rows, l, row.num)
    BY <1>3, <1>6
  <2>2. u.cur.rows = Append(t.cur.rows, row) /\ row.lane \in Lanes
    BY <1>1, <1>2, <1>3, <1>4
  <2> QED
    BY <1>1, <1>6, <2>1, <2>2, NumbersAppend
<1>10. \A l \in Lanes : NumbersBelow(u.cur.rows, l, u.seq[l])
  <2> TAKE l \in Lanes
  <2>1. IsDwell(row, l) => row.num < c.seq[l]
    BY <1>1, <1>3, <1>5
  <2> QED
    BY <1>4, <1>5, <1>7, <1>9, <2>1
<1>11. OpenNumbered(u)
  BY <1>1, <1>2, <1>4, <1>6, <1>9, <1>10 DEF OpenNumbered
<1> QED
  BY <1>2, <1>4, <1>8, <1>11 DEF Numbered, c, u

LEMMA StepRunNumbered ==
  ASSUME UseStepRuns, NEW t \in TrackerValue, Numbered(t), NEW sr \in StepRunShape,
         NEW at \in Nat, sr.len <= at, NEW id \in Nat
  PROVE  Numbered(ApplyStepRun(t, sr, at, id))
<1> DEFINE in == EnsureInterval(t, sr.key, sr.state, at - sr.len)
           n == in.seq[LaneForState(sr.state)]
           d == StepRunDwelt(in, sr, at)
           f == FaultRow(sr.fault, at, id, n)
           faulted == AddRow(d, f)
           done == StepRunDone(in, sr, at, id)
<1>1. in \in TrackerValue /\ in.cur # Nil /\ Numbered(in)
  <2>1. at - sr.len \in Nat /\ sr.key \in KeysOrNone
    <3>1. sr.len \in Nat /\ sr.key \in KeysOrNone
      BY DEF StepRunShape, KeysOrNone
    <3> QED
      BY <3>1
  <2> QED
    BY <2>1, EnsureSettled, EnsureNumbered
<1> HIDE DEF in
<1>2. /\ d \in TrackerValue /\ d.cur # Nil /\ Numbered(d) /\ Numbered(StepRunCounted(in, sr))
      /\ n \in Nat /\ done \in TrackerValue
  BY <1>1, StepRunPieces, StepRunDweltNumbered
<1>3. f \in Row /\ f.table # "step_dwells"
  <2>1. sr.fault \in STRING /\ n \in NatOrNull
    BY <1>2 DEF StepRunShape, NatOrNull
  <2> HIDE DEF n
  <2>2. f \in Row
    BY <2>1, RowTypes
  <2> QED
    BY <2>2 DEF FaultRow
<1>4. done \in {d, faulted, CloseInterval(faulted, at, FaultResult(sr.fault))}
  BY DEF StepRunDone, ApplyStepRunFault
<1> HIDE DEF d, f, done, n
<1>5. faulted \in TrackerValue /\ Numbered(faulted)
  BY <1>2, <1>3, AddRowShape, AddRowNumbered
<1> HIDE DEF faulted
<1>6. Numbered(CloseInterval(faulted, at, FaultResult(sr.fault)))
  BY <1>5, CloseIntervalNumbered, ForcedResultsType
<1>7. Numbered(done)
  BY <1>2, <1>4, <1>5, <1>6
<1>8. Numbered(CloseInterval(done, at, "completed"))
  BY <1>2, <1>7, CloseIntervalNumbered, ForcedResultsType
<1> QED
  BY <1>1, <1>2, <1>7, <1>8, StepRunShapes DEF in, done

NumbersInv ==
  Numbered(trk) /\ \A iv \in Members(out) : NumbersRise(iv.rows)

LEMMA NumbersStep ==
  ASSUME TypeOK, NumbersInv, [Next]_vars
  PROVE  NumbersInv'
<1>1. trk \in TrackerValue /\ latest \in Nat /\ NextId \in Nat /\ Numbered(trk)
  BY NextIdType DEF TypeOK, NumbersInv
<1>2. ASSUME Numbered(trk'), out' = out PROVE NumbersInv'
  BY <1>2 DEF NumbersInv
<1>3. ASSUME NEW at \in 0 .. MaxTime, NEW o \in Orders, OrderArrives(o, at) PROVE NumbersInv'
  <2>1. o \in OrderShape /\ at \in Nat
    BY SourceShapes DEF SourceShapes
  <2>2. Numbered(trk')
    BY <1>1, <1>3, <2>1, OrderNumbered DEF OrderArrives
  <2> QED
    BY <1>2, <1>3, <2>2 DEF OrderArrives, Fed
<1>4. ASSUME NEW at \in 0 .. MaxTime, NEW e \in Events, EventArrives(e, at) PROVE NumbersInv'
  <2>1. e \in EventShape /\ at \in Nat
    BY SourceShapes DEF SourceShapes
  <2>2. Numbered(trk')
    BY <1>1, <1>4, <2>1, EventNumbered DEF EventArrives
  <2> QED
    BY <1>2, <1>4, <2>2 DEF EventArrives, Fed
<1>5. ASSUME NEW at \in 0 .. MaxTime, NEW f \in Faults, FaultArrives(f, at) PROVE NumbersInv'
  <2>1. f \in FaultShape /\ at \in Nat
    BY SourceShapes DEF SourceShapes
  <2>2. Numbered(trk')
    BY <1>1, <1>5, <2>1, FaultNumbered DEF FaultArrives
  <2> QED
    BY <1>2, <1>5, <2>2 DEF FaultArrives, Fed
<1>6. ASSUME NEW at \in 0 .. MaxTime, NEW s \in Toggles, ToggleArrives(s, at) PROVE NumbersInv'
  <2>1. s \in ToggleShape /\ at \in Nat
    BY SourceShapes DEF SourceShapes
  <2>2. Numbered(trk')
    BY <1>1, <1>6, <2>1, ToggleNumbered DEF ToggleArrives
  <2> QED
    BY <1>2, <1>6, <2>2 DEF ToggleArrives, Fed
<1>7. ASSUME NEW at \in 0 .. MaxTime, NEW sr \in StepRuns, StepRunArrives(sr, at) PROVE NumbersInv'
  <2>1. sr \in StepRunShape /\ at \in Nat /\ UseStepRuns
    BY SourceShapes DEF SourceShapes
  <2>2. Numbered(trk')
    BY <1>1, <1>7, <2>1, StepRunNumbered DEF StepRunArrives
  <2> QED
    BY <1>2, <1>7, <2>2 DEF StepRunArrives, Fed
<1>8. ASSUME NEW k \in ConfigKeys, ConfigChanges(k) PROVE NumbersInv'
  <2>1. k \in STRING
    BY SourceShapes DEF SourceShapes
  <2>2. Numbered(trk')
    BY <1>1, <1>8, <2>1, ConfigNumbered DEF ConfigChanges
  <2> QED
    BY <1>2, <1>8, <2>2 DEF ConfigChanges, Fed
<1>9. CASE Take
  <2>1. trk.closed \in Seq(Interval) /\ out \in Seq(Interval) /\ SortByEnd(trk.closed) \in Seq(Interval)
    BY <1>1, TrackerFields, SortByEndType DEF TypeOK
  <2>2. Members(out') \subseteq Members(out) \cup Members(trk.closed)
    BY <1>9, <2>1, MembersOfConcat, SortByEndMembers DEF Take
  <2>3. /\ trk'.closed = <<>> /\ trk'.cur = trk.cur /\ trk'.dwell = trk.dwell /\ trk'.seq = trk.seq
    BY <1>1, <1>9 DEF Take, TakePending, TrackerValue
  <2>4. OpenNumbered(trk')
    BY <1>1, <2>3, NumberedFrame DEF Numbered
  <2>5. Members(trk'.closed) = {}
    BY <2>3 DEF Members
  <2>6. Numbered(trk')
    BY <2>4, <2>5 DEF Numbered
  <2>7. \A iv \in Members(out') : NumbersRise(iv.rows)
    BY <2>2 DEF NumbersInv, Numbered
  <2> QED
    BY <2>6, <2>7 DEF NumbersInv
<1>10. CASE Shutdown
  <2>1. Numbered(trk')
    BY <1>1, <1>10, FlushNumbered DEF Shutdown
  <2> QED
    BY <1>2, <1>10, <2>1 DEF Shutdown
<1>11. CASE UNCHANGED vars
  BY <1>1, <1>2, <1>11 DEF vars
<1> QED
  BY <1>3, <1>4, <1>5, <1>6, <1>7, <1>8, <1>9, <1>10, <1>11 DEF Next

(* "seq_index numbers the dwells of a lane": inside any interval, emitted  *)
(* or open, no number is given twice and later dwells have higher ones,    *)
(* step runs and late rows included.                                       *)
THEOREM DwellsNumbered == Spec => []SeqIndexIncreasing
<1>1. Init => NumbersInv
  <2> SUFFICES ASSUME Init PROVE NumbersInv
    OBVIOUS
  <2>1. trk.cur = Nil /\ trk.closed = <<>> /\ out = <<>> /\ \A l \in Lanes : trk.dwell[l] = Nil
    BY DEF Init, NewTracker
  <2>2. Members(trk.closed) = {} /\ Members(out) = {}
    BY <2>1 DEF Members
  <2> QED
    BY <2>1, <2>2 DEF NumbersInv, Numbered, OpenNumbered
<1>2. TypeOK /\ NumbersInv /\ [Next]_vars => NumbersInv'
  BY NumbersStep
<1>3. TypeOK /\ NumbersInv => SeqIndexIncreasing
  <2> SUFFICES ASSUME TypeOK, NumbersInv PROVE SeqIndexIncreasing
    OBVIOUS
  <2>1. AllIntervals = Members(out) \cup Members(trk.closed) \cup Doing
    <3>1. trk.closed \in Seq(Interval) /\ out \in Seq(Interval)
      BY TrackerFields DEF TypeOK
    <3> QED
      BY <3>1, MembersOfConcat DEF AllIntervals, Done, Members
  <2>2. \A iv \in AllIntervals : NumbersRise(iv.rows)
    BY <2>1 DEF Doing, NumbersInv, Numbered, OpenNumbered
  <2>3. ASSUME NEW iv \in AllIntervals, NEW j \in RowsOf(iv, "step_dwells"),
               NEW k \in RowsOf(iv, "step_dwells"), j < k, iv.rows[j].lane = iv.rows[k].lane
        PROVE  iv.rows[j].num < iv.rows[k].num
    <3> DEFINE l == iv.rows[k].lane
    <3>1. j \in DOMAIN iv.rows /\ k \in DOMAIN iv.rows /\ l \in Lanes
      BY <2>2 DEF RowsOf, NumbersRise
    <3>2. IsDwell(iv.rows[j], l) /\ IsDwell(iv.rows[k], l)
      BY <2>3 DEF RowsOf, IsDwell
    <3> HIDE DEF l
    <3> QED
      BY <2>2, <2>3, <3>1, <3>2 DEF NumbersRise
  <2> QED
    BY <2>3 DEF SeqIndexIncreasing
<1> QED
  BY <1>1, <1>2, <1>3, TypeCorrect, PTL DEF Spec

-----------------------------------------------------------------------------
(* Rows in time.  Every row is stamped with the moment it was added, so    *)
(* the rows of an interval stand in time order; a dwell begins where the   *)
(* lane's last one ended or later, and a span where the last one ended,    *)
(* though it may have been entered before the interval that writes it.     *)

(* Two rows that occupy the same thing: the machine, or one lane of it. *)
OneTrack(r, q) ==
  /\ r.table = q.table
  /\ r.table = "state_durations" \/ (r.table = "step_dwells" /\ r.lane = q.lane)

RowsTimely(rows, start, end) ==
  /\ \A k \in DOMAIN rows :
       /\ start <= rows[k].at /\ rows[k].at <= end
       /\ rows[k].table = "step_dwells" => start <= rows[k].from /\ rows[k].from < rows[k].at
  /\ \A j, k \in DOMAIN rows : j < k =>
       /\ rows[j].at <= rows[k].at
       /\ OneTrack(rows[j], rows[k]) => rows[j].at <= rows[k].from

(* No row of the lane is later than b; no span is later, or earlier. *)
LaneUntil(rows, lane, b) == \A k \in DOMAIN rows : IsDwell(rows[k], lane) => rows[k].at <= b
SpansUntil(rows, b) == \A k \in DOMAIN rows : rows[k].table = "state_durations" => rows[k].at <= b
SpansFrom(rows, b) == \A k \in DOMAIN rows : rows[k].table = "state_durations" => b <= rows[k].from

(* The intervals P are over, t has what comes after them.                  *)
PastTimely(P, now) ==
  /\ \A v \in P : v.start < v.end /\ v.end <= now /\ RowsTimely(v.rows, v.start, v.end)
  /\ \A v, w \in P : v.end <= w.start => SpansFrom(w.rows, v.end)

OpenTimely(P, t, now) ==
  /\ t.span # Nil => t.span.entered <= now /\ \A v \in P : v.end <= t.span.entered
  /\ t.cur = Nil => \A l \in Lanes : t.dwell[l] = Nil
  /\ t.cur # Nil =>
       /\ t.cur.start <= now /\ RowsTimely(t.cur.rows, t.cur.start, now)
       /\ \A v \in P : v.end <= t.cur.start /\ SpansFrom(t.cur.rows, v.end)
       /\ t.span # Nil => SpansUntil(t.cur.rows, t.span.entered)
       /\ \A l \in Lanes : t.dwell[l] # Nil =>
            /\ t.cur.start <= t.dwell[l].start /\ t.dwell[l].start <= now
            /\ LaneUntil(t.cur.rows, l, t.dwell[l].start)

Timely(Q, t, now) ==
  /\ PastTimely(Q \cup Members(t.closed), now)
  /\ OpenTimely(Q \cup Members(t.closed), t, now)

LEMMA RowTimes ==
  ASSUME NEW r \in Row PROVE r.at \in Nat /\ r.from \in Nat /\ r.src \in Nat
BY DEF Row

(* One row more, stamped now. *)
LEMMA TimelyAppend ==
  ASSUME NEW rows \in Seq(Row), NEW r \in Row, NEW start \in Nat, start <= r.at,
         RowsTimely(rows, start, r.at),
         r.table = "step_dwells" => /\ start <= r.from /\ r.from < r.at
                                    /\ LaneUntil(rows, r.lane, r.from),
         r.table = "state_durations" => SpansUntil(rows, r.from)
  PROVE  /\ RowsTimely(Append(rows, r), start, r.at)
         /\ \A b \in Nat : SpansFrom(rows, b) /\ (r.table = "state_durations" => b <= r.from)
                             => SpansFrom(Append(rows, r), b)
         /\ \A l \in Lanes, b \in Nat : LaneUntil(rows, l, b) /\ ~IsDwell(r, l)
                                          => LaneUntil(Append(rows, r), l, b)
         /\ \A b \in Nat : SpansUntil(rows, b) /\ r.table # "state_durations"
                             => SpansUntil(Append(rows, r), b)
<1> DEFINE new == Append(rows, r)
           m == Len(rows) + 1
<1>1. /\ \A k \in DOMAIN new : k \in DOMAIN rows \/ k = m
      /\ \A k \in DOMAIN rows : k \in DOMAIN new /\ new[k] = rows[k] /\ k \in Nat /\ k < m
      /\ new[m] = r /\ m \in Nat
  <2>1. Len(rows) \in Nat
    BY LenProperties
  <2> QED
    BY <2>1, RowAppended
<1>2. \A k \in DOMAIN rows : rows[k].at \in Nat /\ rows[k].from \in Nat
  BY RowTimes, ElementOfSeq, LenProperties
<1>3. r.at \in Nat /\ r.from \in Nat
  BY RowTimes
<1> HIDE DEF new, m
<1>4. ASSUME NEW k \in DOMAIN new
      PROVE  /\ start <= new[k].at /\ new[k].at <= r.at
             /\ new[k].table = "step_dwells" => start <= new[k].from /\ new[k].from < new[k].at
  BY <1>1, <1>3, <1>4 DEF RowsTimely
<1>5. ASSUME NEW j \in DOMAIN new, NEW k \in DOMAIN new, j < k
      PROVE  /\ new[j].at <= new[k].at
             /\ OneTrack(new[j], new[k]) => new[j].at <= new[k].from
  <2>1. j \in DOMAIN rows /\ new[j] = rows[j]
    BY <1>1, <1>5
  <2>2. CASE k \in DOMAIN rows
    BY <1>1, <1>5, <2>1, <2>2 DEF RowsTimely
  <2>3. CASE k = m
    <3>1. new[k] = r /\ new[j].at <= r.at
      BY <1>1, <2>1, <2>3 DEF RowsTimely
    <3>2. ASSUME OneTrack(rows[j], r) PROVE rows[j].at <= r.from
      BY <2>1, <3>2 DEF OneTrack, IsDwell, LaneUntil, SpansUntil
    <3> QED
      BY <2>1, <3>1, <3>2
  <2> QED
    BY <1>1, <2>2, <2>3
<1>6. RowsTimely(new, start, r.at)
  BY <1>4, <1>5 DEF RowsTimely
<1>7. ASSUME NEW b \in Nat, SpansFrom(rows, b), r.table = "state_durations" => b <= r.from
      PROVE  SpansFrom(new, b)
  BY <1>1, <1>7 DEF SpansFrom
<1>8. ASSUME NEW l \in Lanes, NEW b \in Nat, LaneUntil(rows, l, b), ~IsDwell(r, l)
      PROVE  LaneUntil(new, l, b)
  BY <1>1, <1>8 DEF LaneUntil
<1>9. ASSUME NEW b \in Nat, SpansUntil(rows, b), r.table # "state_durations"
      PROVE  SpansUntil(new, b)
  BY <1>1, <1>9 DEF SpansUntil
<1> QED
  BY <1>6, <1>7, <1>8, <1>9 DEF new

(* Less open than before, and the same rows. *)
LEMMA ShrunkTimely ==
  ASSUME NEW P, NEW t, NEW u, NEW at, OpenTimely(P, t, at), t.cur = Nil <=> u.cur = Nil,
         t.cur # Nil => u.cur.rows = t.cur.rows /\ u.cur.start = t.cur.start,
         \A l \in Lanes : u.dwell[l] = Nil \/ u.dwell[l] = t.dwell[l],
         u.span = Nil \/ u.span = t.span
  PROVE  OpenTimely(P, u, at)
BY DEF OpenTimely

(* One row more: a dwell that was open, a span that was, or a moment.      *)
LEMMA GrownTimely ==
  ASSUME NEW P \in SUBSET Interval, NEW t \in TrackerValue, t.cur # Nil, NEW at \in Nat,
         OpenTimely(P, t, at), NEW r \in Row, r.at = at,
         NEW u, u.cur # Nil, u.cur.rows = Append(t.cur.rows, r), u.cur.start = t.cur.start,
         \A l \in Lanes : u.dwell[l] = Nil \/ u.dwell[l] = t.dwell[l],
         u.span = Nil \/ u.span = t.span,
         r.table = "step_dwells" =>
           /\ r.lane \in Lanes /\ t.dwell[r.lane] # Nil /\ u.dwell[r.lane] = Nil
           /\ r.from = t.dwell[r.lane].start /\ r.from < at,
         r.table = "state_durations" =>
           t.span # Nil /\ r.from = t.span.entered /\ u.span = Nil
  PROVE  OpenTimely(P, u, at)
<1> DEFINE rows == t.cur.rows
           start == t.cur.start
<1>1. rows \in Seq(Row) /\ start \in Nat
  BY RowsOfOpen, IntervalFields
<1>2. start <= at /\ RowsTimely(rows, start, at)
  BY DEF OpenTimely
<1>3. r.table = "step_dwells" => start <= r.from /\ r.from < r.at /\ LaneUntil(rows, r.lane, r.from)
  BY DEF OpenTimely
<1>4. r.table = "state_durations" => SpansUntil(rows, r.from) /\ \A v \in P : v.end <= r.from
  BY DEF OpenTimely
<1>5. \A v \in P : v.end \in Nat /\ v.end <= start /\ SpansFrom(rows, v.end)
  BY IntervalFields DEF OpenTimely
<1> HIDE DEF rows, start
<1>6. /\ RowsTimely(Append(rows, r), start, r.at)
      /\ \A b \in Nat : SpansFrom(rows, b) /\ (r.table = "state_durations" => b <= r.from)
                          => SpansFrom(Append(rows, r), b)
      /\ \A l \in Lanes, b \in Nat : LaneUntil(rows, l, b) /\ ~IsDwell(r, l)
                                       => LaneUntil(Append(rows, r), l, b)
      /\ \A b \in Nat : SpansUntil(rows, b) /\ r.table # "state_durations"
                          => SpansUntil(Append(rows, r), b)
  BY <1>1, <1>2, <1>3, <1>4, TimelyAppend
<1>7. u.cur.rows = Append(rows, r) /\ u.cur.start = start
  BY DEF rows, start
<1>8. \A v \in P : v.end <= start /\ SpansFrom(u.cur.rows, v.end)
  BY <1>4, <1>5, <1>6, <1>7
<1>9. ASSUME u.span # Nil PROVE SpansUntil(u.cur.rows, u.span.entered)
  <2>1. u.span = t.span /\ t.span # Nil /\ u.span.entered \in Nat /\ r.table # "state_durations"
    BY <1>9, TrackerFields DEF Span
  <2>2. SpansUntil(rows, u.span.entered)
    BY <2>1 DEF OpenTimely, rows
  <2> QED
    BY <1>6, <1>7, <2>1, <2>2
<1>10. ASSUME NEW l \in Lanes, u.dwell[l] # Nil
       PROVE  /\ start <= u.dwell[l].start /\ u.dwell[l].start <= at
              /\ LaneUntil(u.cur.rows, l, u.dwell[l].start)
  <2>1. u.dwell[l] = t.dwell[l] /\ t.dwell[l] # Nil /\ u.dwell[l].start \in Nat
    BY <1>10, SeqTypes
  <2>2. ~IsDwell(r, l)
    BY <1>10 DEF IsDwell
  <2>3. /\ start <= u.dwell[l].start /\ u.dwell[l].start <= at
        /\ LaneUntil(rows, l, u.dwell[l].start)
    BY <2>1 DEF OpenTimely, rows, start
  <2> QED
    BY <1>6, <1>7, <2>1, <2>2, <2>3
<1>11. u.span # Nil => u.span.entered <= at /\ \A v \in P : v.end <= u.span.entered
  BY DEF OpenTimely
<1> QED
  BY <1>2, <1>6, <1>7, <1>8, <1>9, <1>10, <1>11 DEF OpenTimely

LEMMA CloseDwellTimely ==
  ASSUME NEW P \in SUBSET Interval, NEW t \in TrackerValue, t.cur # Nil, NEW at \in Nat,
         OpenTimely(P, t, at), NEW lane \in Lanes
  PROVE  OpenTimely(P, CloseDwell(t, lane, at), at)
<1> DEFINE u == CloseDwell(t, lane, at)
           row == DwellRowOf(t, lane, at)
<1>1. /\ u \in TrackerValue /\ u.cur # Nil /\ u.cur.start = t.cur.start /\ u.span = t.span
      /\ u.dwell = [t.dwell EXCEPT ![lane] = Nil]
  BY CloseDwellFrame DEF Same
<1>2. \/ u.cur.rows = t.cur.rows
      \/ /\ t.dwell[lane] # Nil /\ at > t.dwell[lane].start
         /\ row \in Row /\ u.cur.rows = Append(t.cur.rows, row)
  BY CloseDwellShape
<1>3. u.dwell[lane] = Nil /\ \A l \in Lanes : u.dwell[l] = Nil \/ u.dwell[l] = t.dwell[l]
  BY <1>1 DEF TrackerValue
<1>4. /\ row.table = "step_dwells" /\ row.lane = lane /\ row.at = at
      /\ row.from = t.dwell[lane].start
  BY DEF DwellRowOf, DwellRow
<1> SUFFICES OpenTimely(P, u, at)
  OBVIOUS
<1> HIDE DEF u, row
<1>5. CASE u.cur.rows = t.cur.rows
  BY <1>1, <1>3, <1>5, ShrunkTimely
<1>6. CASE t.dwell[lane] # Nil /\ at > t.dwell[lane].start /\ row \in Row
           /\ u.cur.rows = Append(t.cur.rows, row)
  <2>1. row.from < at
    BY <1>4, <1>6, SeqTypes
  <2>2. row.table # "state_durations"
    BY <1>4
  <2> QED
    BY <1>1, <1>3, <1>4, <1>6, <2>1, <2>2, GrownTimely
<1> QED
  BY <1>2, <1>5, <1>6

LEMMA CloseStateSpanTimely ==
  ASSUME NEW P \in SUBSET Interval, NEW t \in TrackerValue, t.cur # Nil, NEW at \in Nat,
         OpenTimely(P, t, at)
  PROVE  OpenTimely(P, CloseStateSpanAt(t, at), at)
<1> DEFINE u == CloseStateSpanAt(t, at)
           row == SpanRow(t.span, at)
<1>1. /\ u \in TrackerValue /\ u.cur # Nil /\ u.cur.start = t.cur.start /\ u.dwell = t.dwell
      /\ \/ u.cur = t.cur /\ u.span = t.span
         \/ /\ t.span # Nil /\ u.span = Nil
            /\ row \in Row /\ u.cur.rows = Append(t.cur.rows, row)
  BY CloseStateSpanShape DEF Same
<1>2. row.table = "state_durations" /\ row.at = at /\ row.from = t.span.entered
  BY DEF SpanRow
<1> SUFFICES OpenTimely(P, u, at)
  OBVIOUS
<1> HIDE DEF u, row
<1>3. CASE u.cur = t.cur /\ u.span = t.span
  BY <1>1, <1>3, ShrunkTimely
<1>4. CASE t.span # Nil /\ u.span = Nil /\ row \in Row /\ u.cur.rows = Append(t.cur.rows, row)
  <2>1. row.table # "step_dwells"
    BY <1>2
  <2> QED
    BY <1>1, <1>2, <1>4, <2>1, GrownTimely
<1> QED
  BY <1>1, <1>3, <1>4

LEMMA EmptiedTimely ==
  ASSUME NEW P \in SUBSET Interval, NEW t \in TrackerValue, t.cur # Nil, NEW at \in Nat,
         OpenTimely(P, t, at)
  PROVE  OpenTimely(P, Emptied(t, at), at)
<1> DEFINE c == CloseDwell(t, "crusher", at)
           m == CloseDwell(c, "main", at)
           u == CloseDwell(m, "tilter", at)
<1>1. "crusher" \in Lanes /\ "main" \in Lanes /\ "tilter" \in Lanes
  BY DEF Lanes
<1>2. c \in TrackerValue /\ c.cur # Nil /\ OpenTimely(P, c, at)
  BY <1>1, CloseDwellFrame, CloseDwellTimely
<1> HIDE DEF c
<1>3. m \in TrackerValue /\ m.cur # Nil /\ OpenTimely(P, m, at)
  BY <1>1, <1>2, CloseDwellFrame, CloseDwellTimely
<1> HIDE DEF m
<1>4. u \in TrackerValue /\ u.cur # Nil /\ OpenTimely(P, u, at)
  BY <1>1, <1>3, CloseDwellFrame, CloseDwellTimely
<1> HIDE DEF u
<1>5. OpenTimely(P, CloseStateSpanAt(u, at), at)
  BY <1>4, CloseStateSpanTimely
<1> QED
  BY <1>5 DEF Emptied, CloseOpenDwells, u, m, c

(* The interval that closes joins those that are over. *)
LEMMA PastGrows ==
  ASSUME NEW P \in SUBSET Interval, NEW t \in TrackerValue, t.cur # Nil, NEW at \in Nat,
         PastTimely(P, at), OpenTimely(P, t, at),
         NEW iv \in Interval, iv.start = t.cur.start, iv.end = at, iv.start < at,
         iv.rows = t.cur.rows
  PROVE  PastTimely(P \cup {iv}, at)
<1>1. iv.start \in Nat /\ \A v \in P : v.start \in Nat /\ v.end \in Nat /\ v.start < v.end
  BY IntervalFields DEF PastTimely
<1>2. /\ RowsTimely(iv.rows, iv.start, iv.end)
      /\ \A v \in P : v.end <= iv.start /\ SpansFrom(iv.rows, v.end)
  BY DEF OpenTimely
<1>3. ASSUME NEW v \in P \cup {iv}
      PROVE  v.start < v.end /\ v.end <= at /\ RowsTimely(v.rows, v.start, v.end)
  BY <1>2, <1>3 DEF PastTimely
<1>4. ASSUME NEW v \in P \cup {iv}, NEW w \in P \cup {iv}, v.end <= w.start
      PROVE  SpansFrom(w.rows, v.end)
  <2>1. v \in P
    <3> SUFFICES ASSUME v = iv PROVE FALSE
      BY <1>4
    <3>1. w.start < w.start
      <4>1. w.start < at
        <5>1. CASE w = iv
          BY <5>1
        <5>2. CASE w \in P
          BY <1>1, <1>2, <5>2
        <5> QED
          BY <1>4, <5>1, <5>2
      <4>2. w.start \in Nat
        BY <1>1, <1>4
      <4> QED
        BY <1>4, <4>1, <4>2
    <3>2. w.start \in Nat
      BY <1>1, <1>4
    <3> QED
      BY <3>1, <3>2
  <2>2. CASE w \in P
    BY <1>4, <2>1, <2>2 DEF PastTimely
  <2>3. CASE w = iv
    BY <1>2, <2>1, <2>3
  <2> QED
    BY <1>4, <2>2, <2>3
<1> QED
  BY <1>3, <1>4 DEF PastTimely

LEMMA TimelyTypes ==
  ASSUME NEW Q \in SUBSET Interval, NEW t \in TrackerValue
  PROVE  Q \cup Members(t.closed) \in SUBSET Interval
BY TrackerFields, MembersAreIntervals

LEMMA CloseIntervalTimely ==
  ASSUME NEW Q \in SUBSET Interval, NEW t \in TrackerValue, NEW at \in Nat, Timely(Q, t, at),
         NEW forced \in ForcedResults
  PROVE  Timely(Q, CloseInterval(t, at, forced), at)
<1> DEFINE u == CloseInterval(t, at, forced)
<1>1. CASE t.cur = Nil
  BY <1>1, CloseIntervalNothing
<1>2. CASE t.cur # Nil
  <2> DEFINE c == Emptied(t, at)
             P == Q \cup Members(t.closed)
  <2>1. P \in SUBSET Interval /\ PastTimely(P, at) /\ OpenTimely(P, t, at)
    BY TimelyTypes DEF Timely
  <2> HIDE DEF P
  <2>2. /\ c \in TrackerValue /\ c.cur # Nil /\ c.cur.start = t.cur.start
        /\ c.span # Nil => ~(at > c.span.entered)
        /\ OpenTimely(P, c, at)
    BY <1>2, <2>1, EmptiedShape, EmptiedTimely DEF Same
  <2>3. /\ u \in TrackerValue /\ u.cur = Nil /\ u.dwell = [l \in Lanes |-> Nil]
        /\ u.span = c.span
        /\ \/ u.closed = t.closed
           \/ \E iv \in Interval : u.closed = Append(t.closed, iv) /\ EmittedAs(t, at, forced, iv)
    BY <1>2, CloseIntervalShape
  <2>4. \A iv : EmittedAs(t, at, forced, iv) =>
          iv.start = c.cur.start /\ iv.end = at /\ iv.rows = c.cur.rows /\ at > iv.start
    BY <2>2 DEF EmittedAs
  <2>5. c.span # Nil => c.span.entered \in Nat /\ at <= c.span.entered /\ c.span.entered <= at
    <3>1. c.span # Nil => c.span.entered \in Nat
      BY <2>2, TrackerFields DEF Span
    <3> QED
      BY <2>2, <3>1 DEF OpenTimely
  <2>6. \A l \in Lanes : u.dwell[l] = Nil
    BY <2>3
  <2> SUFFICES Timely(Q, u, at)
    OBVIOUS
  <2> HIDE DEF u, c
  <2>7. CASE u.closed = t.closed
    <3>1. OpenTimely(P, u, at)
      BY <2>2, <2>3, <2>6 DEF OpenTimely
    <3> QED
      BY <2>1, <2>7, <3>1 DEF Timely, P
  <2>8. ASSUME NEW iv \in Interval, u.closed = Append(t.closed, iv), EmittedAs(t, at, forced, iv)
        PROVE  Timely(Q, u, at)
    <3>1. Q \cup Members(u.closed) = P \cup {iv}
      BY <2>8, TrackerFields, MembersOfAppend DEF P
    <3>2. iv.start = c.cur.start /\ iv.end = at /\ iv.rows = c.cur.rows /\ iv.start < at
      <4>1. iv.start \in Nat
        BY IntervalFields
      <4> QED
        BY <2>4, <2>8, <4>1
    <3>3. PastTimely(P \cup {iv}, at)
      BY <2>1, <2>2, <3>2, PastGrows
    <3>4. OpenTimely(P \cup {iv}, u, at)
      BY <2>2, <2>3, <2>5, <2>6, <3>2 DEF OpenTimely
    <3> QED
      BY <3>1, <3>3, <3>4 DEF Timely
  <2> QED
    BY <2>3, <2>7, <2>8
<1> QED
  BY <1>1, <1>2

LEMMA EnsureTimely ==
  ASSUME NEW Q \in SUBSET Interval, NEW t \in TrackerValue, NEW at \in Nat, Timely(Q, t, at),
         NEW key \in KeysOrNone, NEW state
  PROVE  Timely(Q, EnsureInterval(t, key, state, at), at)
<1> DEFINE u == EnsureInterval(t, key, state, at)
           want == ResultForState(state)
<1>1. CASE u = t
  BY <1>1
<1>2. ASSUME NEW forced \in ForcedResults,
             u = OpenInterval(CloseInterval(t, at, forced), key, want, at)
      PROVE  Timely(Q, u, at)
  <2> DEFINE c == CloseInterval(t, at, forced)
             P == Q \cup Members(c.closed)
  <2>1. c \in TrackerValue /\ c.cur = Nil /\ Timely(Q, c, at)
    BY CloseIntervalFollows, CloseIntervalTimely
  <2>2. want \in SynthResults
    BY ResultForStateType
  <2> HIDE DEF c, want
  <2>3. LET v == OpenInterval(c, key, want, at)
        IN  /\ v.closed = c.closed /\ v.dwell = c.dwell /\ v.span = c.span /\ v.cur # Nil
            /\ v.cur.rows = <<>> /\ v.cur.start = at
    BY <2>1, <2>2, OpenIntervalFields
  <2>4. /\ u.closed = c.closed /\ u.dwell = c.dwell /\ u.span = c.span /\ u.cur # Nil
        /\ u.cur.rows = <<>> /\ u.cur.start = at
    BY <1>2, <2>3 DEF c
  <2> HIDE DEF u
  <2>5. DOMAIN u.cur.rows = {}
    BY <2>4
  <2>6. PastTimely(P, at) /\ OpenTimely(P, c, at)
    BY <2>1 DEF Timely
  <2> HIDE DEF P
  <2>7. /\ RowsTimely(u.cur.rows, at, at) /\ \A b : SpansFrom(u.cur.rows, b)
        /\ \A b : SpansUntil(u.cur.rows, b)
    BY <2>5 DEF RowsTimely, SpansFrom, SpansUntil
  <2>8. OpenTimely(P, u, at)
    BY <2>1, <2>4, <2>6, <2>7 DEF OpenTimely, PastTimely
  <2> QED
    BY <2>4, <2>6, <2>8 DEF Timely, P
<1> QED
  BY <1>1, <1>2, EnsureShape

(* Time passes. *)
LEMMA TimelyLater ==
  ASSUME NEW Q \in SUBSET Interval, NEW t \in TrackerValue, NEW now \in Nat, NEW at \in Nat,
         now <= at, Timely(Q, t, now)
  PROVE  Timely(Q, t, at)
<1> DEFINE P == Q \cup Members(t.closed)
<1>1. P \in SUBSET Interval /\ PastTimely(P, now) /\ OpenTimely(P, t, now)
  BY TimelyTypes DEF Timely
<1> HIDE DEF P
<1>2. PastTimely(P, at)
  <2>1. \A v \in P : v.end \in Nat
    BY <1>1, IntervalFields
  <2> QED
    BY <1>1, <2>1 DEF PastTimely
<1>3. t.span # Nil => t.span.entered \in Nat /\ t.span.entered <= at
  <2>1. t.span # Nil => t.span.entered \in Nat
    BY TrackerFields DEF Span
  <2> QED
    BY <1>1, <2>1 DEF OpenTimely
<1>4. \A l \in Lanes : t.cur # Nil /\ t.dwell[l] # Nil => t.dwell[l].start <= at
  <2>1. \A l \in Lanes : t.dwell[l] # Nil => t.dwell[l].start \in Nat
    BY SeqTypes
  <2> QED
    BY <1>1, <2>1 DEF OpenTimely
<1>5. t.cur # Nil => t.cur.start <= at /\ RowsTimely(t.cur.rows, t.cur.start, at)
  <2> SUFFICES ASSUME t.cur # Nil PROVE t.cur.start <= at /\ RowsTimely(t.cur.rows, t.cur.start, at)
    OBVIOUS
  <2>1. t.cur.start \in Nat /\ \A k \in DOMAIN t.cur.rows : t.cur.rows[k].at \in Nat
    BY RowsOfOpen, IntervalFields, RowTimes
  <2>2. t.cur.start <= now /\ RowsTimely(t.cur.rows, t.cur.start, now)
    BY <1>1 DEF OpenTimely
  <2>3. t.cur.start <= at
    BY <2>1, <2>2
  <2>4. \A k \in DOMAIN t.cur.rows : t.cur.rows[k].at <= at
    BY <2>1, <2>2 DEF RowsTimely
  <2> QED
    BY <2>2, <2>3, <2>4 DEF RowsTimely
<1>6. OpenTimely(P, t, at)
  BY <1>1, <1>3, <1>4, <1>5 DEF OpenTimely
<1> QED
  BY <1>2, <1>6 DEF Timely, P

(* Handlers. *)
LEMMA TimelyFrame ==
  ASSUME NEW Q, NEW t, NEW u, NEW at, Timely(Q, t, at), u.closed = t.closed,
         t.cur = Nil <=> u.cur = Nil,
         t.cur # Nil => u.cur.rows = t.cur.rows /\ u.cur.start = t.cur.start,
         u.dwell = t.dwell, u.span = t.span
  PROVE  Timely(Q, u, at)
BY ShrunkTimely DEF Timely

(* A row of a single moment changes nothing here. *)
LEMMA MomentTimely ==
  ASSUME NEW Q \in SUBSET Interval, NEW t \in TrackerValue, t.cur # Nil, NEW at \in Nat,
         Timely(Q, t, at), NEW r \in Row, r.at = at, r.table \notin {"step_dwells", "state_durations"},
         NEW u, u.cur # Nil, u.cur.rows = Append(t.cur.rows, r), u.cur.start = t.cur.start,
         u.dwell = t.dwell, u.span = t.span, u.closed = t.closed
  PROVE  Timely(Q, u, at)
<1> DEFINE P == Q \cup Members(t.closed)
<1>1. P \in SUBSET Interval /\ PastTimely(P, at) /\ OpenTimely(P, t, at)
  BY TimelyTypes DEF Timely
<1> HIDE DEF P
<1>2. OpenTimely(P, u, at)
  BY <1>1, GrownTimely
<1> QED
  BY <1>1, <1>2 DEF Timely, P

LEMMA TrackStateSpanTimely ==
  ASSUME NEW Q \in SUBSET Interval, NEW t \in TrackerValue, t.cur # Nil, NEW at \in Nat,
         Timely(Q, t, at), NEW e \in EventShape
  PROVE  Timely(Q, TrackStateSpan(t, e, at), at)
<1> DEFINE u == TrackStateSpan(t, e, at)
           c == CloseStateSpanAt(t, at)
           P == Q \cup Members(t.closed)
<1>1. P \in SUBSET Interval /\ PastTimely(P, at) /\ OpenTimely(P, t, at)
  BY TimelyTypes DEF Timely
<1> HIDE DEF P
<1>2. c \in TrackerValue /\ c.cur # Nil /\ c.closed = t.closed /\ OpenTimely(P, c, at)
  BY <1>1, CloseStateSpanShape, CloseStateSpanTimely DEF Same
<1>3. /\ u \in TrackerValue /\ u.cur # Nil
      /\ u = t \/ (/\ u.cur = c.cur /\ u.dwell = c.dwell /\ u.closed = c.closed
                   /\ u.span = [state |-> e.state, entered |-> at])
  BY TrackStateSpanShape
<1> SUFFICES ASSUME u # t PROVE Timely(Q, u, at)
  OBVIOUS
<1> HIDE DEF u, c
<1>4. u.cur = c.cur /\ u.dwell = c.dwell /\ u.closed = t.closed /\ u.span # Nil /\ u.span.entered = at
  <2>1. [state |-> e.state, entered |-> at] \in Span
    BY DEF Span, EventShape
  <2> QED
    BY <1>2, <1>3, <2>1, NilIsNothing
<1>5. SpansUntil(u.cur.rows, at)
  BY <1>2, <1>4 DEF OpenTimely, RowsTimely, SpansUntil
<1>6. \A v \in P : v.end <= at
  BY <1>1 DEF PastTimely
<1>7. OpenTimely(P, u, at)
  BY <1>2, <1>4, <1>5, <1>6 DEF OpenTimely
<1> QED
  BY <1>1, <1>4, <1>7 DEF Timely, P

LEMMA TrackDwellTimely ==
  ASSUME NEW Q \in SUBSET Interval, NEW t \in TrackerValue, t.cur # Nil, NEW at \in Nat,
         Timely(Q, t, at), NEW e \in EventShape
  PROVE  Timely(Q, TrackDwell(t, e, at), at)
<1> DEFINE u == TrackDwell(t, e, at)
           lane == LaneForState(e.state)
           P == Q \cup Members(t.closed)
<1>0. lane \in Lanes /\ u \in TrackerValue /\ (u = t \/ \E d \in Dwell : Tracked(t, u, lane, d, at))
  BY TrackDwellShape
<1>1. P \in SUBSET Interval /\ PastTimely(P, at) /\ OpenTimely(P, t, at)
  BY TimelyTypes DEF Timely
<1> HIDE DEF u, lane, P
<1> SUFFICES ASSUME NEW d \in Dwell, Tracked(t, u, lane, d, at) PROVE Timely(Q, u, at)
  BY <1>0 DEF u
<1> DEFINE c == CloseDwell(t, lane, at)
<1>2. /\ c \in TrackerValue /\ c.cur # Nil /\ OpenTimely(P, c, at)
      /\ c.dwell = [t.dwell EXCEPT ![lane] = Nil] /\ c.span = t.span
  BY <1>0, <1>1, CloseDwellFrame, CloseDwellTimely
<1> HIDE DEF c
<1>3. u.cur = c.cur /\ u.span = c.span /\ u.closed = t.closed /\ d.start = at
  BY <1>2 DEF c, Tracked
<1>4. \A l \in Lanes : /\ l = lane => u.dwell[l] = d
                       /\ l # lane => u.dwell[l] = c.dwell[l]
  BY <1>0, <1>2 DEF TrackerValue, Tracked
<1>5. LaneUntil(u.cur.rows, lane, at) /\ u.cur.start <= at
  BY <1>2, <1>3 DEF OpenTimely, RowsTimely, LaneUntil
<1>6. ASSUME NEW l \in Lanes, u.dwell[l] # Nil
      PROVE  /\ u.cur.start <= u.dwell[l].start /\ u.dwell[l].start <= at
             /\ LaneUntil(u.cur.rows, l, u.dwell[l].start)
  <2>1. CASE l = lane
    BY <1>3, <1>4, <1>5, <2>1
  <2>2. CASE l # lane
    BY <1>2, <1>3, <1>4, <1>6, <2>2 DEF OpenTimely
  <2> QED
    BY <2>1, <2>2
<1>7. OpenTimely(P, u, at)
  BY <1>2, <1>3, <1>6 DEF OpenTimely
<1> QED
  BY <1>1, <1>3, <1>7 DEF Timely, P

LEMMA OrderTimely ==
  ASSUME NEW Q \in SUBSET Interval, NEW t \in TrackerValue, NEW at \in Nat, Timely(Q, t, at),
         NEW o \in OrderShape
  PROVE  Timely(Q, ApplyOrder(t, o, at), at)
<1> DEFINE v == EnsureInterval(t, o.key, "AutoCycle", at)
           u == [v EXCEPT !.cur.recipe = TRUE]
<1>1. o.key \in KeysOrNone
  BY DEF OrderShape, KeysOrNone
<1>2. v \in TrackerValue /\ v.cur # Nil /\ Timely(Q, v, at)
  BY <1>1, EnsureSettled, EnsureTimely
<1> HIDE DEF v
<1>3. /\ u.cur # Nil /\ u.cur.rows = v.cur.rows /\ u.cur.start = v.cur.start
      /\ u.dwell = v.dwell /\ u.span = v.span /\ u.closed = v.closed
  BY <1>2, RecipeShape DEF Same
<1> HIDE DEF u
<1>4. Timely(Q, u, at)
  BY <1>2, <1>3, TimelyFrame
<1> QED
  BY <1>4 DEF ApplyOrder, u, v

LEMMA EventTimely ==
  ASSUME NEW Q \in SUBSET Interval, NEW t \in TrackerValue, NEW at \in Nat, Timely(Q, t, at),
         NEW e \in EventShape
  PROVE  Timely(Q, ApplyFSMEvent(t, e, at), at)
<1> DEFINE v == EnsureInterval(t, e.key, e.state, at)
           s == TrackStateSpan(v, e, at)
           d == IF UseStepRuns THEN s ELSE TrackDwell(s, e, at)
<1>1. e.key \in KeysOrNone
  BY DEF EventShape, KeysOrNone
<1>2. v \in TrackerValue /\ v.cur # Nil /\ Timely(Q, v, at)
  BY <1>1, EnsureSettled, EnsureTimely
<1> HIDE DEF v
<1>3. s \in TrackerValue /\ s.cur # Nil /\ Timely(Q, s, at)
  BY <1>2, TrackStateSpanShape, TrackStateSpanTimely
<1> HIDE DEF s
<1>4. d \in TrackerValue /\ Timely(Q, d, at)
  BY <1>3, TrackDwellShape, TrackDwellTimely
<1> HIDE DEF d
<1>5. Timely(Q, CloseInterval(d, at, "completed"), at)
  BY <1>4, CloseIntervalTimely, ForcedResultsType
<1> QED
  BY <1>4, <1>5 DEF ApplyFSMEvent, d, s, v

LEMMA FaultTimely ==
  ASSUME NEW Q \in SUBSET Interval, NEW t \in TrackerValue, NEW at \in Nat, Timely(Q, t, at),
         NEW f \in FaultShape, NEW id \in Nat
  PROVE  Timely(Q, ApplyFault(t, f, at, id), at)
<1> DEFINE v == EnsureInterval(t, f.key, f.state, at)
           n == RecordLedgerFault(v, f.type, at)
           main == n.dwell["main"]
           num == IF main = Nil THEN NoStep ELSE main.seq
           row == FaultRow(f.type, at, id, num)
           a == AddRow(n, row)
<1>1. f.key \in KeysOrNone /\ f.type \in STRING
  BY DEF FaultShape, KeysOrNone
<1>2. v \in TrackerValue /\ v.cur # Nil /\ Timely(Q, v, at)
  BY <1>1, EnsureSettled, EnsureTimely
<1> HIDE DEF v
<1>3. /\ n \in TrackerValue /\ n.cur # Nil /\ n.cur = v.cur
      /\ n.dwell = v.dwell /\ n.span = v.span /\ n.closed = v.closed
  BY <1>1, <1>2, LedgerShape
<1> HIDE DEF n
<1>4. Timely(Q, n, at)
  BY <1>2, <1>3, TimelyFrame
<1>5. num \in NatOrNull
  BY <1>3, SeqTypes DEF NatOrNull, Lanes
<1> HIDE DEF num
<1>6. row \in Row /\ row.at = at /\ row.table \notin {"step_dwells", "state_durations"}
  <2>1. row \in Row
    BY <1>1, <1>5, RowTypes
  <2> QED
    BY <2>1 DEF FaultRow
<1> HIDE DEF row
<1>7. /\ a \in TrackerValue /\ a.cur # Nil /\ a.cur.rows = Append(n.cur.rows, row)
      /\ a.cur.start = n.cur.start
      /\ a.dwell = n.dwell /\ a.span = n.span /\ a.closed = n.closed
  BY <1>3, <1>6, AddRowShape, AddRowSame DEF Same
<1> HIDE DEF a
<1>8. Timely(Q, a, at)
  BY <1>3, <1>4, <1>6, <1>7, MomentTimely
<1>9. Timely(Q, CloseInterval(a, at, FaultResult(f.type)), at)
  BY <1>7, <1>8, CloseIntervalTimely, ForcedResultsType
<1> QED
  BY <1>8, <1>9 DEF ApplyFault, a, row, num, main, n, v

LEMMA ToggleTimely ==
  ASSUME NEW Q \in SUBSET Interval, NEW t \in TrackerValue, NEW at \in Nat, Timely(Q, t, at),
         NEW s \in ToggleShape, NEW id \in Nat
  PROVE  Timely(Q, ApplySensorToggle(t, s, at, id), at)
<1> DEFINE v == EnsureInterval(t, s.key, s.state, at)
           d == ApplyDoorSignals(v, s, at, id)
           row == ToggleRow(s.input, at, id)
           door == DoorRow(v.door, at, id)
           u == AddRow(d, row)
<1>1. s.key \in KeysOrNone /\ s.input \in STRING
  BY DEF ToggleShape, KeysOrNone
<1>2. v \in TrackerValue /\ v.cur # Nil /\ Timely(Q, v, at)
  BY <1>1, EnsureSettled, EnsureTimely
<1> HIDE DEF v
<1>3. /\ d \in TrackerValue /\ d.cur # Nil /\ d.cur.start = v.cur.start
      /\ d.dwell = v.dwell /\ d.span = v.span /\ d.closed = v.closed
      /\ d.cur = v.cur \/ (door \in Row /\ d.cur.rows = Append(v.cur.rows, door))
  <2>1. d \in TrackerValue /\ DoorStep(v, d, s, at, id) /\ Same(v, d)
    BY <1>2, DoorSignalsShape, DoorSignalsSame
  <2> HIDE DEF d
  <2> QED
    BY <1>2, <2>1 DEF DoorStep, Same
<1>4. /\ door.at = at /\ door.table \notin {"step_dwells", "state_durations"}
      /\ row.at = at /\ row.table \notin {"step_dwells", "state_durations"}
  BY DEF DoorRow, ToggleRow
<1> HIDE DEF d, door
<1>5. Timely(Q, d, at)
  BY <1>2, <1>3, <1>4, MomentTimely, TimelyFrame
<1>6. row \in Row
  <2>1. 0 \in NatOrNull
    BY DEF NatOrNull
  <2> QED
    BY <1>1, <2>1, RowTypes
<1> HIDE DEF row
<1>7. /\ u.cur # Nil /\ u.cur.rows = Append(d.cur.rows, row) /\ u.cur.start = d.cur.start
      /\ u.dwell = d.dwell /\ u.span = d.span /\ u.closed = d.closed
  BY <1>3, <1>6, AddRowShape, AddRowSame DEF Same
<1> HIDE DEF u
<1>8. Timely(Q, u, at)
  BY <1>3, <1>4, <1>5, <1>6, <1>7, MomentTimely
<1> QED
  BY <1>8 DEF ApplySensorToggle, u, row, d, v

LEMMA ConfigTimely ==
  ASSUME NEW Q \in SUBSET Interval, NEW t \in TrackerValue, NEW at \in Nat, Timely(Q, t, at),
         NEW k \in STRING, NEW id \in Nat
  PROVE  Timely(Q, ApplyConfigChange(t, k, at, id), at)
<1> DEFINE state == IF t.cur # Nil /\ ~t.cur.prod THEN t.cur.result ELSE ""
           v == EnsureInterval(t, NoKey, state, at)
           row == ConfigRow(k, at, id)
           u == AddRow(v, row)
<1> HIDE DEF state
<1>1. NoKey \in KeysOrNone
  BY DEF KeysOrNone
<1>2. v \in TrackerValue /\ v.cur # Nil /\ Timely(Q, v, at)
  BY <1>1, EnsureSettled, EnsureTimely
<1> HIDE DEF v
<1>3. row \in Row /\ row.at = at /\ row.table \notin {"step_dwells", "state_durations"}
  <2>1. 0 \in NatOrNull
    BY DEF NatOrNull
  <2>2. row \in Row
    BY <2>1, RowTypes
  <2> QED
    BY <2>2 DEF ConfigRow
<1> HIDE DEF row
<1>4. /\ u.cur # Nil /\ u.cur.rows = Append(v.cur.rows, row) /\ u.cur.start = v.cur.start
      /\ u.dwell = v.dwell /\ u.span = v.span /\ u.closed = v.closed
  BY <1>2, <1>3, AddRowShape, AddRowSame DEF Same
<1> HIDE DEF u
<1>5. Timely(Q, u, at)
  BY <1>2, <1>3, <1>4, MomentTimely
<1> QED
  BY <1>5 DEF ApplyConfigChange, u, row, v, state

LEMMA FlushTimely ==
  ASSUME NEW Q \in SUBSET Interval, NEW t \in TrackerValue, NEW now \in Nat, Timely(Q, t, now)
  PROVE  Timely(Q, FlushOpen(t, now), now + 1)
<1>1. CASE t.cur = Nil
  BY <1>1, TimelyLater DEF FlushOpen
<1>2. CASE t.cur # Nil
  <2> DEFINE end == IF now <= t.cur.start THEN t.cur.start + 1 ELSE now
             forced == IF t.cur.prod THEN "aborted" ELSE t.cur.result
             u == CloseInterval(t, end, forced)
  <2>1. t.cur.start \in Nat /\ t.cur.start <= now
    BY <1>2, TrackerFields, IntervalFields DEF Timely, OpenTimely
  <2>2. end \in Nat /\ now <= end /\ end <= now + 1
    BY <2>1
  <2>3. forced \in ForcedResults
    BY <1>2, ForcedResultsType
  <2>4. FlushOpen(t, now) = u
    BY <1>2 DEF FlushOpen
  <2> HIDE DEF end, forced
  <2>5. Timely(Q, t, end)
    BY <2>2, TimelyLater
  <2>6. u \in TrackerValue /\ Timely(Q, u, end)
    BY <2>2, <2>3, <2>5, CloseIntervalQueue, CloseIntervalTimely
  <2> HIDE DEF u
  <2>7. Timely(Q, u, now + 1)
    BY <2>2, <2>6, TimelyLater
  <2> QED
    BY <2>4, <2>7
<1> QED
  BY <1>1, <1>2

TimelyInv == Inv /\ Timely(Members(out), trk, Now)

LEMMA TimelyInit == Init => TimelyInv
<1> SUFFICES ASSUME Init PROVE TimelyInv
  OBVIOUS
<1>1. /\ trk.cur = Nil /\ trk.closed = <<>> /\ out = <<>> /\ trk.span = Nil
      /\ \A l \in Lanes : trk.dwell[l] = Nil
  BY DEF Init, NewTracker
<1>2. Members(trk.closed) = {} /\ Members(out) = {}
  BY <1>1 DEF Members
<1> QED
  BY <1>1, <1>2, InvInit DEF TimelyInv, Timely, PastTimely, OpenTimely

LEMMA TimelyStep ==
  ASSUME TimelineInOrder, TimelyInv, TypeOK', Inv', [Next]_vars
  PROVE  TimelyInv'
<1>1. /\ trk \in TrackerValue /\ latest \in Nat /\ NextId \in Nat /\ Timely(Members(out), trk, Now)
      /\ Members(out) \in SUBSET Interval /\ Now \in Nat /\ Inv
  <2>1. TypeOK
    BY DEF TimelyInv, Inv
  <2> QED
    BY <2>1, NextIdType, MembersAreIntervals DEF TypeOK, TimelyInv, Now
<1>2. ASSUME NEW kind, NEW row, NEW at \in Nat, ~stopped, Fed(kind, row, at),
             Timely(Members(out), trk', at)
      PROVE  TimelyInv'
  BY <1>2 DEF TimelyInv, Fed, Now
<1>3. ASSUME NEW kind, NEW at \in Nat, Arrives(kind, at)
      PROVE  ~stopped /\ Timely(Members(out), trk, at)
  <2>1. ~stopped /\ latest <= at
    BY <1>1, <1>3, ArrivesLater
  <2> QED
    BY <1>1, <2>1, TimelyLater DEF Now
<1>4. ASSUME NEW at \in 0 .. MaxTime, NEW o \in Orders, OrderArrives(o, at) PROVE TimelyInv'
  <2>1. o \in OrderShape /\ at \in Nat
    BY SourceShapes DEF SourceShapes
  <2>2. ~stopped /\ Timely(Members(out), trk, at)
    BY <1>3, <1>4, <2>1 DEF OrderArrives
  <2>3. Timely(Members(out), trk', at)
    BY <1>1, <1>4, <2>1, <2>2, OrderTimely DEF OrderArrives
  <2> QED
    BY <1>2, <1>4, <2>1, <2>2, <2>3 DEF OrderArrives
<1>5. ASSUME NEW at \in 0 .. MaxTime, NEW e \in Events, EventArrives(e, at) PROVE TimelyInv'
  <2>1. e \in EventShape /\ at \in Nat
    BY SourceShapes DEF SourceShapes
  <2>2. ~stopped /\ Timely(Members(out), trk, at)
    BY <1>3, <1>5, <2>1 DEF EventArrives
  <2>3. Timely(Members(out), trk', at)
    BY <1>1, <1>5, <2>1, <2>2, EventTimely DEF EventArrives
  <2> QED
    BY <1>2, <1>5, <2>1, <2>2, <2>3 DEF EventArrives
<1>6. ASSUME NEW at \in 0 .. MaxTime, NEW f \in Faults, FaultArrives(f, at) PROVE TimelyInv'
  <2>1. f \in FaultShape /\ at \in Nat
    BY SourceShapes DEF SourceShapes
  <2>2. ~stopped /\ Timely(Members(out), trk, at)
    BY <1>3, <1>6, <2>1 DEF FaultArrives
  <2>3. Timely(Members(out), trk', at)
    BY <1>1, <1>6, <2>1, <2>2, FaultTimely DEF FaultArrives
  <2> QED
    BY <1>2, <1>6, <2>1, <2>2, <2>3 DEF FaultArrives
<1>7. ASSUME NEW at \in 0 .. MaxTime, NEW s \in Toggles, ToggleArrives(s, at) PROVE TimelyInv'
  <2>1. s \in ToggleShape /\ at \in Nat
    BY SourceShapes DEF SourceShapes
  <2>2. ~stopped /\ Timely(Members(out), trk, at)
    BY <1>3, <1>7, <2>1 DEF ToggleArrives
  <2>3. Timely(Members(out), trk', at)
    BY <1>1, <1>7, <2>1, <2>2, ToggleTimely DEF ToggleArrives
  <2> QED
    BY <1>2, <1>7, <2>1, <2>2, <2>3 DEF ToggleArrives
<1>8. ASSUME NEW k \in ConfigKeys, ConfigChanges(k) PROVE TimelyInv'
  <2>1. k \in STRING
    BY SourceShapes DEF SourceShapes
  <2>2. ~stopped
    BY <1>8 DEF ConfigChanges, Running
  <2>3. Timely(Members(out), trk', latest)
    BY <1>1, <1>8, <2>1, <2>2, ConfigTimely DEF ConfigChanges, Now
  <2> QED
    BY <1>1, <1>2, <1>8, <2>2, <2>3 DEF ConfigChanges
<1>9. CASE Take
  <2> DEFINE P == Members(out) \cup Members(trk.closed)
             R == Members(out') \cup Members(trk'.closed)
  <2>1. trk.closed \in Seq(Interval) /\ out \in Seq(Interval) /\ SortByEnd(trk.closed) \in Seq(Interval)
    BY <1>1, TrackerFields, SortByEndType DEF Inv, TypeOK
  <2>2. /\ trk'.closed = <<>> /\ trk'.cur = trk.cur /\ trk'.dwell = trk.dwell
        /\ trk'.span = trk.span /\ Now' = Now
    BY <1>1, <1>9 DEF Take, TakePending, TrackerValue, Now
  <2>3. R \subseteq P
    <3>1. Members(out') \subseteq P
      BY <1>9, <2>1, MembersOfConcat, SortByEndMembers DEF Take
    <3>2. Members(trk'.closed) = {}
      BY <2>2 DEF Members
    <3> QED
      BY <3>1, <3>2
  <2>4. PastTimely(P, Now) /\ OpenTimely(P, trk, Now)
    BY <1>1 DEF Timely
  <2> HIDE DEF P, R
  <2>5. PastTimely(R, Now) /\ OpenTimely(R, trk, Now)
    BY <2>3, <2>4 DEF PastTimely, OpenTimely
  <2>6. PastTimely(R, Now') /\ OpenTimely(R, trk', Now')
    BY <2>2, <2>5 DEF PastTimely, OpenTimely
  <2> QED
    BY <2>6 DEF TimelyInv, Timely, R
<1>10. CASE Shutdown
  <2>1. Timely(Members(out), trk', latest + 1)
    BY <1>1, <1>10, FlushTimely DEF Shutdown, Now
  <2>2. out' = out /\ Now' = latest + 1
    BY <1>10 DEF Shutdown, Now
  <2> QED
    BY <2>1, <2>2 DEF TimelyInv
<1>11. CASE UNCHANGED vars
  <2>1. out' = out /\ trk' = trk /\ Now' = Now
    BY <1>11 DEF vars, Now
  <2> QED
    BY <1>1, <2>1 DEF TimelyInv
<1>12. ~(\E sr \in StepRuns : TRUE)
  BY DEF TimelineInOrder
<1> QED
  BY <1>4, <1>5, <1>6, <1>7, <1>8, <1>9, <1>10, <1>11, <1>12 DEF Next

LEMMA TimelyInvariance ==
  ASSUME TimelineInOrder PROVE Spec => []TimelyInv
<1>1. TimelyInv /\ TypeOK' /\ Inv' /\ [Next]_vars => TimelyInv'
  BY TimelyStep
<1> QED
  BY <1>1, TimelyInit, Invariance, TypeCorrect, PTL DEF Spec

(* What the invariant says of two emitted intervals. *)
LEMMA DoneTimely ==
  ASSUME TimelyInv
  PROVE  /\ Done \in Seq(Interval)
         /\ \A i \in DOMAIN Done : RowsTimely(Done[i].rows, Done[i].start, Done[i].end)
         /\ \A i, j \in DOMAIN Done : i < j => /\ Done[i].end <= Done[j].start
                                              /\ SpansFrom(Done[j].rows, Done[i].end)
<1>1. trk.closed \in Seq(Interval) /\ out \in Seq(Interval)
  BY TrackerFields DEF TimelyInv, Inv, TypeOK
<1>2. Done \in Seq(Interval) /\ Members(Done) = Members(out) \cup Members(trk.closed)
  BY <1>1, MembersOfConcat, ConcatProperties DEF Done
<1>3. \A i \in DOMAIN Done : Done[i] \in Members(out) \cup Members(trk.closed)
  BY <1>2 DEF Members
<1>4. \A i, j \in DOMAIN Done : i < j => Done[i].end <= Done[j].start
  BY DEF TimelyInv, Inv, Chron, Ordered, Done
<1> QED
  BY <1>2, <1>3, <1>4 DEF TimelyInv, Timely, PastTimely

(* A child row lies inside its parent: stamped between its start and its   *)
(* end, and a dwell begins inside it too.                                  *)
THEOREM ChildrenInside ==
  ASSUME TimelineInOrder PROVE Spec => []RowsInside
<1>1. TimelyInv => RowsInside
  BY DoneTimely DEF RowsTimely, RowsInside
<1> QED
  BY <1>1, TimelyInvariance, PTL

LEMMA EmittedRow ==
  ASSUME NEW table, NEW p \in Emitted(table)
  PROVE  /\ p[1] \in DOMAIN Done /\ p[2] \in DOMAIN Done[p[1]].rows
         /\ RowAt(p).table = table /\ p = <<p[1], p[2]>>
         /\ RowAt(p) = Done[p[1]].rows[p[2]]
BY DEF Emitted, RowsOf, RowAt

LEMMA EmittedTypes ==
  ASSUME TimelyInv, NEW i \in DOMAIN Done, NEW k \in DOMAIN Done[i].rows
  PROVE  /\ i \in Nat /\ k \in Nat /\ Done[i].start \in Nat /\ Done[i].end \in Nat
         /\ Done[i].rows[k].at \in Nat /\ Done[i].rows[k].from \in Nat
<1>1. Done \in Seq(Interval)
  BY DoneTimely
<1>2. i \in Nat /\ Done[i] \in Interval
  BY <1>1, LenProperties, ElementOfSeq
<1> QED
  BY <1>2, IntervalFields, RowsOfInterval, RowTimes

(* The event_ts of a child table never moves backwards, within an interval *)
(* or from one to the next, though only the parents' is guarded.           *)
THEOREM ChildrenInOrder ==
  ASSUME TimelineInOrder PROVE Spec => []EventTsOrdered
<1>1. TimelyInv => EventTsOrdered
  <2> SUFFICES ASSUME TimelyInv, NEW table \in Tables, NEW p \in Emitted(table),
                      NEW q \in Emitted(table), Earlier(p, q)
               PROVE  RowAt(p).at <= RowAt(q).at
    BY DEF EventTsOrdered
  <2>1. /\ p[1] \in DOMAIN Done /\ p[2] \in DOMAIN Done[p[1]].rows /\ RowAt(p) = Done[p[1]].rows[p[2]]
        /\ q[1] \in DOMAIN Done /\ q[2] \in DOMAIN Done[q[1]].rows /\ RowAt(q) = Done[q[1]].rows[q[2]]
    BY EmittedRow
  <2>2. CASE p[1] < q[1]
    <3>1. RowAt(p).at <= Done[p[1]].end /\ Done[q[1]].start <= RowAt(q).at
      BY <2>1, DoneTimely DEF RowsTimely
    <3>2. Done[p[1]].end <= Done[q[1]].start
      BY <2>1, <2>2, DoneTimely
    <3>3. /\ Done[p[1]].end \in Nat /\ Done[q[1]].start \in Nat
          /\ RowAt(p).at \in Nat /\ RowAt(q).at \in Nat
      BY <2>1, EmittedTypes
    <3> QED
      BY <3>1, <3>2, <3>3
  <2>3. CASE p[1] = q[1] /\ p[2] < q[2]
    BY <2>1, <2>3, DoneTimely DEF RowsTimely
  <2> QED
    BY <2>2, <2>3 DEF Earlier
<1> QED
  BY <1>1, TimelyInvariance, PTL

(* Occupancy is counted once: no two state spans overlap, nor two dwells   *)
(* of a lane, in one interval or across several.                           *)
THEOREM OccupancyCountedOnce ==
  ASSUME TimelineInOrder PROVE Spec => []OccupancyDisjoint
<1>1. ASSUME TimelyInv, NEW table \in {"state_durations", "step_dwells"},
             NEW p \in Emitted(table), NEW q \in Emitted(table),
             table = "step_dwells" => RowAt(p).lane = RowAt(q).lane, Earlier(p, q)
      PROVE  RowAt(p).at <= RowAt(q).from
  <2>1. /\ p[1] \in DOMAIN Done /\ p[2] \in DOMAIN Done[p[1]].rows /\ RowAt(p) = Done[p[1]].rows[p[2]]
        /\ q[1] \in DOMAIN Done /\ q[2] \in DOMAIN Done[q[1]].rows /\ RowAt(q) = Done[q[1]].rows[q[2]]
        /\ RowAt(p).table = table /\ RowAt(q).table = table
    BY EmittedRow
  <2>2. CASE p[1] < q[1]
    <3>1. RowAt(p).at <= Done[p[1]].end
      BY <1>1, <2>1, DoneTimely DEF RowsTimely
    <3>2. Done[p[1]].end <= Done[q[1]].start /\ SpansFrom(Done[q[1]].rows, Done[p[1]].end)
      BY <1>1, <2>1, <2>2, DoneTimely
    <3>3. /\ Done[p[1]].end \in Nat /\ Done[q[1]].start \in Nat
          /\ RowAt(p).at \in Nat /\ RowAt(q).from \in Nat
      BY <1>1, <2>1, EmittedTypes
    <3>4. CASE table = "state_durations"
      <4>1. Done[p[1]].end <= RowAt(q).from
        BY <2>1, <3>2, <3>4 DEF SpansFrom
      <4> QED
        BY <3>1, <3>3, <4>1
    <3>5. CASE table = "step_dwells"
      <4>1. Done[q[1]].start <= RowAt(q).from
        BY <1>1, <2>1, <3>5, DoneTimely DEF RowsTimely
      <4> QED
        BY <3>1, <3>2, <3>3, <4>1
    <3> QED
      BY <3>4, <3>5
  <2>3. CASE p[1] = q[1] /\ p[2] < q[2]
    <3>1. OneTrack(RowAt(p), RowAt(q))
      BY <1>1, <2>1 DEF OneTrack
    <3> QED
      BY <1>1, <2>1, <2>3, <3>1, DoneTimely DEF RowsTimely
  <2> QED
    BY <1>1, <2>2, <2>3 DEF Earlier
<1>2. ASSUME TimelyInv, NEW table, NEW p \in Emitted(table), NEW q \in Emitted(table), p # q
      PROVE  Earlier(p, q) \/ Earlier(q, p)
  <2>1. /\ p[1] \in DOMAIN Done /\ p[2] \in DOMAIN Done[p[1]].rows /\ p = <<p[1], p[2]>>
        /\ q[1] \in DOMAIN Done /\ q[2] \in DOMAIN Done[q[1]].rows /\ q = <<q[1], q[2]>>
    BY EmittedRow
  <2>2. p[1] # q[1] \/ p[2] # q[2]
    BY <1>2, <2>1
  <2>3. p[1] \in Nat /\ p[2] \in Nat /\ q[1] \in Nat /\ q[2] \in Nat
    BY <1>2, <2>1, EmittedTypes
  <2> QED
    BY <2>2, <2>3 DEF Earlier
<1>3. TimelyInv => OccupancyDisjoint
  BY <1>1, <1>2 DEF OccupancyDisjoint, Apart
<1> QED
  BY <1>3, TimelyInvariance, PTL

-----------------------------------------------------------------------------
(* Rows and results.  Closing dwells and spans adds rows of those tables   *)
(* only, so it neither adds nor loses a fault, a toggle, a config change   *)
(* or a door episode.                                                      *)

TimeTables == {"step_dwells", "state_durations"}

Quiet(rows, new) ==
  /\ \A k \in DOMAIN rows : k \in DOMAIN new /\ new[k] = rows[k]
  /\ \A k \in DOMAIN new : k \in DOMAIN rows \/ new[k].table \in TimeTables

LEMMA QuietAppend ==
  ASSUME NEW rows \in Seq(Row), NEW r \in Row, r.table \in TimeTables
  PROVE  Quiet(rows, Append(rows, r))
BY RowAppended DEF Quiet

LEMMA QuietTrans ==
  ASSUME NEW p, NEW q, NEW r, Quiet(p, q), Quiet(q, r)
  PROVE  Quiet(p, r)
BY DEF Quiet

Calm(t, u) ==
  /\ u \in TrackerValue /\ u.cur # Nil /\ Same(t, u)
  /\ Quiet(t.cur.rows, u.cur.rows) /\ u.door = t.door

LEMMA CalmTrans ==
  ASSUME NEW t, NEW u, NEW w, Calm(t, u), Calm(u, w)
  PROVE  Calm(t, w)
<1>1. Same(t, w)
  BY SameTrans DEF Calm
<1>2. Quiet(t.cur.rows, w.cur.rows)
  BY QuietTrans DEF Calm
<1> QED
  BY <1>1, <1>2 DEF Calm

LEMMA CalmStill ==
  ASSUME NEW t \in TrackerValue, t.cur # Nil
  PROVE  Calm(t, t)
BY DEF Calm, Quiet, Same

LEMMA CloseDwellCalm ==
  ASSUME NEW t \in TrackerValue, t.cur # Nil, NEW lane \in Lanes, NEW at \in Nat
  PROVE  Calm(t, CloseDwell(t, lane, at))
<1> DEFINE u == CloseDwell(t, lane, at)
           row == DwellRowOf(t, lane, at)
<1>1. u \in TrackerValue /\ Same(t, u) /\ u.cur # Nil /\ u.door = t.door
  BY CloseDwellFrame
<1>2. u.cur.rows = t.cur.rows \/ (row \in Row /\ u.cur.rows = Append(t.cur.rows, row))
  BY CloseDwellShape
<1>3. row.table \in TimeTables
  BY DEF DwellRowOf, DwellRow, TimeTables
<1> HIDE DEF u, row
<1>4. Quiet(t.cur.rows, u.cur.rows)
  <2>1. CASE u.cur.rows = t.cur.rows
    BY <2>1 DEF Quiet
  <2>2. CASE row \in Row /\ u.cur.rows = Append(t.cur.rows, row)
    BY <1>3, <2>2, RowsOfOpen, QuietAppend
  <2> QED
    BY <1>2, <2>1, <2>2
<1> QED
  BY <1>1, <1>4 DEF Calm, u

LEMMA CloseStateSpanCalm ==
  ASSUME NEW t \in TrackerValue, t.cur # Nil, NEW at \in Nat
  PROVE  Calm(t, CloseStateSpanAt(t, at))
<1> DEFINE u == CloseStateSpanAt(t, at)
           row == SpanRow(t.span, at)
<1>1. /\ u \in TrackerValue /\ Same(t, u) /\ u.cur # Nil /\ u.door = t.door
      /\ u.cur = t.cur \/ (row \in Row /\ u.cur.rows = Append(t.cur.rows, row))
  BY CloseStateSpanShape DEF Same
<1>2. row.table \in TimeTables
  BY DEF SpanRow, TimeTables
<1> HIDE DEF u, row
<1>3. Quiet(t.cur.rows, u.cur.rows)
  <2>1. CASE u.cur = t.cur
    BY <2>1 DEF Quiet
  <2>2. CASE row \in Row /\ u.cur.rows = Append(t.cur.rows, row)
    BY <1>2, <2>2, RowsOfOpen, QuietAppend
  <2> QED
    BY <1>1, <2>1, <2>2
<1> QED
  BY <1>1, <1>3 DEF Calm, u

LEMMA EmptiedCalm ==
  ASSUME NEW t \in TrackerValue, t.cur # Nil, NEW at \in Nat
  PROVE  Calm(t, Emptied(t, at))
<1> DEFINE c == CloseDwell(t, "crusher", at)
           m == CloseDwell(c, "main", at)
           u == CloseDwell(m, "tilter", at)
           e == CloseStateSpanAt(u, at)
<1>1. "crusher" \in Lanes /\ "main" \in Lanes /\ "tilter" \in Lanes
  BY DEF Lanes
<1>2. c \in TrackerValue /\ c.cur # Nil /\ Calm(t, c)
  BY <1>1, CloseDwellFrame, CloseDwellCalm
<1> HIDE DEF c
<1>3. m \in TrackerValue /\ m.cur # Nil /\ Calm(c, m)
  BY <1>1, <1>2, CloseDwellFrame, CloseDwellCalm
<1> HIDE DEF m
<1>4. u \in TrackerValue /\ u.cur # Nil /\ Calm(m, u)
  BY <1>1, <1>3, CloseDwellFrame, CloseDwellCalm
<1> HIDE DEF u
<1>5. Calm(u, e)
  BY <1>4, CloseStateSpanCalm
<1> HIDE DEF e
<1>6. Calm(t, e)
  BY <1>2, <1>3, <1>4, <1>5, CalmTrans
<1> QED
  BY <1>6 DEF Emptied, CloseOpenDwells, e, u, m, c

LEMMA TrackStateSpanCalm ==
  ASSUME NEW t \in TrackerValue, t.cur # Nil, NEW e \in EventShape, NEW at \in Nat
  PROVE  Calm(t, TrackStateSpan(t, e, at))
<1> DEFINE u == TrackStateSpan(t, e, at)
           c == CloseStateSpanAt(t, at)
<1>1. Calm(t, c) /\ Calm(t, t) /\ Same(t, u)
  BY CloseStateSpanCalm, CalmStill, TrackStateSpanSame
<1>2. u \in TrackerValue /\ u.cur # Nil /\ (u = t \/ (u.cur = c.cur /\ u.door = c.door))
  BY TrackStateSpanShape
<1> HIDE DEF u, c
<1> QED
  BY <1>1, <1>2 DEF Calm, u

LEMMA TrackDwellCalm ==
  ASSUME NEW t \in TrackerValue, t.cur # Nil, NEW e \in EventShape, NEW at \in Nat
  PROVE  Calm(t, TrackDwell(t, e, at))
<1> DEFINE u == TrackDwell(t, e, at)
           lane == LaneForState(e.state)
           c == CloseDwell(t, lane, at)
<1>1. /\ lane \in Lanes /\ u \in TrackerValue /\ u.cur # Nil
      /\ u = t \/ \E d \in Dwell : Tracked(t, u, lane, d, at)
  BY TrackDwellShape
<1>2. Calm(t, c) /\ Calm(t, t) /\ Same(t, u)
  BY <1>1, CloseDwellCalm, CalmStill, TrackDwellSame
<1>3. \A d : Tracked(t, u, lane, d, at) => u.cur = c.cur /\ u.door = t.door
  BY DEF Tracked
<1> HIDE DEF u, c, lane
<1> QED
  BY <1>1, <1>2, <1>3 DEF Calm, u

(* The open interval is the one the row belongs to.                        *)
LEMMA EnsureFits ==
  ASSUME NEW t \in TrackerValue, NEW key \in KeysOrNone, NEW state, NEW at \in Nat
  PROVE  /\ EnsureInterval(t, key, state, at) \in TrackerValue
         /\ EnsureInterval(t, key, state, at).cur # Nil
         /\ key # NoKey => EnsureInterval(t, key, state, at).cur.key = key
         /\ key = NoKey => ~EnsureInterval(t, key, state, at).cur.prod
<1> DEFINE u == EnsureInterval(t, key, state, at)
           want == ResultForState(state)
<1>1. u \in TrackerValue /\ u.cur # Nil
  BY EnsureSettled
<1> SUFFICES (key # NoKey => u.cur.key = key) /\ (key = NoKey => ~u.cur.prod)
  BY <1>1
<1>2. ASSUME u = t, Fits(t, key, want)
      PROVE  (key # NoKey => u.cur.key = key) /\ (key = NoKey => ~u.cur.prod)
  BY <1>2 DEF Fits
<1>3. ASSUME NEW forced \in ForcedResults,
             u = OpenInterval(CloseInterval(t, at, forced), key, want, at)
      PROVE  (key # NoKey => u.cur.key = key) /\ (key = NoKey => ~u.cur.prod)
  <2> DEFINE c == CloseInterval(t, at, forced)
  <2>1. c \in TrackerValue /\ c.cur = Nil
    BY CloseIntervalQueue
  <2>2. want \in SynthResults
    BY ResultForStateType
  <2> HIDE DEF c, want
  <2>3. LET v == OpenInterval(c, key, want, at)
        IN  (v.cur.prod <=> key # NoKey) /\ (key # NoKey => v.cur.key = key)
    BY <2>1, <2>2, OpenIntervalFields
  <2> QED
    BY <1>3, <2>3 DEF c
<1> QED
  BY <1>2, <1>3, EnsureShape

-----------------------------------------------------------------------------
(* Evidence for the result of an interval, in the rows s handed over.      *)

Completing(r, key) ==
  /\ \/ r.kind = "event" /\ r.row.stepTo = AutoCycleCompleteStep
     \/ r.kind = "step_run" /\ r.row.step = AutoCycleCompleteStep
  /\ r.row.key = key /\ r.row.state = "AutoCycle"
Faulting(r, key, result) ==
  /\ \/ r.kind = "fault" /\ FaultResult(r.row.type) = result
     \/ r.kind = "step_run" /\ r.row.fault # "" /\ FaultResult(r.row.fault) = result
  /\ r.row.key = key

IsFaultRow(r) == r.table = "fault_events"
NoFaults(rows) == \A k \in DOMAIN rows : ~IsFaultRow(rows[k])
OnlyFault(rows, k) == k \in DOMAIN rows /\ \A j \in DOMAIN rows : IsFaultRow(rows[j]) <=> j = k

Backed(s, iv) ==
  /\ iv.prod <=> iv.result \notin SynthResults
  /\ iv.result = "completed" =>
       /\ \E n \in DOMAIN s : s[n].at = iv.end /\ Completing(s[n], iv.key)
       /\ NoFaults(iv.rows)
  /\ iv.result \in FaultResults =>
       \E n \in DOMAIN s : /\ s[n].at = iv.end /\ Faulting(s[n], iv.key, iv.result)
                           /\ \E k \in DOMAIN iv.rows : OnlyFault(iv.rows, k) /\ iv.rows[k].src = n

OpenUndecided(t) ==
  t.cur # Nil => /\ t.cur.prod => t.cur.result = "aborted" /\ NoFaults(t.cur.rows)
                 /\ ~t.cur.prod => t.cur.result \in SynthResults
AllBacked(s, t) == \A iv \in Members(t.closed) : Backed(s, iv)
Outcomes(s, t) == OpenUndecided(t) /\ AllBacked(s, t)

LEMMA ResultVocabulary ==
  /\ "completed" \notin SynthResults /\ "aborted" \notin SynthResults
  /\ "completed" \notin FaultResults /\ "aborted" \notin FaultResults
  /\ "completed" # "aborted"
  /\ \A r \in SynthResults : r # "completed" /\ r \notin FaultResults
  /\ \A r \in FaultResults : r # "completed" /\ r \notin SynthResults
  /\ \A type : FaultResult(type) \in FaultResults
BY DEF SynthResults, FaultResults, FaultResult

LEMMA CalmUndecided ==
  ASSUME NEW t, NEW u, t.cur # Nil, Calm(t, u)
  PROVE  /\ OpenUndecided(t) => OpenUndecided(u)
         /\ \A s : Outcomes(s, t) => Outcomes(s, u)
         /\ NoFaults(t.cur.rows) => NoFaults(u.cur.rows)
         /\ \A k : OnlyFault(t.cur.rows, k) => OnlyFault(u.cur.rows, k)
<1>1. \A r : r.table \in TimeTables => ~IsFaultRow(r)
  BY DEF TimeTables, IsFaultRow
<1>2. ASSUME NoFaults(t.cur.rows) PROVE NoFaults(u.cur.rows)
  BY <1>1, <1>2 DEF Calm, Quiet, NoFaults
<1>3. ASSUME NEW k, OnlyFault(t.cur.rows, k) PROVE OnlyFault(u.cur.rows, k)
  BY <1>1, <1>3 DEF Calm, Quiet, OnlyFault
<1>4. OpenUndecided(t) => OpenUndecided(u)
  BY <1>2 DEF OpenUndecided, Calm, Same
<1>5. u.closed = t.closed
  BY DEF Calm, Same
<1> QED
  BY <1>2, <1>3, <1>4, <1>5 DEF Outcomes, AllBacked

(* The queue stays backed if the interval that joins it is.                *)
LEMMA CloseBacked ==
  ASSUME NEW s, NEW t \in TrackerValue, t.cur # Nil, AllBacked(s, t), NEW at \in Nat,
         NEW forced \in ForcedResults,
         \A iv \in Interval : EmittedAs(t, at, forced, iv) => Backed(s, iv)
  PROVE  Outcomes(s, CloseInterval(t, at, forced))
<1> DEFINE u == CloseInterval(t, at, forced)
<1>1. /\ u.cur = Nil
      /\ \/ u.closed = t.closed
         \/ \E iv \in Interval : u.closed = Append(t.closed, iv) /\ EmittedAs(t, at, forced, iv)
  BY CloseIntervalShape
<1> SUFFICES Outcomes(s, u)
  OBVIOUS
<1> HIDE DEF u
<1>2. OpenUndecided(u)
  BY <1>1 DEF OpenUndecided
<1>3. CASE u.closed = t.closed
  BY <1>2, <1>3 DEF Outcomes, AllBacked
<1>4. ASSUME NEW iv \in Interval, u.closed = Append(t.closed, iv), EmittedAs(t, at, forced, iv)
      PROVE  Outcomes(s, u)
  <2>1. Members(u.closed) = Members(t.closed) \cup {iv}
    BY <1>4, TrackerFields, MembersOfAppend
  <2> QED
    BY <1>2, <1>4, <2>1 DEF Outcomes, AllBacked
<1> QED
  BY <1>1, <1>3, <1>4

(* Closed before its time: aborted, or what its state named.               *)
LEMMA CutShortBacked ==
  ASSUME NEW s, NEW t \in TrackerValue, Outcomes(s, t), NEW at \in Nat,
         NEW forced \in ForcedResults, forced = "" \/ (t.cur # Nil /\ forced = Capped(t))
  PROVE  Outcomes(s, CloseInterval(t, at, forced))
<1>1. CASE t.cur = Nil
  BY <1>1, CloseIntervalNothing
<1>2. CASE t.cur # Nil
  <2>1. t.cur.prod \in BOOLEAN /\ t.cur.result \in Results
    BY <1>2, TrackerFields, IntervalFields
  <2>2. ASSUME NEW iv \in Interval, EmittedAs(t, at, forced, iv)
        PROVE  Backed(s, iv)
    <3>1. iv.prod = t.cur.prod /\ (iv.result = t.cur.result \/ iv.result = Capped(t))
      BY <1>2, <2>2 DEF EmittedAs
    <3>2. (t.cur.prod => iv.result = "aborted") /\ (~t.cur.prod => iv.result \in SynthResults)
      BY <1>2, <3>1 DEF Outcomes, OpenUndecided, Capped
    <3> QED
      BY <2>1, <3>1, <3>2, ResultVocabulary DEF Backed
  <2> QED
    BY <1>2, <2>2, CloseBacked DEF Outcomes
<1> QED
  BY <1>1, <1>2

(* Completed, on the row n of its own order. *)
LEMMA CompletedBacked ==
  ASSUME NEW s, NEW t \in TrackerValue, t.cur # Nil, t.cur.prod, Outcomes(s, t), NEW at \in Nat,
         NEW n \in DOMAIN s, s[n].at = at, Completing(s[n], t.cur.key)
  PROVE  Outcomes(s, CloseInterval(t, at, "completed"))
<1>1. NoFaults(Emptied(t, at).cur.rows)
  BY EmptiedCalm, CalmUndecided DEF Outcomes, OpenUndecided
<1>2. ASSUME NEW iv \in Interval, EmittedAs(t, at, "completed", iv) PROVE Backed(s, iv)
  <2>1. /\ iv.prod = t.cur.prod /\ iv.result = "completed" /\ iv.key = t.cur.key
        /\ iv.end = at /\ iv.rows = Emptied(t, at).cur.rows
    BY <1>2 DEF EmittedAs
  <2> QED
    BY <1>1, <2>1, ResultVocabulary DEF Backed
<1>3. "completed" \in ForcedResults
  BY ForcedResultsType
<1> QED
  BY <1>2, <1>3, CloseBacked DEF Outcomes

(* Faulted, on the row n of its own order, with that row's fault only.     *)
LEMMA FaultedBacked ==
  ASSUME NEW s, NEW t \in TrackerValue, t.cur # Nil, t.cur.prod, AllBacked(s, t), NEW at \in Nat,
         NEW type, NEW n \in DOMAIN s, s[n].at = at, Faulting(s[n], t.cur.key, FaultResult(type)),
         NEW k, OnlyFault(t.cur.rows, k), t.cur.rows[k].src = n
  PROVE  Outcomes(s, CloseInterval(t, at, FaultResult(type)))
<1> DEFINE c == Emptied(t, at)
           result == FaultResult(type)
<1>1. Calm(t, c)
  BY EmptiedCalm
<1> HIDE DEF c
<1>2. OnlyFault(c.cur.rows, k)
  BY <1>1, CalmUndecided
<1>3. k \in DOMAIN c.cur.rows /\ c.cur.rows[k].src = n
  BY <1>1 DEF Calm, Quiet, OnlyFault
<1>4. result \in FaultResults /\ result \in ForcedResults /\ result # ""
  BY ResultVocabulary, ForcedResultsType DEF FaultResults
<1> HIDE DEF result
<1>5. ASSUME NEW iv \in Interval, EmittedAs(t, at, result, iv) PROVE Backed(s, iv)
  <2>1. /\ iv.prod = t.cur.prod /\ iv.result = result /\ iv.key = t.cur.key
        /\ iv.end = at /\ iv.rows = c.cur.rows
    BY <1>4, <1>5 DEF EmittedAs, c
  <2>2. Faulting(s[n], iv.key, iv.result)
    BY <2>1 DEF result
  <2>3. \E m \in DOMAIN s : /\ s[m].at = iv.end /\ Faulting(s[m], iv.key, iv.result)
                            /\ \E j \in DOMAIN iv.rows : OnlyFault(iv.rows, j) /\ iv.rows[j].src = m
    BY <1>2, <1>3, <2>1, <2>2
  <2> QED
    BY <1>4, <2>1, <2>3, ResultVocabulary DEF Backed
<1>6. Outcomes(s, CloseInterval(t, at, result))
  BY <1>4, <1>5, CloseBacked
<1> QED
  BY <1>6 DEF result

LEMMA EnsureOutcomes ==
  ASSUME NEW s, NEW t \in TrackerValue, Outcomes(s, t), NEW key \in KeysOrNone, NEW state,
         NEW at \in Nat
  PROVE  Outcomes(s, EnsureInterval(t, key, state, at))
<1> DEFINE u == EnsureInterval(t, key, state, at)
           want == ResultForState(state)
<1>1. CASE u = t
  BY <1>1
<1>2. ASSUME NEW forced \in ForcedResults, forced = "" \/ (t.cur # Nil /\ forced = Capped(t)),
             u = OpenInterval(CloseInterval(t, at, forced), key, want, at)
      PROVE  Outcomes(s, u)
  <2> DEFINE c == CloseInterval(t, at, forced)
  <2>1. c \in TrackerValue /\ c.cur = Nil /\ Outcomes(s, c)
    BY <1>2, CloseIntervalQueue, CutShortBacked
  <2>2. want \in SynthResults
    BY ResultForStateType
  <2> HIDE DEF c, want
  <2>3. LET v == OpenInterval(c, key, want, at)
        IN  /\ v.closed = c.closed /\ v.cur.rows = <<>> /\ (v.cur.prod <=> key # NoKey)
            /\ (key # NoKey => v.cur.result = "aborted") /\ (key = NoKey => v.cur.result = want)
    BY <2>1, <2>2, OpenIntervalFields
  <2>4. /\ u.closed = c.closed /\ u.cur.rows = <<>> /\ (u.cur.prod <=> key # NoKey)
        /\ (key # NoKey => u.cur.result = "aborted") /\ (key = NoKey => u.cur.result = want)
    BY <1>2, <2>3 DEF c
  <2> HIDE DEF u
  <2>5. DOMAIN u.cur.rows = {}
    BY <2>4
  <2>6. OpenUndecided(u)
    BY <2>2, <2>4, <2>5 DEF OpenUndecided, NoFaults
  <2> QED
    BY <2>1, <2>4, <2>6 DEF Outcomes, AllBacked
<1> QED
  BY <1>1, <1>2, EnsureShape

(* Handlers, on the row n of s. *)
LEMMA AddedUndecided ==
  ASSUME NEW s, NEW t \in TrackerValue, t.cur # Nil, Outcomes(s, t), NEW r \in Row,
         ~IsFaultRow(r) \/ ~t.cur.prod, NEW u, Same(t, u), u.cur.rows = Append(t.cur.rows, r)
  PROVE  Outcomes(s, u)
<1>1. NoFaults(t.cur.rows) /\ ~IsFaultRow(r) => NoFaults(u.cur.rows)
  BY RowsOfOpen, RowAppended DEF NoFaults
<1>2. OpenUndecided(u)
  BY <1>1 DEF OpenUndecided, Outcomes, Same
<1> QED
  BY <1>2 DEF Outcomes, AllBacked, Same

LEMMA SameRowsUndecided ==
  ASSUME NEW s, NEW t, Outcomes(s, t), t.cur # Nil, NEW u, Same(t, u), u.cur.rows = t.cur.rows
  PROVE  Outcomes(s, u)
BY DEF Outcomes, OpenUndecided, AllBacked, Same

LEMMA FirstFault ==
  ASSUME NEW rows \in Seq(Row), NoFaults(rows), NEW r \in Row, IsFaultRow(r)
  PROVE  /\ OnlyFault(Append(rows, r), Len(rows) + 1)
         /\ Append(rows, r)[Len(rows) + 1] = r
<1>1. /\ \A k \in DOMAIN Append(rows, r) : k \in DOMAIN rows \/ k = Len(rows) + 1
      /\ \A k \in DOMAIN rows : Append(rows, r)[k] = rows[k] /\ k \in Nat /\ k < Len(rows) + 1
      /\ Len(rows) + 1 \in DOMAIN Append(rows, r) /\ Append(rows, r)[Len(rows) + 1] = r
  BY RowAppended
<1> DEFINE m == Len(rows) + 1
           new == Append(rows, r)
<1> HIDE DEF m, new
<1>2. /\ \A k \in DOMAIN new : k \in DOMAIN rows \/ k = m
      /\ \A k \in DOMAIN rows : new[k] = rows[k] /\ k # m
      /\ m \in DOMAIN new /\ new[m] = r
  BY <1>1 DEF m, new
<1>3. OnlyFault(new, m)
  BY <1>2 DEF OnlyFault, NoFaults
<1> QED
  BY <1>2, <1>3 DEF m, new

LEMMA OrderOutcomes ==
  ASSUME NEW s, NEW t \in TrackerValue, Outcomes(s, t), NEW o \in OrderShape, NEW at \in Nat
  PROVE  Outcomes(s, ApplyOrder(t, o, at))
<1> DEFINE v == EnsureInterval(t, o.key, "AutoCycle", at)
           u == [v EXCEPT !.cur.recipe = TRUE]
<1>1. o.key \in KeysOrNone
  BY DEF OrderShape, KeysOrNone
<1>2. v \in TrackerValue /\ v.cur # Nil /\ Outcomes(s, v)
  BY <1>1, EnsureFits, EnsureOutcomes
<1> HIDE DEF v
<1>3. Same(v, u) /\ u.cur.rows = v.cur.rows
  BY <1>2, RecipeShape
<1> HIDE DEF u
<1>4. Outcomes(s, u)
  BY <1>2, <1>3, SameRowsUndecided
<1> QED
  BY <1>4 DEF ApplyOrder, u, v

LEMMA EventOutcomes ==
  ASSUME NEW s, NEW t \in TrackerValue, Outcomes(s, t), NEW e \in EventShape, NEW at \in Nat,
         NEW n \in DOMAIN s, s[n] = [kind |-> "event", row |-> e, at |-> at]
  PROVE  Outcomes(s, ApplyFSMEvent(t, e, at))
<1> DEFINE v == EnsureInterval(t, e.key, e.state, at)
           p == TrackStateSpan(v, e, at)
           d == IF UseStepRuns THEN p ELSE TrackDwell(p, e, at)
<1>1. e.key \in KeysOrNone
  BY DEF EventShape, KeysOrNone
<1>2. /\ v \in TrackerValue /\ v.cur # Nil /\ Outcomes(s, v)
      /\ v.cur.prod => v.cur.key = e.key
  BY <1>1, EnsureFits, EnsureOutcomes
<1> HIDE DEF v
<1>3. Calm(v, p) /\ p \in TrackerValue /\ p.cur # Nil
  BY <1>2, TrackStateSpanCalm DEF Calm
<1> HIDE DEF p
<1>4. Calm(p, d)
  BY <1>3, TrackDwellCalm, CalmStill
<1> HIDE DEF d
<1>5. Calm(v, d) /\ d \in TrackerValue /\ d.cur # Nil /\ d.cur.key = v.cur.key /\ d.cur.prod = v.cur.prod
  BY <1>2, <1>3, <1>4, CalmTrans DEF Calm, Same
<1>6. Outcomes(s, d)
  BY <1>2, <1>5, CalmUndecided
<1>7. ASSUME Completes(d, e.state, e.stepTo)
      PROVE  Outcomes(s, CloseInterval(d, at, "completed"))
  <2>1. d.cur.prod /\ e.state = "AutoCycle" /\ e.stepTo = AutoCycleCompleteStep
    BY <1>7 DEF Completes
  <2>2. s[n].at = at /\ Completing(s[n], d.cur.key)
    BY <1>2, <1>5, <2>1 DEF Completing
  <2> QED
    BY <1>5, <1>6, <2>1, <2>2, CompletedBacked
<1> QED
  BY <1>6, <1>7 DEF ApplyFSMEvent, d, p, v

LEMMA FaultOutcomes ==
  ASSUME NEW s, NEW t \in TrackerValue, Outcomes(s, t), NEW f \in FaultShape, NEW at \in Nat,
         NEW n \in DOMAIN s, n \in Nat, s[n] = [kind |-> "fault", row |-> f, at |-> at]
  PROVE  Outcomes(s, ApplyFault(t, f, at, n))
<1> DEFINE v == EnsureInterval(t, f.key, f.state, at)
           w == RecordLedgerFault(v, f.type, at)
           main == w.dwell["main"]
           num == IF main = Nil THEN NoStep ELSE main.seq
           row == FaultRow(f.type, at, n, num)
           a == AddRow(w, row)
<1>1. f.key \in KeysOrNone /\ f.type \in STRING
  BY DEF FaultShape, KeysOrNone
<1>2. /\ v \in TrackerValue /\ v.cur # Nil /\ Outcomes(s, v)
      /\ v.cur.prod => v.cur.key = f.key
  BY <1>1, EnsureFits, EnsureOutcomes
<1> HIDE DEF v
<1>3. /\ w \in TrackerValue /\ w.cur # Nil /\ w.cur = v.cur /\ Same(v, w)
  BY <1>1, <1>2, LedgerShape, RecordLedgerFaultSame
<1> HIDE DEF w
<1>4. Outcomes(s, w) /\ (w.cur.prod => w.cur.key = f.key)
  BY <1>2, <1>3, SameRowsUndecided
<1>5. num \in NatOrNull
  BY <1>3, SeqTypes DEF NatOrNull, Lanes
<1> HIDE DEF num
<1>6. row \in Row /\ row.src = n /\ IsFaultRow(row)
  <2>1. row \in Row
    BY <1>1, <1>5, RowTypes
  <2> QED
    BY <2>1 DEF FaultRow, IsFaultRow
<1> HIDE DEF row
<1>7. a \in TrackerValue /\ a.cur # Nil /\ Same(w, a) /\ a.cur.rows = Append(w.cur.rows, row)
  BY <1>3, <1>6, AddRowShape, AddRowSame
<1> HIDE DEF a
<1>8. ASSUME ~w.cur.prod PROVE Outcomes(s, a)
  BY <1>3, <1>4, <1>6, <1>7, <1>8, AddedUndecided
<1>9. ASSUME w.cur.prod PROVE Outcomes(s, CloseInterval(a, at, FaultResult(f.type)))
  <2> DEFINE k == Len(w.cur.rows) + 1
  <2>1. NoFaults(w.cur.rows) /\ w.cur.rows \in Seq(Row)
    BY <1>3, <1>4, <1>9, RowsOfOpen DEF Outcomes, OpenUndecided
  <2>2. OnlyFault(a.cur.rows, k) /\ a.cur.rows[k].src = n
    BY <1>6, <1>7, <2>1, FirstFault
  <2>3. a.cur.prod /\ a.cur.key = f.key /\ AllBacked(s, a)
    BY <1>3, <1>4, <1>7, <1>9 DEF Same, Outcomes, AllBacked
  <2>4. s[n].at = at /\ Faulting(s[n], a.cur.key, FaultResult(f.type))
    BY <2>3 DEF Faulting
  <2> HIDE DEF k
  <2> QED
    BY <1>7, <2>2, <2>3, <2>4, FaultedBacked
<1> QED
  BY <1>8, <1>9 DEF ApplyFault, a, row, num, main, w, v

LEMMA ToggleOutcomes ==
  ASSUME NEW s, NEW t \in TrackerValue, Outcomes(s, t), NEW g \in ToggleShape, NEW at \in Nat,
         NEW id \in Nat
  PROVE  Outcomes(s, ApplySensorToggle(t, g, at, id))
<1> DEFINE v == EnsureInterval(t, g.key, g.state, at)
           d == ApplyDoorSignals(v, g, at, id)
           row == ToggleRow(g.input, at, id)
           door == DoorRow(v.door, at, id)
           u == AddRow(d, row)
<1>1. g.key \in KeysOrNone /\ g.input \in STRING
  BY DEF ToggleShape, KeysOrNone
<1>2. v \in TrackerValue /\ v.cur # Nil /\ Outcomes(s, v)
  BY <1>1, EnsureFits, EnsureOutcomes
<1> HIDE DEF v
<1>3. /\ d \in TrackerValue /\ d.cur # Nil /\ Same(v, d)
      /\ d.cur = v.cur \/ (door \in Row /\ d.cur.rows = Append(v.cur.rows, door))
  <2>1. d \in TrackerValue /\ DoorStep(v, d, g, at, id) /\ Same(v, d)
    BY <1>2, DoorSignalsShape, DoorSignalsSame
  <2> HIDE DEF d
  <2> QED
    BY <1>2, <2>1 DEF DoorStep, Same
<1>4. ~IsFaultRow(door) /\ ~IsFaultRow(row)
  BY DEF DoorRow, ToggleRow, IsFaultRow
<1> HIDE DEF d, door
<1>5. Outcomes(s, d)
  BY <1>2, <1>3, <1>4, AddedUndecided, SameRowsUndecided
<1>6. row \in Row
  <2>1. 0 \in NatOrNull
    BY DEF NatOrNull
  <2> QED
    BY <1>1, <2>1, RowTypes
<1> HIDE DEF row
<1>7. Same(d, u) /\ u.cur.rows = Append(d.cur.rows, row)
  BY <1>3, <1>6, AddRowShape, AddRowSame
<1> HIDE DEF u
<1>8. Outcomes(s, u)
  BY <1>3, <1>4, <1>5, <1>6, <1>7, AddedUndecided
<1> QED
  BY <1>8 DEF ApplySensorToggle, u, row, d, v

LEMMA ConfigOutcomes ==
  ASSUME NEW s, NEW t \in TrackerValue, Outcomes(s, t), NEW k \in STRING, NEW at \in Nat,
         NEW id \in Nat
  PROVE  Outcomes(s, ApplyConfigChange(t, k, at, id))
<1> DEFINE state == IF t.cur # Nil /\ ~t.cur.prod THEN t.cur.result ELSE ""
           v == EnsureInterval(t, NoKey, state, at)
           row == ConfigRow(k, at, id)
           u == AddRow(v, row)
<1> HIDE DEF state
<1>1. NoKey \in KeysOrNone
  BY DEF KeysOrNone
<1>2. v \in TrackerValue /\ v.cur # Nil /\ Outcomes(s, v)
  BY <1>1, EnsureFits, EnsureOutcomes
<1> HIDE DEF v
<1>3. row \in Row /\ ~IsFaultRow(row)
  <2>1. 0 \in NatOrNull
    BY DEF NatOrNull
  <2>2. row \in Row
    BY <2>1, RowTypes
  <2> QED
    BY <2>2 DEF ConfigRow, IsFaultRow
<1> HIDE DEF row
<1>4. Same(v, u) /\ u.cur.rows = Append(v.cur.rows, row)
  BY <1>2, <1>3, AddRowShape, AddRowSame
<1> HIDE DEF u
<1>5. Outcomes(s, u)
  BY <1>2, <1>3, <1>4, AddedUndecided
<1> QED
  BY <1>5 DEF ApplyConfigChange, u, row, v, state

LEMMA FlushOutcomes ==
  ASSUME NEW s, NEW t \in TrackerValue, Outcomes(s, t), NEW now \in Nat
  PROVE  Outcomes(s, FlushOpen(t, now))
<1>1. CASE t.cur = Nil
  BY <1>1 DEF FlushOpen
<1>2. CASE t.cur # Nil
  <2> DEFINE end == IF now <= t.cur.start THEN t.cur.start + 1 ELSE now
  <2>1. end \in Nat /\ Capped(t) \in ForcedResults
    <3>1. t.cur.start \in Nat /\ t.cur.start + 1 \in Nat
      BY <1>2, TrackerFields, IntervalFields
    <3> QED
      BY <1>2, <3>1, ForcedResultsType DEF Capped
  <2>2. FlushOpen(t, now) = CloseInterval(t, end, Capped(t))
    BY <1>2 DEF FlushOpen, Capped
  <2> HIDE DEF end
  <2> QED
    BY <1>2, <2>1, <2>2, CutShortBacked
<1> QED
  BY <1>1, <1>2

(* A step run: its dwell, then its fault or its completion.                *)
LEMMA StepRunOutcomes ==
  ASSUME NEW s, NEW t \in TrackerValue, Outcomes(s, t), NEW sr \in StepRunShape,
         NEW at \in Nat, sr.len <= at,
         NEW n \in DOMAIN s, n \in Nat, s[n] = [kind |-> "step_run", row |-> sr, at |-> at]
  PROVE  Outcomes(s, ApplyStepRun(t, sr, at, n))
<1> DEFINE in == EnsureInterval(t, sr.key, sr.state, at - sr.len)
           c == StepRunCounted(in, sr)
           r == StepRunRow(in, sr, at)
           num == in.seq[LaneForState(sr.state)]
           d == StepRunDwelt(in, sr, at)
           f == FaultRow(sr.fault, at, n, num)
           a == AddRow(d, f)
           done == StepRunDone(in, sr, at, n)
<1>1. /\ in \in TrackerValue /\ in.cur # Nil /\ Outcomes(s, in)
      /\ in.cur.prod => in.cur.key = sr.key
  <2>1. at - sr.len \in Nat /\ sr.key \in KeysOrNone
    <3>1. sr.len \in Nat /\ sr.key \in KeysOrNone
      BY DEF StepRunShape, KeysOrNone
    <3> QED
      BY <3>1
  <2> QED
    BY <2>1, EnsureFits, EnsureOutcomes
<1> HIDE DEF in
<1>2. /\ r \in Row /\ c \in TrackerValue /\ c.cur # Nil /\ d \in TrackerValue /\ d.cur # Nil
      /\ num \in Nat /\ done \in TrackerValue /\ LaneForState(sr.state) \in Lanes
  BY <1>1, StepRunPieces
<1>3. Same(in, c) /\ c.cur = in.cur
  BY <1>1, <1>2, CountedShape DEF Same, StepRunCounted
<1>4. ~IsFaultRow(r)
  BY DEF StepRunRow, DwellRow, IsFaultRow
<1>5. Same(c, d) /\ d.cur.rows = Append(c.cur.rows, r)
  BY <1>2, AddRowShape, AddRowSame DEF StepRunDwelt
<1>6. f \in Row /\ f.src = n /\ IsFaultRow(f)
  <2>1. sr.fault \in STRING /\ num \in NatOrNull
    BY <1>2 DEF StepRunShape, NatOrNull
  <2> HIDE DEF num
  <2>2. f \in Row
    BY <2>1, RowTypes
  <2> QED
    BY <2>2 DEF FaultRow, IsFaultRow
<1>7. \/ done = d
      \/ sr.fault # "" /\ d.cur.prod /\ done = CloseInterval(a, at, FaultResult(sr.fault))
      \/ sr.fault # "" /\ ~d.cur.prod /\ done = a
  BY DEF StepRunDone, ApplyStepRunFault
<1> HIDE DEF c, r, d, f, done, num
<1>8. Outcomes(s, c) /\ Outcomes(s, d)
  <2>1. Outcomes(s, c)
    BY <1>1, <1>3, SameRowsUndecided
  <2> QED
    BY <1>2, <1>4, <1>5, <2>1, AddedUndecided
<1>9. d.cur.prod = in.cur.prod /\ d.cur.key = in.cur.key
  BY <1>1, <1>2, <1>3, <1>5 DEF Same
<1>10. a \in TrackerValue /\ a.cur # Nil /\ Same(d, a) /\ a.cur.rows = Append(d.cur.rows, f)
  BY <1>2, <1>6, AddRowShape, AddRowSame
<1> HIDE DEF a
<1>11. ASSUME ~d.cur.prod PROVE Outcomes(s, a) /\ ~a.cur.prod
  BY <1>2, <1>6, <1>8, <1>10, <1>11, AddedUndecided DEF Same
<1>12. ASSUME d.cur.prod, sr.fault # ""
       PROVE  Outcomes(s, CloseInterval(a, at, FaultResult(sr.fault)))
  <2> DEFINE k == Len(d.cur.rows) + 1
  <2>1. NoFaults(d.cur.rows) /\ d.cur.rows \in Seq(Row)
    BY <1>2, <1>8, <1>12, RowsOfOpen DEF Outcomes, OpenUndecided
  <2>2. OnlyFault(a.cur.rows, k) /\ a.cur.rows[k].src = n
    BY <1>6, <1>10, <2>1, FirstFault
  <2>3. a.cur.prod /\ a.cur.key = sr.key /\ AllBacked(s, a)
    BY <1>1, <1>2, <1>8, <1>9, <1>10, <1>12 DEF Same, Outcomes, AllBacked
  <2>4. s[n].at = at /\ Faulting(s[n], a.cur.key, FaultResult(sr.fault))
    <3>1. s[n].kind = "step_run" /\ s[n].row = sr /\ s[n].at = at
      OBVIOUS
    <3> QED
      BY <1>12, <2>3, <3>1 DEF Faulting
  <2> HIDE DEF k
  <2> QED
    BY <1>10, <2>2, <2>3, <2>4, FaultedBacked
<1>13. Outcomes(s, done)
  BY <1>7, <1>8, <1>11, <1>12
<1>14. ASSUME done.cur # Nil, Completes(done, sr.state, sr.step)
       PROVE  Outcomes(s, CloseInterval(done, at, "completed"))
  <2>1. done.cur.prod /\ sr.state = "AutoCycle" /\ sr.step = AutoCycleCompleteStep
    BY <1>14 DEF Completes
  <2>2. CloseInterval(a, at, FaultResult(sr.fault)).cur = Nil
    <3>1. FaultResult(sr.fault) \in ForcedResults
      BY ForcedResultsType
    <3> QED
      BY <1>10, <3>1, CloseIntervalShape
  <2>3. done = d
    BY <1>7, <1>11, <1>14, <2>1, <2>2
  <2>4. s[n].at = at /\ Completing(s[n], done.cur.key)
    BY <1>1, <1>9, <2>1, <2>3 DEF Completing
  <2> QED
    BY <1>2, <1>13, <1>14, <2>1, <2>4, CompletedBacked
<1> QED
  BY <1>1, <1>8, <1>13, <1>14, StepRunShapes DEF in, c, done

OutcomeInv == Outcomes(fed, trk) /\ \A iv \in Members(out) : Backed(fed, iv)

(* Evidence stays evidence as more rows arrive.                            *)
LEMMA BackedLater ==
  ASSUME NEW s, NEW q, \A n \in DOMAIN s : n \in DOMAIN q /\ q[n] = s[n]
  PROVE  /\ \A iv : Backed(s, iv) => Backed(q, iv)
         /\ \A t : Outcomes(s, t) => Outcomes(q, t)
<1>1. ASSUME NEW iv, Backed(s, iv) PROVE Backed(q, iv)
  <2>1. ASSUME iv.result = "completed"
        PROVE  \E n \in DOMAIN q : q[n].at = iv.end /\ Completing(q[n], iv.key)
    <3>1. PICK n \in DOMAIN s : s[n].at = iv.end /\ Completing(s[n], iv.key)
      BY <1>1, <2>1 DEF Backed
    <3> QED
      BY <3>1
  <2>2. ASSUME iv.result \in FaultResults
        PROVE  \E n \in DOMAIN q :
                 /\ q[n].at = iv.end /\ Faulting(q[n], iv.key, iv.result)
                 /\ \E k \in DOMAIN iv.rows : OnlyFault(iv.rows, k) /\ iv.rows[k].src = n
    <3>1. PICK n \in DOMAIN s :
                 /\ s[n].at = iv.end /\ Faulting(s[n], iv.key, iv.result)
                 /\ \E k \in DOMAIN iv.rows : OnlyFault(iv.rows, k) /\ iv.rows[k].src = n
      BY <1>1, <2>2 DEF Backed
    <3> QED
      BY <3>1
  <2> QED
    BY <1>1, <2>1, <2>2 DEF Backed
<1> QED
  BY <1>1 DEF Outcomes, AllBacked

(* The rows handed over, one more.                                         *)
LEMMA FedMore ==
  ASSUME TypeOK, NEW kind, NEW row, NEW at, Fed(kind, row, at)
  PROVE  /\ \A n \in DOMAIN fed : n \in DOMAIN fed' /\ fed'[n] = fed[n]
         /\ NextId \in DOMAIN fed' /\ fed'[NextId] = [kind |-> kind, row |-> row, at |-> at]
         /\ \A n \in DOMAIN fed' : n \in DOMAIN fed \/ n = NextId
         /\ \A n \in DOMAIN fed : n \in Nat /\ n < NextId
<1> DEFINE r == [kind |-> kind, row |-> row, at |-> at]
<1>1. fed \in Seq(FedRow) /\ Len(fed) \in Nat /\ DOMAIN fed = 1 .. Len(fed)
  BY LenProperties DEF TypeOK
<1>2. fed' = Append(fed, r)
  BY DEF Fed
<1> HIDE DEF r
<1>3. /\ DOMAIN Append(fed, r) = 1 .. Len(fed) + 1
      /\ \A n \in 1 .. Len(fed) : Append(fed, r)[n] = fed[n]
      /\ Append(fed, r)[Len(fed) + 1] = r
  BY <1>1
<1> QED
  BY <1>1, <1>2, <1>3 DEF r, NextId

LEMMA OutcomeStep ==
  ASSUME TypeOK, OutcomeInv, [Next]_vars
  PROVE  OutcomeInv'
<1>1. trk \in TrackerValue /\ latest \in Nat /\ NextId \in Nat
  BY NextIdType DEF TypeOK
<1>2. ASSUME NEW kind, NEW row, NEW at, Fed(kind, row, at)
      PROVE  /\ Outcomes(fed', trk) /\ NextId \in DOMAIN fed'
             /\ fed'[NextId] = [kind |-> kind, row |-> row, at |-> at]
             /\ Outcomes(fed', trk') => OutcomeInv'
  <2>1. /\ NextId \in DOMAIN fed' /\ fed'[NextId] = [kind |-> kind, row |-> row, at |-> at]
        /\ \A n \in DOMAIN fed : n \in DOMAIN fed' /\ fed'[n] = fed[n]
    BY <1>2, FedMore
  <2>2. /\ \A iv : Backed(fed, iv) => Backed(fed', iv)
        /\ \A t : Outcomes(fed, t) => Outcomes(fed', t)
    BY <2>1, BackedLater
  <2>3. out' = out
    BY <1>2 DEF Fed
  <2>4. \A iv \in Members(out') : Backed(fed', iv)
    BY <2>2, <2>3 DEF OutcomeInv
  <2> QED
    BY <2>1, <2>2, <2>4 DEF OutcomeInv
<1>3. ASSUME NEW at \in 0 .. MaxTime, NEW o \in Orders, OrderArrives(o, at) PROVE OutcomeInv'
  <2>1. o \in OrderShape /\ at \in Nat
    BY SourceShapes DEF SourceShapes
  <2>2. Outcomes(fed', trk')
    BY <1>1, <1>2, <1>3, <2>1, OrderOutcomes DEF OrderArrives
  <2> QED
    BY <1>2, <1>3, <2>2 DEF OrderArrives
<1>4. ASSUME NEW at \in 0 .. MaxTime, NEW e \in Events, EventArrives(e, at) PROVE OutcomeInv'
  <2>1. e \in EventShape /\ at \in Nat
    BY SourceShapes DEF SourceShapes
  <2>2. Outcomes(fed', trk')
    BY <1>1, <1>2, <1>4, <2>1, EventOutcomes DEF EventArrives
  <2> QED
    BY <1>2, <1>4, <2>2 DEF EventArrives
<1>5. ASSUME NEW at \in 0 .. MaxTime, NEW f \in Faults, FaultArrives(f, at) PROVE OutcomeInv'
  <2>1. f \in FaultShape /\ at \in Nat
    BY SourceShapes DEF SourceShapes
  <2>2. Outcomes(fed', trk')
    BY <1>1, <1>2, <1>5, <2>1, FaultOutcomes DEF FaultArrives
  <2> QED
    BY <1>2, <1>5, <2>2 DEF FaultArrives
<1>6. ASSUME NEW at \in 0 .. MaxTime, NEW s \in Toggles, ToggleArrives(s, at) PROVE OutcomeInv'
  <2>1. s \in ToggleShape /\ at \in Nat
    BY SourceShapes DEF SourceShapes
  <2>2. Outcomes(fed', trk')
    BY <1>1, <1>2, <1>6, <2>1, ToggleOutcomes DEF ToggleArrives
  <2> QED
    BY <1>2, <1>6, <2>2 DEF ToggleArrives
<1>7. ASSUME NEW at \in 0 .. MaxTime, NEW sr \in StepRuns, StepRunArrives(sr, at) PROVE OutcomeInv'
  <2>1. sr \in StepRunShape /\ at \in Nat
    BY SourceShapes DEF SourceShapes
  <2>2. Outcomes(fed', trk')
    BY <1>1, <1>2, <1>7, <2>1, StepRunOutcomes DEF StepRunArrives
  <2> QED
    BY <1>2, <1>7, <2>2 DEF StepRunArrives
<1>8. ASSUME NEW k \in ConfigKeys, ConfigChanges(k) PROVE OutcomeInv'
  <2>1. k \in STRING
    BY SourceShapes DEF SourceShapes
  <2>2. Outcomes(fed', trk')
    BY <1>1, <1>2, <1>8, <2>1, ConfigOutcomes DEF ConfigChanges
  <2> QED
    BY <1>2, <1>8, <2>2 DEF ConfigChanges
<1>9. CASE Take
  <2>1. trk.closed \in Seq(Interval) /\ out \in Seq(Interval) /\ SortByEnd(trk.closed) \in Seq(Interval)
    BY <1>1, TrackerFields, SortByEndType DEF TypeOK
  <2>2. Members(out') \subseteq Members(out) \cup Members(trk.closed)
    BY <1>9, <2>1, MembersOfConcat, SortByEndMembers DEF Take
  <2>3. trk'.closed = <<>> /\ trk'.cur = trk.cur /\ fed' = fed
    BY <1>1, <1>9 DEF Take, TakePending, TrackerValue
  <2>4. Members(trk'.closed) = {}
    BY <2>3 DEF Members
  <2>5. Outcomes(fed', trk')
    BY <2>3, <2>4 DEF OutcomeInv, Outcomes, OpenUndecided, AllBacked
  <2>6. \A iv \in Members(out') : Backed(fed', iv)
    BY <2>2, <2>3 DEF OutcomeInv, Outcomes, AllBacked
  <2> QED
    BY <2>5, <2>6 DEF OutcomeInv
<1>10. CASE Shutdown
  <2>1. Outcomes(fed, trk') /\ fed' = fed /\ out' = out
    BY <1>1, <1>10, FlushOutcomes DEF Shutdown, OutcomeInv
  <2> QED
    BY <2>1 DEF OutcomeInv
<1>11. CASE UNCHANGED vars
  BY <1>11 DEF vars, OutcomeInv
<1> QED
  BY <1>3, <1>4, <1>5, <1>6, <1>7, <1>8, <1>9, <1>10, <1>11 DEF Next

(* "Why result matters": a result is never given without its evidence.  An *)
(* interval is completed only on step 19 of its own order and with no      *)
(* fault among its rows, and faulted only on a fault of that severity and  *)
(* order, which is its one fault row; with step runs and late rows too.    *)
THEOREM ResultsEarned == Spec => []OutcomeHasEvidence
<1>1. Init => OutcomeInv
  <2> SUFFICES ASSUME Init PROVE OutcomeInv
    OBVIOUS
  <2>1. trk.cur = Nil /\ trk.closed = <<>> /\ out = <<>>
    BY DEF Init, NewTracker
  <2>2. Members(trk.closed) = {} /\ Members(out) = {}
    BY <2>1 DEF Members
  <2> QED
    BY <2>1, <2>2 DEF OutcomeInv, Outcomes, OpenUndecided, AllBacked
<1>2. TypeOK /\ OutcomeInv /\ [Next]_vars => OutcomeInv'
  BY OutcomeStep
<1>3. TypeOK /\ OutcomeInv => OutcomeHasEvidence
  <2> SUFFICES ASSUME TypeOK, OutcomeInv PROVE OutcomeHasEvidence
    OBVIOUS
  <2>1. trk.closed \in Seq(Interval) /\ out \in Seq(Interval)
    BY TrackerFields DEF TypeOK
  <2>2. ASSUME NEW i \in DOMAIN Done PROVE Backed(fed, Done[i])
    <3>1. Done[i] \in Members(out) \cup Members(trk.closed)
      BY <2>1, <2>2, MembersOfConcat DEF Done, Members
    <3> QED
      BY <3>1 DEF OutcomeInv, Outcomes, AllBacked
  <2>3. \A n, k : Completing(fed[n], k) => IsCompletion(n, k)
    BY DEF Completing, IsCompletion
  <2>4. \A n, k, r : Faulting(fed[n], k, r) => IsFault(n, k, r)
    BY DEF Faulting, IsFault
  <2> SUFFICES ASSUME NEW i \in DOMAIN Done
               PROVE  LET iv == Done[i]
                          faults == RowsOf(iv, "fault_events")
                      IN  /\ iv.prod <=> iv.result \notin SynthResults
                          /\ iv.result = "completed" =>
                               /\ \E n \in DOMAIN fed : fed[n].at = iv.end /\ IsCompletion(n, iv.key)
                               /\ faults = {}
                          /\ iv.result \in FaultResults =>
                               /\ \E n \in DOMAIN fed : /\ fed[n].at = iv.end
                                                        /\ IsFault(n, iv.key, iv.result)
                                                        /\ \E k \in faults : iv.rows[k].src = n
                               /\ Cardinality(faults) = 1
    BY DEF OutcomeHasEvidence
  <2> DEFINE iv == Done[i]
             faults == RowsOf(iv, "fault_events")
  <2>5. Backed(fed, iv)
    BY <2>2
  <2>6. \A k : k \in faults <=> k \in DOMAIN iv.rows /\ IsFaultRow(iv.rows[k])
    BY DEF RowsOf, IsFaultRow
  <2> HIDE DEF iv, faults
  <2>7. ASSUME iv.result = "completed"
        PROVE  /\ \E n \in DOMAIN fed : fed[n].at = iv.end /\ IsCompletion(n, iv.key)
               /\ faults = {}
    <3>1. faults = {}
      BY <2>5, <2>6, <2>7 DEF Backed, NoFaults
    <3>2. PICK n \in DOMAIN fed : fed[n].at = iv.end /\ Completing(fed[n], iv.key)
      BY <2>5, <2>7 DEF Backed
    <3> QED
      BY <2>3, <3>1, <3>2
  <2>8. ASSUME iv.result \in FaultResults
        PROVE  /\ \E n \in DOMAIN fed : /\ fed[n].at = iv.end
                                        /\ IsFault(n, iv.key, iv.result)
                                        /\ \E k \in faults : iv.rows[k].src = n
               /\ Cardinality(faults) = 1
    <3>1. PICK n \in DOMAIN fed :
                 /\ fed[n].at = iv.end /\ Faulting(fed[n], iv.key, iv.result)
                 /\ \E k \in DOMAIN iv.rows : OnlyFault(iv.rows, k) /\ iv.rows[k].src = n
      BY <2>5, <2>8 DEF Backed
    <3>2. PICK k \in DOMAIN iv.rows : OnlyFault(iv.rows, k) /\ iv.rows[k].src = n
      BY <3>1
    <3>3. faults = {k}
      BY <2>6, <3>2 DEF OnlyFault
    <3>4. Cardinality(faults) = 1
      BY <3>3, FS_Singleton
    <3> QED
      BY <2>4, <3>1, <3>2, <3>3, <3>4
  <2> QED
    BY <2>5, <2>7, <2>8 DEF Backed, iv, faults
<1> QED
  BY <1>1, <1>2, <1>3, TypeCorrect, PTL DEF Spec

-----------------------------------------------------------------------------
(* Door episodes.  The open one is that of the last opening edge among the *)
(* first m rows of s, with the resets pressed since.                       *)

OpensAt(s, n) == s[n].kind = "toggle" /\ DoorOpened(s[n].row)
ResetsAt(s, n) == s[n].kind = "toggle" /\ ResetPressed(s[n].row)
Pressed(s, n, m) == {k \in n .. m : ResetsAt(s, k)}

EpisodeOf(s, n, m, opened, resets) ==
  /\ n \in 1 .. m /\ OpensAt(s, n) /\ \A k \in 1 .. m : OpensAt(s, k) => k <= n
  /\ s[n].at = opened /\ resets = Cardinality(Pressed(s, n, m))
Episode(s, m, opened, resets) == \E n \in 1 .. m : EpisodeOf(s, n, m, opened, resets)

DoorRows(s, rows) ==
  \A k \in DOMAIN rows : rows[k].table = "door_events" =>
    /\ rows[k].src \in DOMAIN s
    /\ Episode(s, rows[k].src, rows[k].from, rows[k].num)
DoorsKept(s, t) ==
  /\ t.cur # Nil => DoorRows(s, t.cur.rows)
  /\ \A iv \in Members(t.closed) : DoorRows(s, iv.rows)
DoorKnown(s, m, t) == t.door # Nil => Episode(s, m, t.door.opened, t.door.resets)

LEMMA PressedFinite ==
  ASSUME NEW s, NEW n \in Nat, NEW m \in Nat
  PROVE  IsFiniteSet(Pressed(s, n, m)) /\ Cardinality(Pressed(s, n, m)) \in Nat
<1>1. IsFiniteSet(n .. m)
  BY FS_Interval
<1>2. Pressed(s, n, m) \subseteq n .. m
  BY DEF Pressed
<1> QED
  BY <1>1, <1>2, FS_Subset, FS_CardinalityType

(* One row later: a reset counts, an opening edge starts over.             *)
LEMMA EpisodeNext ==
  ASSUME NEW s, NEW m \in Nat, NEW opened, NEW resets, Episode(s, m, opened, resets),
         ~OpensAt(s, m + 1)
  PROVE  /\ ~ResetsAt(s, m + 1) => Episode(s, m + 1, opened, resets)
         /\ ResetsAt(s, m + 1) => Episode(s, m + 1, opened, resets + 1)
<1>1. PICK n \in 1 .. m : EpisodeOf(s, n, m, opened, resets)
  BY DEF Episode
<1> DEFINE p == Pressed(s, n, m)
           q == Pressed(s, n, m + 1)
<1>2. /\ n \in Nat /\ n \in 1 .. m + 1 /\ OpensAt(s, n) /\ s[n].at = opened
      /\ resets = Cardinality(p)
  BY <1>1 DEF EpisodeOf
<1>3. \A k \in 1 .. m + 1 : OpensAt(s, k) => k <= n
  <2> SUFFICES ASSUME NEW k \in 1 .. m + 1, OpensAt(s, k) PROVE k <= n
    OBVIOUS
  <2>1. k # m + 1
    OBVIOUS
  <2>2. k \in 1 .. m
    BY <2>1
  <2> QED
    BY <1>1, <2>2 DEF EpisodeOf
<1>4. IsFiniteSet(p) /\ m + 1 \notin p
  <2>1. IsFiniteSet(p)
    BY <1>2, PressedFinite
  <2>2. m + 1 \notin n .. m
    BY <1>2
  <2> QED
    BY <2>1, <2>2 DEF Pressed
<1>5. ResetsAt(s, m + 1) => q = p \cup {m + 1}
  BY <1>2 DEF Pressed
<1>6. ~ResetsAt(s, m + 1) => q = p
  BY <1>2 DEF Pressed
<1> HIDE DEF p, q
<1>7. ResetsAt(s, m + 1) => Cardinality(q) = resets + 1
  BY <1>2, <1>4, <1>5, FS_AddElement
<1>8. ~ResetsAt(s, m + 1) => Cardinality(q) = resets
  BY <1>2, <1>6
<1>9. \A r : r = Cardinality(q) => EpisodeOf(s, n, m + 1, opened, r)
  BY <1>2, <1>3 DEF EpisodeOf, q
<1> QED
  BY <1>2, <1>7, <1>8, <1>9 DEF Episode

LEMMA EpisodeStarts ==
  ASSUME NEW s, NEW m \in Nat, OpensAt(s, m + 1)
  PROVE  Episode(s, m + 1, s[m + 1].at, 0)
<1>1. ~ResetsAt(s, m + 1)
  BY DEF OpensAt, ResetsAt, DoorOpened, ResetPressed
<1>2. Pressed(s, m + 1, m + 1) = {}
  BY <1>1 DEF Pressed
<1>3. m + 1 \in 1 .. m + 1 /\ \A k \in 1 .. m + 1 : k <= m + 1
  OBVIOUS
<1>4. EpisodeOf(s, m + 1, m + 1, s[m + 1].at, 0)
  BY <1>2, <1>3, FS_EmptySet DEF EpisodeOf
<1> QED
  BY <1>3, <1>4 DEF Episode

(* An episode is decided by the rows up to its end.                        *)
LEMMA EpisodeLater ==
  ASSUME NEW s, NEW q, NEW m \in Nat, \A n \in 1 .. m : q[n] = s[n], NEW opened, NEW resets,
         Episode(s, m, opened, resets)
  PROVE  Episode(q, m, opened, resets)
<1>1. PICK n \in 1 .. m : EpisodeOf(s, n, m, opened, resets)
  BY DEF Episode
<1>2. \A k \in 1 .. m : (OpensAt(q, k) <=> OpensAt(s, k)) /\ (ResetsAt(q, k) <=> ResetsAt(s, k))
  BY DEF OpensAt, ResetsAt
<1>3. Pressed(q, n, m) = Pressed(s, n, m)
  BY <1>2 DEF Pressed
<1>4. EpisodeOf(q, n, m, opened, resets)
  BY <1>1, <1>2, <1>3 DEF EpisodeOf
<1> QED
  BY <1>4 DEF Episode

LEMMA QuietDoors ==
  ASSUME NEW s, NEW rows, NEW new, Quiet(rows, new), DoorRows(s, rows)
  PROVE  DoorRows(s, new)
BY DEF Quiet, DoorRows, TimeTables

LEMMA CalmDoors ==
  ASSUME NEW s, NEW t, NEW u, t.cur # Nil, Calm(t, u), DoorsKept(s, t)
  PROVE  DoorsKept(s, u) /\ u.door = t.door
BY QuietDoors DEF Calm, Same, DoorsKept

LEMMA CloseIntervalDoors ==
  ASSUME NEW s, NEW t \in TrackerValue, DoorsKept(s, t), NEW at \in Nat, NEW forced \in ForcedResults
  PROVE  /\ DoorsKept(s, CloseInterval(t, at, forced))
         /\ CloseInterval(t, at, forced).door = t.door
<1> DEFINE u == CloseInterval(t, at, forced)
           c == Emptied(t, at)
<1>1. CASE t.cur = Nil
  BY <1>1, CloseIntervalNothing
<1>2. CASE t.cur # Nil
  <2>1. DoorRows(s, c.cur.rows)
    BY <1>2, EmptiedCalm, CalmDoors DEF Calm, DoorsKept
  <2>2. /\ u.cur = Nil /\ u.door = t.door
        /\ \/ u.closed = t.closed
           \/ \E iv \in Interval : u.closed = Append(t.closed, iv) /\ EmittedAs(t, at, forced, iv)
    BY <1>2, CloseIntervalShape
  <2>3. \A iv : EmittedAs(t, at, forced, iv) => iv.rows = c.cur.rows
    BY DEF EmittedAs
  <2> SUFFICES DoorsKept(s, u)
    BY <2>2
  <2> HIDE DEF u, c
  <2>4. CASE u.closed = t.closed
    BY <2>2, <2>4 DEF DoorsKept
  <2>5. ASSUME NEW iv \in Interval, u.closed = Append(t.closed, iv), EmittedAs(t, at, forced, iv)
        PROVE  DoorsKept(s, u)
    <3>1. Members(u.closed) = Members(t.closed) \cup {iv}
      BY <2>5, TrackerFields, MembersOfAppend
    <3> QED
      BY <2>1, <2>2, <2>3, <2>5, <3>1 DEF DoorsKept
  <2> QED
    BY <2>2, <2>4, <2>5
<1> QED
  BY <1>1, <1>2

LEMMA EnsureDoors ==
  ASSUME NEW s, NEW t \in TrackerValue, DoorsKept(s, t), NEW key \in KeysOrNone, NEW state,
         NEW at \in Nat
  PROVE  /\ DoorsKept(s, EnsureInterval(t, key, state, at))
         /\ EnsureInterval(t, key, state, at).door = t.door
<1> DEFINE u == EnsureInterval(t, key, state, at)
           want == ResultForState(state)
<1>1. CASE u = t
  BY <1>1
<1>2. ASSUME NEW forced \in ForcedResults,
             u = OpenInterval(CloseInterval(t, at, forced), key, want, at)
      PROVE  DoorsKept(s, u) /\ u.door = t.door
  <2> DEFINE c == CloseInterval(t, at, forced)
  <2>1. c \in TrackerValue /\ c.cur = Nil /\ DoorsKept(s, c) /\ c.door = t.door
    BY CloseIntervalQueue, CloseIntervalDoors
  <2>2. want \in SynthResults
    BY ResultForStateType
  <2> HIDE DEF c, want
  <2>3. LET v == OpenInterval(c, key, want, at)
        IN  v.closed = c.closed /\ v.cur.rows = <<>> /\ v.door = c.door
    BY <2>1, <2>2, OpenIntervalFields
  <2>4. u.closed = c.closed /\ u.cur.rows = <<>> /\ u.door = c.door
    BY <1>2, <2>3 DEF c
  <2> HIDE DEF u
  <2>5. DOMAIN u.cur.rows = {}
    BY <2>4
  <2> QED
    BY <2>1, <2>4, <2>5 DEF DoorsKept, DoorRows
<1> QED
  BY <1>1, <1>2, EnsureShape

LEMMA AddedDoors ==
  ASSUME NEW s, NEW t \in TrackerValue, t.cur # Nil, DoorsKept(s, t), NEW r \in Row,
         r.table = "door_events" => r.src \in DOMAIN s /\ Episode(s, r.src, r.from, r.num),
         NEW u, u.cur.rows = Append(t.cur.rows, r), u.closed = t.closed
  PROVE  DoorsKept(s, u)
<1>1. DoorRows(s, u.cur.rows)
  BY RowsOfOpen, RowAppended DEF DoorRows, DoorsKept
<1> QED
  BY <1>1 DEF DoorsKept

LEMMA SameRowsDoors ==
  ASSUME NEW s, NEW t, DoorsKept(s, t), t.cur # Nil, NEW u, u.cur.rows = t.cur.rows,
         u.closed = t.closed
  PROVE  DoorsKept(s, u)
BY DEF DoorsKept

(* Handlers: only a toggle moves the episode.                              *)
LEMMA OrderDoors ==
  ASSUME NEW s, NEW t \in TrackerValue, DoorsKept(s, t), NEW o \in OrderShape, NEW at \in Nat
  PROVE  DoorsKept(s, ApplyOrder(t, o, at)) /\ ApplyOrder(t, o, at).door = t.door
<1> DEFINE v == EnsureInterval(t, o.key, "AutoCycle", at)
           u == [v EXCEPT !.cur.recipe = TRUE]
<1>1. o.key \in KeysOrNone
  BY DEF OrderShape, KeysOrNone
<1>2. v \in TrackerValue /\ v.cur # Nil /\ DoorsKept(s, v) /\ v.door = t.door
  BY <1>1, EnsureFits, EnsureDoors
<1> HIDE DEF v
<1>3. u.cur.rows = v.cur.rows /\ u.closed = v.closed /\ u.door = v.door
  BY <1>2, RecipeShape
<1> HIDE DEF u
<1>4. DoorsKept(s, u)
  BY <1>2, <1>3, SameRowsDoors
<1> QED
  BY <1>2, <1>3, <1>4 DEF ApplyOrder, u, v

LEMMA EventDoors ==
  ASSUME NEW s, NEW t \in TrackerValue, DoorsKept(s, t), NEW e \in EventShape, NEW at \in Nat
  PROVE  DoorsKept(s, ApplyFSMEvent(t, e, at)) /\ ApplyFSMEvent(t, e, at).door = t.door
<1> DEFINE v == EnsureInterval(t, e.key, e.state, at)
           p == TrackStateSpan(v, e, at)
           d == IF UseStepRuns THEN p ELSE TrackDwell(p, e, at)
           u == CloseInterval(d, at, "completed")
<1>1. e.key \in KeysOrNone
  BY DEF EventShape, KeysOrNone
<1>2. v \in TrackerValue /\ v.cur # Nil /\ DoorsKept(s, v) /\ v.door = t.door
  BY <1>1, EnsureFits, EnsureDoors
<1> HIDE DEF v
<1>3. Calm(v, p) /\ p \in TrackerValue /\ p.cur # Nil
  BY <1>2, TrackStateSpanCalm DEF Calm
<1> HIDE DEF p
<1>4. Calm(p, d)
  BY <1>3, TrackDwellCalm, CalmStill
<1> HIDE DEF d
<1>5. Calm(v, d) /\ d \in TrackerValue
  BY <1>3, <1>4, CalmTrans DEF Calm
<1>6. DoorsKept(s, d) /\ d.door = t.door
  BY <1>2, <1>5, CalmDoors
<1>7. DoorsKept(s, u) /\ u.door = t.door
  BY <1>5, <1>6, CloseIntervalDoors, ForcedResultsType
<1> QED
  BY <1>6, <1>7 DEF ApplyFSMEvent, u, d, p, v

LEMMA FaultDoors ==
  ASSUME NEW s, NEW t \in TrackerValue, DoorsKept(s, t), NEW f \in FaultShape, NEW at \in Nat,
         NEW id \in Nat
  PROVE  DoorsKept(s, ApplyFault(t, f, at, id)) /\ ApplyFault(t, f, at, id).door = t.door
<1> DEFINE v == EnsureInterval(t, f.key, f.state, at)
           w == RecordLedgerFault(v, f.type, at)
           main == w.dwell["main"]
           num == IF main = Nil THEN NoStep ELSE main.seq
           row == FaultRow(f.type, at, id, num)
           a == AddRow(w, row)
           u == CloseInterval(a, at, FaultResult(f.type))
<1>1. f.key \in KeysOrNone /\ f.type \in STRING
  BY DEF FaultShape, KeysOrNone
<1>2. v \in TrackerValue /\ v.cur # Nil /\ DoorsKept(s, v) /\ v.door = t.door
  BY <1>1, EnsureFits, EnsureDoors
<1> HIDE DEF v
<1>3. /\ w \in TrackerValue /\ w.cur # Nil /\ w.cur = v.cur /\ w.closed = v.closed
      /\ w.door = t.door
  BY <1>1, <1>2, LedgerShape
<1> HIDE DEF w
<1>4. DoorsKept(s, w)
  BY <1>2, <1>3, SameRowsDoors
<1>5. num \in NatOrNull
  BY <1>3, SeqTypes DEF NatOrNull, Lanes
<1> HIDE DEF num
<1>6. row \in Row /\ row.table # "door_events"
  <2>1. row \in Row
    BY <1>1, <1>5, RowTypes
  <2> QED
    BY <2>1 DEF FaultRow
<1> HIDE DEF row
<1>7. /\ a \in TrackerValue /\ a.cur.rows = Append(w.cur.rows, row) /\ a.closed = w.closed
      /\ a.door = w.door
  BY <1>3, <1>6, AddRowShape
<1> HIDE DEF a
<1>8. DoorsKept(s, a) /\ a.door = t.door
  BY <1>3, <1>4, <1>6, <1>7, AddedDoors
<1>9. DoorsKept(s, u) /\ u.door = t.door
  <2>1. FaultResult(f.type) \in ForcedResults
    BY ForcedResultsType
  <2> QED
    BY <1>7, <1>8, <2>1, CloseIntervalDoors
<1> QED
  BY <1>8, <1>9 DEF ApplyFault, u, a, row, num, main, w, v

LEMMA ConfigDoors ==
  ASSUME NEW s, NEW t \in TrackerValue, DoorsKept(s, t), NEW k \in STRING, NEW at \in Nat,
         NEW id \in Nat
  PROVE  /\ DoorsKept(s, ApplyConfigChange(t, k, at, id))
         /\ ApplyConfigChange(t, k, at, id).door = t.door
<1> DEFINE state == IF t.cur # Nil /\ ~t.cur.prod THEN t.cur.result ELSE ""
           v == EnsureInterval(t, NoKey, state, at)
           row == ConfigRow(k, at, id)
           u == AddRow(v, row)
<1> HIDE DEF state
<1>1. NoKey \in KeysOrNone
  BY DEF KeysOrNone
<1>2. v \in TrackerValue /\ v.cur # Nil /\ DoorsKept(s, v) /\ v.door = t.door
  BY <1>1, EnsureFits, EnsureDoors
<1> HIDE DEF v
<1>3. row \in Row /\ row.table # "door_events"
  <2>1. 0 \in NatOrNull
    BY DEF NatOrNull
  <2>2. row \in Row
    BY <2>1, RowTypes
  <2> QED
    BY <2>2 DEF ConfigRow
<1> HIDE DEF row
<1>4. u.cur.rows = Append(v.cur.rows, row) /\ u.closed = v.closed /\ u.door = v.door
  BY <1>2, <1>3, AddRowShape
<1> HIDE DEF u
<1>5. DoorsKept(s, u)
  BY <1>2, <1>3, <1>4, AddedDoors
<1> QED
  BY <1>2, <1>4, <1>5 DEF ApplyConfigChange, u, row, v, state

LEMMA FlushDoors ==
  ASSUME NEW s, NEW t \in TrackerValue, DoorsKept(s, t), NEW now \in Nat
  PROVE  DoorsKept(s, FlushOpen(t, now)) /\ FlushOpen(t, now).door = t.door
<1>1. CASE t.cur = Nil
  BY <1>1 DEF FlushOpen
<1>2. CASE t.cur # Nil
  <2> DEFINE end == IF now <= t.cur.start THEN t.cur.start + 1 ELSE now
  <2>1. end \in Nat /\ Capped(t) \in ForcedResults
    <3>1. t.cur.start \in Nat /\ t.cur.start + 1 \in Nat
      BY <1>2, TrackerFields, IntervalFields
    <3> QED
      BY <1>2, <3>1, ForcedResultsType DEF Capped
  <2>2. FlushOpen(t, now) = CloseInterval(t, end, Capped(t))
    BY <1>2 DEF FlushOpen, Capped
  <2> HIDE DEF end
  <2> QED
    BY <1>2, <2>1, <2>2, CloseIntervalDoors
<1> QED
  BY <1>1, <1>2

LEMMA StepRunDoors ==
  ASSUME NEW s, NEW t \in TrackerValue, DoorsKept(s, t), NEW sr \in StepRunShape,
         NEW at \in Nat, sr.len <= at, NEW id \in Nat
  PROVE  DoorsKept(s, ApplyStepRun(t, sr, at, id)) /\ ApplyStepRun(t, sr, at, id).door = t.door
<1> DEFINE in == EnsureInterval(t, sr.key, sr.state, at - sr.len)
           c == StepRunCounted(in, sr)
           r == StepRunRow(in, sr, at)
           num == in.seq[LaneForState(sr.state)]
           d == StepRunDwelt(in, sr, at)
           f == FaultRow(sr.fault, at, id, num)
           a == AddRow(d, f)
           x == CloseInterval(a, at, FaultResult(sr.fault))
           done == StepRunDone(in, sr, at, id)
           y == CloseInterval(done, at, "completed")
<1>1. in \in TrackerValue /\ in.cur # Nil /\ DoorsKept(s, in) /\ in.door = t.door
  <2>1. at - sr.len \in Nat /\ sr.key \in KeysOrNone
    <3>1. sr.len \in Nat /\ sr.key \in KeysOrNone
      BY DEF StepRunShape, KeysOrNone
    <3> QED
      BY <3>1
  <2> QED
    BY <2>1, EnsureFits, EnsureDoors
<1> HIDE DEF in
<1>2. /\ r \in Row /\ c \in TrackerValue /\ c.cur # Nil /\ d \in TrackerValue /\ d.cur # Nil
      /\ num \in Nat /\ done \in TrackerValue /\ LaneForState(sr.state) \in Lanes
  BY <1>1, StepRunPieces
<1>3. c.cur = in.cur /\ c.closed = in.closed /\ c.door = in.door
  BY <1>1, <1>2, CountedShape DEF StepRunCounted
<1>4. r.table # "door_events"
  BY DEF StepRunRow, DwellRow
<1>5. d.cur.rows = Append(c.cur.rows, r) /\ d.closed = c.closed /\ d.door = c.door
  BY <1>2, AddRowShape DEF StepRunDwelt
<1>6. f \in Row /\ f.table # "door_events"
  <2>1. sr.fault \in STRING /\ num \in NatOrNull
    BY <1>2 DEF StepRunShape, NatOrNull
  <2> HIDE DEF num
  <2>2. f \in Row
    BY <2>1, RowTypes
  <2> QED
    BY <2>2 DEF FaultRow
<1>7. done = d \/ done = a \/ done = x
  BY DEF StepRunDone, ApplyStepRunFault
<1> HIDE DEF c, r, d, f, done, num
<1>8. DoorsKept(s, c) /\ c.door = t.door
  BY <1>1, <1>3, SameRowsDoors
<1>9. DoorsKept(s, d) /\ d.door = t.door
  BY <1>2, <1>4, <1>5, <1>8, AddedDoors
<1>10. /\ a \in TrackerValue /\ a.cur.rows = Append(d.cur.rows, f) /\ a.closed = d.closed
       /\ a.door = d.door
  BY <1>2, <1>6, AddRowShape
<1> HIDE DEF a
<1>11. DoorsKept(s, a) /\ a.door = t.door
  BY <1>2, <1>6, <1>9, <1>10, AddedDoors
<1>12. DoorsKept(s, x) /\ x.door = t.door
  <2>1. FaultResult(sr.fault) \in ForcedResults
    BY ForcedResultsType
  <2> QED
    BY <1>10, <1>11, <2>1, CloseIntervalDoors
<1> HIDE DEF x
<1>13. DoorsKept(s, done) /\ done.door = t.door
  BY <1>7, <1>9, <1>11, <1>12
<1>14. DoorsKept(s, y) /\ y.door = t.door
  BY <1>2, <1>13, CloseIntervalDoors, ForcedResultsType
<1> QED
  BY <1>1, <1>8, <1>13, <1>14, StepRunShapes DEF in, c, done, y

(* A toggle, the row m + 1 of s. *)
LEMMA ToggleDoors ==
  ASSUME NEW s, NEW t \in TrackerValue, DoorsKept(s, t), NEW m \in Nat, DoorKnown(s, m, t),
         NEW g \in ToggleShape, NEW at \in Nat,
         m + 1 \in DOMAIN s, s[m + 1] = [kind |-> "toggle", row |-> g, at |-> at]
  PROVE  /\ DoorsKept(s, ApplySensorToggle(t, g, at, m + 1))
         /\ DoorKnown(s, m + 1, ApplySensorToggle(t, g, at, m + 1))
<1> DEFINE n == m + 1
           v == EnsureInterval(t, g.key, g.state, at)
           d == ApplyDoorSignals(v, g, at, n)
           row == ToggleRow(g.input, at, n)
           door == DoorRow(v.door, at, n)
           u == AddRow(d, row)
<1>0. n \in Nat /\ n \in DOMAIN s
  OBVIOUS
<1>1. g.key \in KeysOrNone /\ g.input \in STRING
  BY DEF ToggleShape, KeysOrNone
<1>2. v \in TrackerValue /\ v.cur # Nil /\ DoorsKept(s, v) /\ v.door = t.door
  BY <1>1, EnsureFits, EnsureDoors
<1>3. /\ OpensAt(s, n) <=> DoorOpened(g)
      /\ ResetsAt(s, n) <=> ResetPressed(g)
      /\ s[n].at = at
  BY DEF OpensAt, ResetsAt
<1>4. /\ DoorClosed(g) => ~DoorOpened(g) /\ ~ResetPressed(g)
      /\ DoorOpened(g) => ~ResetPressed(g)
  BY DEF DoorOpened, DoorClosed, ResetPressed
<1> HIDE DEF v
<1>5. DoorKnown(s, m, v)
  BY <1>2 DEF DoorKnown
<1>6. ASSUME v.door # Nil, ~DoorOpened(g)
      PROVE  /\ ~ResetPressed(g) => Episode(s, n, v.door.opened, v.door.resets)
             /\ ResetPressed(g) => Episode(s, n, v.door.opened, v.door.resets + 1)
  <2>1. Episode(s, m, v.door.opened, v.door.resets) /\ ~OpensAt(s, m + 1)
    BY <1>3, <1>5, <1>6 DEF DoorKnown
  <2> QED
    BY <1>3, <2>1, EpisodeNext
<1>7. DoorOpened(g) => Episode(s, n, at, 0)
  <2>1. DoorOpened(g) => OpensAt(s, m + 1)
    BY <1>3
  <2>2. s[m + 1].at = at
    OBVIOUS
  <2> QED
    BY <2>1, <2>2, EpisodeStarts
<1>8. d \in TrackerValue /\ DoorStep(v, d, g, at, n)
  BY <1>0, <1>2, DoorSignalsShape
<1>9. /\ row.table # "door_events"
      /\ door.src = n /\ door.from = v.door.opened /\ door.num = v.door.resets
  BY DEF DoorRow, ToggleRow
<1> HIDE DEF d, door, n
<1>10. /\ d.cur # Nil /\ d.closed = v.closed
       /\ \/ d.cur = v.cur
          \/ /\ DoorClosed(g) /\ v.door # Nil
             /\ door \in Row /\ d.cur.rows = Append(v.cur.rows, door)
  BY <1>8 DEF DoorStep, door
<1>11. DoorsKept(s, d)
  <2>1. CASE d.cur = v.cur
    BY <1>2, <1>10, <2>1, SameRowsDoors
  <2>2. CASE DoorClosed(g) /\ v.door # Nil /\ door \in Row /\ d.cur.rows = Append(v.cur.rows, door)
    <3>1. door.src \in DOMAIN s /\ Episode(s, door.src, door.from, door.num)
      BY <1>0, <1>4, <1>6, <1>9, <2>2
    <3> QED
      BY <1>2, <1>10, <2>2, <3>1, AddedDoors
  <2> QED
    BY <1>10, <2>1, <2>2
<1>12. DoorKnown(s, n, d)
  <2>1. CASE DoorOpened(g)
    <3>1. d.door = [opened |-> at, resets |-> 0]
      BY <1>8, <2>1 DEF DoorStep
    <3>2. d.door.opened = at /\ d.door.resets = 0
      BY <3>1
    <3> QED
      BY <1>7, <2>1, <3>2 DEF DoorKnown
  <2>2. CASE ~DoorOpened(g) /\ DoorClosed(g)
    BY <1>8, <2>2 DEF DoorStep, DoorKnown
  <2>3. CASE ~DoorOpened(g) /\ ~DoorClosed(g) /\ ResetPressed(g) /\ v.door # Nil
    <3>1. d.door = [v.door EXCEPT !.resets = @ + 1] /\ v.door \in Door
      BY <1>2, <1>8, <2>3, TrackerFields DEF DoorStep
    <3>2. d.door.opened = v.door.opened /\ d.door.resets = v.door.resets + 1
      BY <3>1 DEF Door
    <3> QED
      BY <1>6, <2>3, <3>2 DEF DoorKnown
  <2>4. CASE ~DoorOpened(g) /\ ~DoorClosed(g) /\ ~(ResetPressed(g) /\ v.door # Nil)
    <3>1. d.door = v.door
      BY <1>8, <2>4 DEF DoorStep
    <3> QED
      BY <1>6, <2>4, <3>1 DEF DoorKnown
  <2> QED
    BY <2>1, <2>2, <2>3, <2>4
<1>13. row \in Row
  <2>1. 0 \in NatOrNull
    BY DEF NatOrNull
  <2> QED
    BY <1>0, <1>1, <2>1, RowTypes
<1> HIDE DEF row
<1>14. u.cur.rows = Append(d.cur.rows, row) /\ u.closed = d.closed /\ u.door = d.door
  BY <1>8, <1>10, <1>13, AddRowShape
<1> HIDE DEF u
<1>15. DoorsKept(s, u)
  BY <1>8, <1>9, <1>10, <1>11, <1>13, <1>14, AddedDoors
<1>16. DoorKnown(s, n, u)
  BY <1>12, <1>14 DEF DoorKnown
<1> QED
  BY <1>15, <1>16 DEF ApplySensorToggle, u, row, d, v, n

DoorInv ==
  /\ DoorsKept(fed, trk) /\ DoorKnown(fed, Len(fed), trk)
  /\ \A iv \in Members(out) : DoorRows(fed, iv.rows)

(* Later rows leave earlier episodes alone.                                *)
LEMMA DoorRowsLater ==
  ASSUME NEW s, NEW q, DOMAIN s \subseteq Nat,
         \A n \in DOMAIN s : n \in DOMAIN q /\ \A m \in 1 .. n : q[m] = s[m]
  PROVE  /\ \A rows : DoorRows(s, rows) => DoorRows(q, rows)
         /\ \A t : DoorsKept(s, t) => DoorsKept(q, t)
<1>1. ASSUME NEW rows, DoorRows(s, rows) PROVE DoorRows(q, rows)
  <2> SUFFICES ASSUME NEW k \in DOMAIN rows, rows[k].table = "door_events"
               PROVE  /\ rows[k].src \in DOMAIN q
                      /\ Episode(q, rows[k].src, rows[k].from, rows[k].num)
    BY DEF DoorRows
  <2>1. rows[k].src \in DOMAIN s /\ Episode(s, rows[k].src, rows[k].from, rows[k].num)
    BY <1>1 DEF DoorRows
  <2>2. rows[k].src \in Nat /\ \A m \in 1 .. rows[k].src : q[m] = s[m]
    BY <2>1
  <2> QED
    BY <2>1, <2>2, EpisodeLater
<1> QED
  BY <1>1 DEF DoorsKept

LEMMA DoorStepInv ==
  ASSUME TypeOK, DoorInv, [Next]_vars
  PROVE  DoorInv'
<1>1. /\ trk \in TrackerValue /\ latest \in Nat /\ NextId \in Nat
      /\ fed \in Seq(FedRow) /\ Len(fed) \in Nat /\ NextId = Len(fed) + 1
      /\ DOMAIN fed = 1 .. Len(fed)
  BY NextIdType, LenProperties DEF TypeOK, NextId
<1>2. ASSUME NEW kind, NEW row, NEW at, Fed(kind, row, at)
      PROVE  /\ DoorsKept(fed', trk) /\ DoorKnown(fed', Len(fed), trk)
             /\ NextId \in DOMAIN fed' /\ fed'[NextId] = [kind |-> kind, row |-> row, at |-> at]
             /\ (DoorsKept(fed', trk') /\ DoorKnown(fed', NextId, trk')) => DoorInv'
             /\ (kind # "toggle" /\ DoorsKept(fed', trk') /\ trk'.door = trk.door) => DoorInv'
  <2>1. /\ NextId \in DOMAIN fed' /\ fed'[NextId] = [kind |-> kind, row |-> row, at |-> at]
        /\ \A n \in DOMAIN fed : n \in DOMAIN fed' /\ fed'[n] = fed[n]
    BY <1>2, FedMore
  <2>2. Len(fed') = NextId
    BY <1>1, <1>2 DEF Fed
  <2>3. /\ \A rows : DoorRows(fed, rows) => DoorRows(fed', rows)
        /\ \A t : DoorsKept(fed, t) => DoorsKept(fed', t)
    <3>1. \A n \in DOMAIN fed : n \in DOMAIN fed' /\ \A m \in 1 .. n : fed'[m] = fed[m]
      BY <1>1, <2>1
    <3>2. DOMAIN fed \subseteq Nat
      BY <1>1
    <3> QED
      BY <3>1, <3>2, DoorRowsLater
  <2>4. DoorKnown(fed', Len(fed), trk)
    <3>1. \A m \in 1 .. Len(fed) : fed'[m] = fed[m]
      BY <1>1, <2>1
    <3> QED
      BY <1>1, <3>1, EpisodeLater DEF DoorInv, DoorKnown
  <2>5. out' = out
    BY <1>2 DEF Fed
  <2>6. \A iv \in Members(out') : DoorRows(fed', iv.rows)
    BY <2>3, <2>5 DEF DoorInv
  <2>7. ASSUME DoorsKept(fed', trk'), DoorKnown(fed', NextId, trk') PROVE DoorInv'
    BY <2>2, <2>6, <2>7 DEF DoorInv
  <2>8. ASSUME kind # "toggle", trk'.door = trk.door PROVE DoorKnown(fed', NextId, trk')
    <3> SUFFICES ASSUME trk.door # Nil
                 PROVE  Episode(fed', NextId, trk.door.opened, trk.door.resets)
      BY <2>8 DEF DoorKnown
    <3>1. ~OpensAt(fed', NextId) /\ ~ResetsAt(fed', NextId)
      BY <2>1, <2>8 DEF OpensAt, ResetsAt
    <3>2. Episode(fed', Len(fed), trk.door.opened, trk.door.resets)
      BY <2>4 DEF DoorKnown
    <3> QED
      BY <1>1, <3>1, <3>2, EpisodeNext
  <2> QED
    BY <2>1, <2>3, <2>4, <2>7, <2>8 DEF DoorInv
<1>3. ASSUME NEW at \in 0 .. MaxTime, NEW o \in Orders, OrderArrives(o, at) PROVE DoorInv'
  <2>1. o \in OrderShape /\ at \in Nat
    BY SourceShapes DEF SourceShapes
  <2>2. Fed("order", o, at) /\ trk' = ApplyOrder(trk, o, at)
    BY <1>3 DEF OrderArrives
  <2>3. DoorsKept(fed', trk)
    BY <1>2, <2>2
  <2>4. DoorsKept(fed', trk') /\ trk'.door = trk.door
    BY <1>1, <2>1, <2>2, <2>3, OrderDoors
  <2>5. "order" # "toggle"
    OBVIOUS
  <2> QED
    BY <1>2, <2>2, <2>4, <2>5
<1>4. ASSUME NEW at \in 0 .. MaxTime, NEW e \in Events, EventArrives(e, at) PROVE DoorInv'
  <2>1. e \in EventShape /\ at \in Nat
    BY SourceShapes DEF SourceShapes
  <2>2. Fed("event", e, at) /\ trk' = ApplyFSMEvent(trk, e, at)
    BY <1>4 DEF EventArrives
  <2>3. DoorsKept(fed', trk)
    BY <1>2, <2>2
  <2>4. DoorsKept(fed', trk') /\ trk'.door = trk.door
    BY <1>1, <2>1, <2>2, <2>3, EventDoors
  <2>5. "event" # "toggle"
    OBVIOUS
  <2> QED
    BY <1>2, <2>2, <2>4, <2>5
<1>5. ASSUME NEW at \in 0 .. MaxTime, NEW f \in Faults, FaultArrives(f, at) PROVE DoorInv'
  <2>1. f \in FaultShape /\ at \in Nat
    BY SourceShapes DEF SourceShapes
  <2>2. Fed("fault", f, at) /\ trk' = ApplyFault(trk, f, at, NextId)
    BY <1>5 DEF FaultArrives
  <2>3. DoorsKept(fed', trk)
    BY <1>2, <2>2
  <2>4. DoorsKept(fed', trk') /\ trk'.door = trk.door
    BY <1>1, <2>1, <2>2, <2>3, FaultDoors
  <2>5. "fault" # "toggle"
    OBVIOUS
  <2> QED
    BY <1>2, <2>2, <2>4, <2>5
<1>6. ASSUME NEW at \in 0 .. MaxTime, NEW s \in Toggles, ToggleArrives(s, at) PROVE DoorInv'
  <2>1. s \in ToggleShape /\ at \in Nat
    BY SourceShapes DEF SourceShapes
  <2>2. Fed("toggle", s, at) /\ trk' = ApplySensorToggle(trk, s, at, Len(fed) + 1)
    BY <1>1, <1>6 DEF ToggleArrives
  <2>3. /\ DoorsKept(fed', trk) /\ DoorKnown(fed', Len(fed), trk)
        /\ Len(fed) + 1 \in DOMAIN fed'
        /\ fed'[Len(fed) + 1] = [kind |-> "toggle", row |-> s, at |-> at]
    BY <1>1, <1>2, <2>2
  <2>4. DoorsKept(fed', trk') /\ DoorKnown(fed', Len(fed) + 1, trk')
    BY <1>1, <2>1, <2>2, <2>3, ToggleDoors
  <2> QED
    BY <1>1, <1>2, <2>2, <2>4
<1>7. ASSUME NEW at \in 0 .. MaxTime, NEW sr \in StepRuns, StepRunArrives(sr, at) PROVE DoorInv'
  <2>1. sr \in StepRunShape /\ at \in Nat
    BY SourceShapes DEF SourceShapes
  <2>2. Fed("step_run", sr, at) /\ trk' = ApplyStepRun(trk, sr, at, NextId) /\ sr.len <= at
    BY <1>7 DEF StepRunArrives
  <2>3. DoorsKept(fed', trk)
    BY <1>2, <2>2
  <2>4. DoorsKept(fed', trk') /\ trk'.door = trk.door
    BY <1>1, <2>1, <2>2, <2>3, StepRunDoors
  <2>5. "step_run" # "toggle"
    OBVIOUS
  <2> QED
    BY <1>2, <2>2, <2>4, <2>5
<1>8. ASSUME NEW k \in ConfigKeys, ConfigChanges(k) PROVE DoorInv'
  <2>1. k \in STRING
    BY SourceShapes DEF SourceShapes
  <2>2. Fed("config", [config |-> k], latest) /\ trk' = ApplyConfigChange(trk, k, latest, NextId)
    BY <1>8 DEF ConfigChanges
  <2>3. DoorsKept(fed', trk)
    BY <1>2, <2>2
  <2>4. DoorsKept(fed', trk') /\ trk'.door = trk.door
    BY <1>1, <2>1, <2>2, <2>3, ConfigDoors
  <2>5. "config" # "toggle"
    OBVIOUS
  <2> QED
    BY <1>2, <2>2, <2>4, <2>5
<1>9. CASE Take
  <2>1. trk.closed \in Seq(Interval) /\ out \in Seq(Interval) /\ SortByEnd(trk.closed) \in Seq(Interval)
    BY <1>1, TrackerFields, SortByEndType DEF TypeOK
  <2>2. Members(out') \subseteq Members(out) \cup Members(trk.closed)
    BY <1>9, <2>1, MembersOfConcat, SortByEndMembers DEF Take
  <2>3. trk'.closed = <<>> /\ trk'.cur = trk.cur /\ trk'.door = trk.door /\ fed' = fed
    BY <1>1, <1>9 DEF Take, TakePending, TrackerValue
  <2>4. Members(trk'.closed) = {}
    BY <2>3 DEF Members
  <2>5. DoorsKept(fed', trk') /\ DoorKnown(fed', Len(fed'), trk')
    BY <2>3, <2>4 DEF DoorInv, DoorsKept, DoorKnown
  <2>6. \A iv \in Members(out') : DoorRows(fed', iv.rows)
    BY <2>2, <2>3 DEF DoorInv, DoorsKept
  <2> QED
    BY <2>5, <2>6 DEF DoorInv
<1>10. CASE Shutdown
  <2>1. DoorsKept(fed, trk') /\ trk'.door = trk.door /\ fed' = fed /\ out' = out
    BY <1>1, <1>10, FlushDoors DEF Shutdown, DoorInv
  <2> QED
    BY <2>1 DEF DoorInv, DoorKnown
<1>11. CASE UNCHANGED vars
  BY <1>11 DEF vars, DoorInv
<1> QED
  BY <1>3, <1>4, <1>5, <1>6, <1>7, <1>8, <1>9, <1>10, <1>11 DEF Next

(* A door episode counts exactly the resets pressed while it lasted, from  *)
(* the last opening edge to the closing one, whatever closed and opened    *)
(* the intervals in between.                                               *)
THEOREM ResetsCounted == Spec => []DoorResetsExact
<1>1. Init => DoorInv
  <2> SUFFICES ASSUME Init PROVE DoorInv
    OBVIOUS
  <2>1. trk.cur = Nil /\ trk.closed = <<>> /\ out = <<>> /\ trk.door = Nil
    BY DEF Init, NewTracker
  <2>2. Members(trk.closed) = {} /\ Members(out) = {}
    BY <2>1 DEF Members
  <2> QED
    BY <2>1, <2>2 DEF DoorInv, DoorsKept, DoorKnown
<1>2. TypeOK /\ DoorInv /\ [Next]_vars => DoorInv'
  BY DoorStepInv
<1>3. TypeOK /\ DoorInv => DoorResetsExact
  <2> SUFFICES ASSUME TypeOK, DoorInv PROVE DoorResetsExact
    OBVIOUS
  <2>1. trk.closed \in Seq(Interval) /\ out \in Seq(Interval)
    BY TrackerFields DEF TypeOK
  <2>2. ASSUME NEW i \in DOMAIN Done PROVE DoorRows(fed, Done[i].rows)
    <3>1. Done[i] \in Members(out) \cup Members(trk.closed)
      BY <2>1, <2>2, MembersOfConcat DEF Done, Members
    <3> QED
      BY <3>1 DEF DoorInv, DoorsKept
  <2>3. ASSUME NEW i \in DOMAIN Done, NEW k \in RowsOf(Done[i], "door_events")
        PROVE  \E n \in {m \in 1 .. Done[i].rows[k].src : OpensAt(fed, m)} :
                 /\ \A m \in {j \in 1 .. Done[i].rows[k].src : OpensAt(fed, j)} : m <= n
                 /\ fed[n].at = Done[i].rows[k].from
                 /\ Done[i].rows[k].num = Cardinality({m \in n .. Done[i].rows[k].src : ResetsAt(fed, m)})
    <3>1. Episode(fed, Done[i].rows[k].src, Done[i].rows[k].from, Done[i].rows[k].num)
      BY <2>2, <2>3 DEF DoorRows, RowsOf
    <3> DEFINE r == Done[i].rows[k]
    <3> HIDE DEF r
    <3>2. PICK n \in 1 .. r.src : EpisodeOf(fed, n, r.src, r.from, r.num)
      BY <3>1 DEF Episode, r
    <3>3. /\ n \in {m \in 1 .. r.src : OpensAt(fed, m)}
          /\ \A m \in {j \in 1 .. r.src : OpensAt(fed, j)} : m <= n
          /\ fed[n].at = r.from
          /\ r.num = Cardinality({m \in n .. r.src : ResetsAt(fed, m)})
      BY <3>2 DEF EpisodeOf, Pressed
    <3> QED
      BY <3>3 DEF r
  <2> QED
    BY <2>3 DEF DoorResetsExact, OpensAt, ResetsAt
<1> QED
  BY <1>1, <1>2, <1>3, TypeCorrect, PTL DEF Spec

-----------------------------------------------------------------------------
(* Nothing lost.  A handler puts its row into the interval it leaves open, *)
(* a new interval opens no earlier than any row so far, and closing adds   *)
(* rows and takes none away.                                               *)

HasCopy(rows, table, n) == \E k \in DOMAIN rows : rows[k].table = table /\ rows[k].src = n

(* A row of this kind, and younger than start, is to be found copied. *)
Owed(r, start) == r.kind \in OneToOne /\ start < r.at

CopiesIn(s, iv) ==
  \A n \in DOMAIN s : Owed(s[n], iv.start) /\ s[n].at < iv.end
                        => HasCopy(iv.rows, TableOf[s[n].kind], n)
CopiesOpen(s, t) ==
  t.cur # Nil => \A n \in DOMAIN s : Owed(s[n], t.cur.start)
                                       => HasCopy(t.cur.rows, TableOf[s[n].kind], n)
Copied(s, t) == CopiesOpen(s, t) /\ \A iv \in Members(t.closed) : CopiesIn(s, iv)

Past(s, at) == \A n \in DOMAIN s : s[n].at \in Nat /\ s[n].at <= at

Grown(rows, new) == \A k \in DOMAIN rows : k \in DOMAIN new /\ new[k] = rows[k]

LEMMA GrownCopies ==
  ASSUME NEW rows, NEW new, Grown(rows, new)
  PROVE  \A table, n : HasCopy(rows, table, n) => HasCopy(new, table, n)
<1> SUFFICES ASSUME NEW table, NEW n, HasCopy(rows, table, n) PROVE HasCopy(new, table, n)
  OBVIOUS
<1>1. PICK k \in DOMAIN rows : rows[k].table = table /\ rows[k].src = n
  BY DEF HasCopy
<1>2. k \in DOMAIN new /\ new[k].table = table /\ new[k].src = n
  BY <1>1 DEF Grown
<1> QED
  BY <1>2 DEF HasCopy

LEMMA GrownCopied ==
  ASSUME NEW s, NEW t, Copied(s, t), t.cur # Nil, NEW u, u.cur # Nil,
         u.cur.start = t.cur.start, Grown(t.cur.rows, u.cur.rows), u.closed = t.closed
  PROVE  Copied(s, u)
<1>1. \A table, n : HasCopy(t.cur.rows, table, n) => HasCopy(u.cur.rows, table, n)
  BY GrownCopies
<1>2. CopiesOpen(s, u)
  BY <1>1 DEF Copied, CopiesOpen
<1> QED
  BY <1>2 DEF Copied

LEMMA CalmCopied ==
  ASSUME NEW s, NEW t, NEW u, t.cur # Nil, Calm(t, u), Copied(s, t)
  PROVE  Copied(s, u)
<1>1. u.cur # Nil /\ u.cur.start = t.cur.start /\ u.closed = t.closed
  BY DEF Calm, Same
<1>2. Grown(t.cur.rows, u.cur.rows)
  BY DEF Calm, Quiet, Grown
<1> QED
  BY <1>1, <1>2, GrownCopied

LEMMA CloseIntervalCopied ==
  ASSUME NEW s, NEW t \in TrackerValue, Copied(s, t), NEW at \in Nat, NEW forced \in ForcedResults
  PROVE  Copied(s, CloseInterval(t, at, forced))
<1> DEFINE u == CloseInterval(t, at, forced)
           c == Emptied(t, at)
<1>1. CASE t.cur = Nil
  BY <1>1, CloseIntervalNothing
<1>2. CASE t.cur # Nil
  <2>1. Calm(t, c) /\ Copied(s, c) /\ c.cur # Nil /\ c.cur.start = t.cur.start
    BY <1>2, EmptiedCalm, CalmCopied DEF Calm, Same
  <2>2. /\ u.cur = Nil
        /\ \/ u.closed = t.closed
           \/ \E iv \in Interval : u.closed = Append(t.closed, iv) /\ EmittedAs(t, at, forced, iv)
    BY <1>2, CloseIntervalShape
  <2>3. \A iv : EmittedAs(t, at, forced, iv) => iv.rows = c.cur.rows /\ iv.start = c.cur.start
    BY <2>1 DEF EmittedAs
  <2> SUFFICES Copied(s, u)
    OBVIOUS
  <2> HIDE DEF u, c
  <2>4. CopiesOpen(s, u)
    BY <2>2 DEF CopiesOpen
  <2>5. CASE u.closed = t.closed
    BY <2>4, <2>5 DEF Copied
  <2>6. ASSUME NEW iv \in Interval, u.closed = Append(t.closed, iv), EmittedAs(t, at, forced, iv)
        PROVE  Copied(s, u)
    <3>1. Members(u.closed) = Members(t.closed) \cup {iv}
      BY <2>6, TrackerFields, MembersOfAppend
    <3>2. CopiesIn(s, iv)
      BY <2>1, <2>3, <2>6 DEF Copied, CopiesOpen, CopiesIn
    <3> QED
      BY <2>4, <3>1, <3>2 DEF Copied
  <2> QED
    BY <2>2, <2>5, <2>6
<1> QED
  BY <1>1, <1>2

LEMMA EnsureCopied ==
  ASSUME NEW s, NEW t \in TrackerValue, Copied(s, t), NEW key \in KeysOrNone, NEW state,
         NEW at \in Nat, Past(s, at)
  PROVE  Copied(s, EnsureInterval(t, key, state, at))
<1> DEFINE u == EnsureInterval(t, key, state, at)
           want == ResultForState(state)
<1>1. CASE u = t
  BY <1>1
<1>2. ASSUME NEW forced \in ForcedResults,
             u = OpenInterval(CloseInterval(t, at, forced), key, want, at)
      PROVE  Copied(s, u)
  <2> DEFINE c == CloseInterval(t, at, forced)
  <2>1. c \in TrackerValue /\ c.cur = Nil /\ Copied(s, c)
    BY CloseIntervalQueue, CloseIntervalCopied
  <2>2. want \in SynthResults
    BY ResultForStateType
  <2> HIDE DEF c, want
  <2>3. LET v == OpenInterval(c, key, want, at)
        IN  v.closed = c.closed /\ v.cur.start = at
    BY <2>1, <2>2, OpenIntervalFields
  <2>4. u.closed = c.closed /\ u.cur.start = at
    BY <1>2, <2>3 DEF c
  <2> HIDE DEF u
  <2>5. \A n \in DOMAIN s : ~Owed(s[n], at)
    BY DEF Owed, Past
  <2> QED
    BY <2>1, <2>4, <2>5 DEF Copied, CopiesOpen
<1> QED
  BY <1>1, <1>2, EnsureShape

(* One row more: what was copied still is, and the row is there.           *)
LEMMA AddedCopied ==
  ASSUME NEW s, NEW t \in TrackerValue, t.cur # Nil, Copied(s, t), NEW r \in Row
  PROVE  /\ Copied(s, AddRow(t, r))
         /\ HasCopy(AddRow(t, r).cur.rows, r.table, r.src)
<1> DEFINE u == AddRow(t, r)
<1>1. /\ u.cur # Nil /\ u.cur.rows = Append(t.cur.rows, r) /\ u.closed = t.closed
      /\ u.cur.start = t.cur.start
  BY AddRowShape, AddRowSame DEF Same
<1> HIDE DEF u
<1>2. t.cur.rows \in Seq(Row)
  BY RowsOfOpen
<1>3. Grown(t.cur.rows, u.cur.rows)
  BY <1>1, <1>2, RowAppended DEF Grown
<1>4. Len(t.cur.rows) + 1 \in DOMAIN u.cur.rows /\ u.cur.rows[Len(t.cur.rows) + 1] = r
  BY <1>1, <1>2, RowAppended
<1>5. HasCopy(u.cur.rows, r.table, r.src)
  BY <1>4 DEF HasCopy
<1>6. Copied(s, u)
  BY <1>1, <1>3, GrownCopied
<1> QED
  BY <1>5, <1>6 DEF u

(* Handlers. *)
LEMMA OrderCopied ==
  ASSUME NEW s, NEW t \in TrackerValue, Copied(s, t), NEW o \in OrderShape, NEW at \in Nat,
         Past(s, at)
  PROVE  Copied(s, ApplyOrder(t, o, at))
<1> DEFINE v == EnsureInterval(t, o.key, "AutoCycle", at)
           u == [v EXCEPT !.cur.recipe = TRUE]
<1>1. o.key \in KeysOrNone
  BY DEF OrderShape, KeysOrNone
<1>2. v \in TrackerValue /\ v.cur # Nil /\ Copied(s, v)
  BY <1>1, EnsureFits, EnsureCopied
<1> HIDE DEF v
<1>3. /\ u.cur.rows = v.cur.rows /\ u.closed = v.closed /\ u.cur # Nil
      /\ u.cur.start = v.cur.start
  BY <1>2, RecipeShape DEF Same
<1> HIDE DEF u
<1>4. Copied(s, u)
  BY <1>2, <1>3, GrownCopied DEF Grown
<1> QED
  BY <1>4 DEF ApplyOrder, u, v

LEMMA EventCopied ==
  ASSUME NEW s, NEW t \in TrackerValue, Copied(s, t), NEW e \in EventShape, NEW at \in Nat,
         Past(s, at)
  PROVE  Copied(s, ApplyFSMEvent(t, e, at))
<1> DEFINE v == EnsureInterval(t, e.key, e.state, at)
           p == TrackStateSpan(v, e, at)
           d == IF UseStepRuns THEN p ELSE TrackDwell(p, e, at)
           u == CloseInterval(d, at, "completed")
<1>1. e.key \in KeysOrNone
  BY DEF EventShape, KeysOrNone
<1>2. v \in TrackerValue /\ v.cur # Nil /\ Copied(s, v)
  BY <1>1, EnsureFits, EnsureCopied
<1> HIDE DEF v
<1>3. Calm(v, p) /\ p \in TrackerValue /\ p.cur # Nil
  BY <1>2, TrackStateSpanCalm DEF Calm
<1> HIDE DEF p
<1>4. Calm(p, d)
  BY <1>3, TrackDwellCalm, CalmStill
<1> HIDE DEF d
<1>5. Calm(v, d) /\ d \in TrackerValue
  BY <1>3, <1>4, CalmTrans DEF Calm
<1>6. Copied(s, d)
  BY <1>2, <1>5, CalmCopied
<1>7. Copied(s, u)
  BY <1>5, <1>6, CloseIntervalCopied, ForcedResultsType
<1> QED
  BY <1>6, <1>7 DEF ApplyFSMEvent, u, d, p, v

LEMMA FaultCopied ==
  ASSUME NEW s, NEW t \in TrackerValue, Copied(s, t), NEW f \in FaultShape, NEW at \in Nat,
         Past(s, at), NEW id \in Nat
  PROVE  /\ Copied(s, ApplyFault(t, f, at, id))
         /\ ApplyFault(t, f, at, id).cur # Nil =>
              HasCopy(ApplyFault(t, f, at, id).cur.rows, "fault_events", id)
<1> DEFINE v == EnsureInterval(t, f.key, f.state, at)
           w == RecordLedgerFault(v, f.type, at)
           main == w.dwell["main"]
           num == IF main = Nil THEN NoStep ELSE main.seq
           row == FaultRow(f.type, at, id, num)
           a == AddRow(w, row)
           u == CloseInterval(a, at, FaultResult(f.type))
<1>1. f.key \in KeysOrNone /\ f.type \in STRING
  BY DEF FaultShape, KeysOrNone
<1>2. v \in TrackerValue /\ v.cur # Nil /\ Copied(s, v)
  BY <1>1, EnsureFits, EnsureCopied
<1> HIDE DEF v
<1>3. /\ w \in TrackerValue /\ w.cur # Nil /\ w.cur = v.cur /\ w.closed = v.closed
  BY <1>1, <1>2, LedgerShape
<1> HIDE DEF w
<1>4. Copied(s, w)
  BY <1>2, <1>3, GrownCopied DEF Grown
<1>5. num \in NatOrNull
  BY <1>3, SeqTypes DEF NatOrNull, Lanes
<1> HIDE DEF num
<1>6. row \in Row /\ row.table = "fault_events" /\ row.src = id
  <2>1. row \in Row
    BY <1>1, <1>5, RowTypes
  <2> QED
    BY <2>1 DEF FaultRow
<1> HIDE DEF row
<1>7. a \in TrackerValue /\ Copied(s, a) /\ HasCopy(a.cur.rows, "fault_events", id)
  <2>1. Copied(s, a) /\ HasCopy(a.cur.rows, row.table, row.src)
    BY <1>3, <1>4, <1>6, AddedCopied
  <2> QED
    BY <1>3, <1>6, <2>1, AddRowShape
<1> HIDE DEF a
<1>8. Copied(s, u) /\ u.cur = Nil
  <2>1. FaultResult(f.type) \in ForcedResults
    BY ForcedResultsType
  <2> QED
    BY <1>7, <2>1, CloseIntervalCopied, CloseIntervalQueue
<1> QED
  BY <1>7, <1>8 DEF ApplyFault, u, a, row, num, main, w, v

LEMMA ConfigCopied ==
  ASSUME NEW s, NEW t \in TrackerValue, Copied(s, t), NEW k \in STRING, NEW at \in Nat,
         Past(s, at), NEW id \in Nat
  PROVE  /\ Copied(s, ApplyConfigChange(t, k, at, id))
         /\ HasCopy(ApplyConfigChange(t, k, at, id).cur.rows, "config_history", id)
<1> DEFINE state == IF t.cur # Nil /\ ~t.cur.prod THEN t.cur.result ELSE ""
           v == EnsureInterval(t, NoKey, state, at)
           row == ConfigRow(k, at, id)
           u == AddRow(v, row)
<1> HIDE DEF state
<1>1. NoKey \in KeysOrNone
  BY DEF KeysOrNone
<1>2. v \in TrackerValue /\ v.cur # Nil /\ Copied(s, v)
  BY <1>1, EnsureFits, EnsureCopied
<1> HIDE DEF v
<1>3. row \in Row /\ row.table = "config_history" /\ row.src = id
  <2>1. 0 \in NatOrNull
    BY DEF NatOrNull
  <2>2. row \in Row
    BY <2>1, RowTypes
  <2> QED
    BY <2>2 DEF ConfigRow
<1> HIDE DEF row
<1>4. Copied(s, u) /\ HasCopy(u.cur.rows, row.table, row.src)
  BY <1>2, <1>3, AddedCopied
<1> QED
  BY <1>3, <1>4 DEF ApplyConfigChange, u, row, v, state

LEMMA ToggleCopied ==
  ASSUME NEW s, NEW t \in TrackerValue, Copied(s, t), NEW g \in ToggleShape, NEW at \in Nat,
         Past(s, at), NEW id \in Nat
  PROVE  /\ Copied(s, ApplySensorToggle(t, g, at, id))
         /\ HasCopy(ApplySensorToggle(t, g, at, id).cur.rows, "sensor_toggles", id)
<1> DEFINE v == EnsureInterval(t, g.key, g.state, at)
           d == ApplyDoorSignals(v, g, at, id)
           door == DoorRow(v.door, at, id)
           row == ToggleRow(g.input, at, id)
           u == AddRow(d, row)
<1>1. g.key \in KeysOrNone /\ g.input \in STRING
  BY DEF ToggleShape, KeysOrNone
<1>2. v \in TrackerValue /\ v.cur # Nil /\ Copied(s, v)
  BY <1>1, EnsureFits, EnsureCopied
<1> HIDE DEF v
<1>3. /\ d \in TrackerValue /\ d.cur # Nil /\ d.closed = v.closed /\ d.cur.start = v.cur.start
      /\ \/ d.cur = v.cur
         \/ door \in Row /\ d.cur.rows = Append(v.cur.rows, door)
  <2>1. d \in TrackerValue /\ DoorStep(v, d, g, at, id)
    BY <1>2, DoorSignalsShape
  <2>2. Same(v, d)
    BY <1>2, DoorSignalsSame
  <2> HIDE DEF d
  <2>3. d.cur # Nil /\ d.closed = v.closed /\ d.cur.start = v.cur.start
    BY <1>2, <2>2 DEF Same
  <2>4. \/ d.cur = v.cur
        \/ door \in Row /\ d.cur.rows = Append(v.cur.rows, door)
    BY <2>1 DEF DoorStep
  <2> QED
    BY <2>1, <2>3, <2>4
<1> HIDE DEF d, door
<1>4. Grown(v.cur.rows, d.cur.rows)
  <2>1. CASE d.cur = v.cur
    BY <2>1 DEF Grown
  <2>2. CASE door \in Row /\ d.cur.rows = Append(v.cur.rows, door)
    BY <1>2, <2>2, RowsOfOpen, RowAppended DEF Grown
  <2> QED
    BY <1>3, <2>1, <2>2
<1>5. Copied(s, d)
  BY <1>2, <1>3, <1>4, GrownCopied
<1>6. row \in Row /\ row.table = "sensor_toggles" /\ row.src = id
  <2>1. 0 \in NatOrNull
    BY DEF NatOrNull
  <2>2. row \in Row
    BY <1>1, <2>1, RowTypes
  <2> QED
    BY <2>2 DEF ToggleRow
<1> HIDE DEF row
<1>7. Copied(s, u) /\ HasCopy(u.cur.rows, row.table, row.src)
  BY <1>3, <1>5, <1>6, AddedCopied
<1> QED
  BY <1>6, <1>7 DEF ApplySensorToggle, u, row, d, v

LEMMA FlushCopied ==
  ASSUME NEW s, NEW t \in TrackerValue, Copied(s, t), NEW now \in Nat
  PROVE  Copied(s, FlushOpen(t, now))
<1>1. CASE t.cur = Nil
  BY <1>1 DEF FlushOpen
<1>2. CASE t.cur # Nil
  <2> DEFINE end == IF now <= t.cur.start THEN t.cur.start + 1 ELSE now
  <2>1. end \in Nat /\ Capped(t) \in ForcedResults
    <3>1. t.cur.start \in Nat /\ t.cur.start + 1 \in Nat
      BY <1>2, TrackerFields, IntervalFields
    <3> QED
      BY <1>2, <3>1, ForcedResultsType DEF Capped
  <2>2. FlushOpen(t, now) = CloseInterval(t, end, Capped(t))
    BY <1>2 DEF FlushOpen, Capped
  <2> HIDE DEF end
  <2> QED
    BY <2>1, <2>2, CloseIntervalCopied
<1> QED
  BY <1>1, <1>2

(* The rows handed over are past, and each is copied where it is owed. *)
LossInv ==
  /\ Past(fed, latest)
  /\ Copied(fed, trk)
  /\ \A iv \in Members(out) : CopiesIn(fed, iv)

(* A handler's row joins those before it: its copy is in the interval left *)
(* open, and no interval already closed reaches beyond it.                 *)
LEMMA LossHandler ==
  ASSUME Inv, LossInv, Inv', NEW kind, NEW row, NEW at \in Nat, Fed(kind, row, at), ~stopped,
         Past(fed, at), Copied(fed, trk'),
         kind \in OneToOne /\ trk'.cur # Nil => HasCopy(trk'.cur.rows, TableOf[kind], NextId)
  PROVE  LossInv'
<1>1. /\ \A n \in DOMAIN fed : n \in DOMAIN fed' /\ fed'[n] = fed[n]
      /\ NextId \in DOMAIN fed' /\ fed'[NextId] = [kind |-> kind, row |-> row, at |-> at]
      /\ \A n \in DOMAIN fed' : n \in DOMAIN fed \/ n = NextId
  BY FedMore DEF Inv
<1>2. out' = out /\ latest' = at /\ Now' = at
  BY DEF Fed, Now
<1>3. fed'[NextId].kind = kind /\ fed'[NextId].at = at
  BY <1>1
<1>4. Past(fed', at)
  BY <1>1, <1>3 DEF Past
<1>5. \A iv \in Members(out') \cup Members(trk'.closed) : ~(at < iv.end)
  <2>1. trk'.closed \in Seq(Interval) /\ out' \in Seq(Interval)
    BY TrackerFields DEF Inv, TypeOK
  <2>2. Members(out') \cup Members(trk'.closed) = Members(out' \o trk'.closed)
    BY <2>1, MembersOfConcat
  <2>3. \A iv \in Members(out' \o trk'.closed) : iv.end <= at
    BY <1>2 DEF Inv, Chron, Members
  <2>4. Members(out' \o trk'.closed) \in SUBSET Interval
    BY <2>1, <2>2, MembersAreIntervals
  <2>5. \A iv \in Members(out' \o trk'.closed) : iv.end \in Nat
    BY <2>4, IntervalFields
  <2> QED
    BY <2>2, <2>3, <2>5
<1>6. \A iv : CopiesIn(fed, iv) /\ ~(at < iv.end) => CopiesIn(fed', iv)
  BY <1>1, <1>3 DEF CopiesIn
<1>7. CopiesOpen(fed', trk')
  BY <1>1, <1>3 DEF Copied, CopiesOpen, Owed
<1>8. Copied(fed', trk')
  BY <1>5, <1>6, <1>7 DEF Copied
<1>9. \A iv \in Members(out') : CopiesIn(fed', iv)
  BY <1>2, <1>5, <1>6 DEF LossInv
<1> QED
  BY <1>2, <1>4, <1>8, <1>9 DEF LossInv

LEMMA ArrivesPast ==
  ASSUME TimelineInOrder, Inv, NEW kind, NEW at \in Nat, Arrives(kind, at)
  PROVE  Past(fed, at) /\ ~stopped
<1>1. ~stopped
  BY DEF Arrives, Running
<1>2. \A n \in DOMAIN fed : fed[n].at \in Nat
  <2>1. fed \in Seq(FedRow)
    BY DEF Inv, TypeOK
  <2>2. \A n \in DOMAIN fed : fed[n] \in FedRow
    BY <2>1, LenProperties, ElementOfSeq
  <2> QED
    BY <2>2 DEF FedRow
<1>3. \A n \in DOMAIN fed : fed[n].at <= at
  <2>1. \A n \in DOMAIN fed : fed[n].at <= at \/ fed[n].at <= at + 0
    BY DEF Arrives, TimelineInOrder
  <2> QED
    BY <2>1
<1> QED
  BY <1>1, <1>2, <1>3 DEF Past

LEMMA LossStep ==
  ASSUME TimelineInOrder, Inv, Inv', LossInv, [Next]_vars
  PROVE  LossInv'
<1>1. /\ trk \in TrackerValue /\ latest \in Nat /\ NextId \in Nat /\ Copied(fed, trk)
      /\ Past(fed, latest)
  BY NextIdType DEF Inv, TypeOK, LossInv
<1>2. /\ TableOf["fault"] = "fault_events" /\ TableOf["toggle"] = "sensor_toggles"
      /\ TableOf["config"] = "config_history"
      /\ "order" \notin OneToOne /\ "event" \notin OneToOne
  BY DEF TableOf, OneToOne
<1>3. ASSUME NEW at \in 0 .. MaxTime, NEW o \in Orders, OrderArrives(o, at) PROVE LossInv'
  <2>1. o \in OrderShape /\ at \in Nat
    BY SourceShapes DEF SourceShapes
  <2>2. Fed("order", o, at) /\ trk' = ApplyOrder(trk, o, at)
    BY <1>3 DEF OrderArrives
  <2>3. Past(fed, at) /\ ~stopped
    BY <1>3, <2>1, ArrivesPast DEF OrderArrives
  <2>4. Copied(fed, trk')
    BY <1>1, <2>1, <2>2, <2>3, OrderCopied
  <2> QED
    BY <1>2, <2>1, <2>2, <2>3, <2>4, LossHandler
<1>4. ASSUME NEW at \in 0 .. MaxTime, NEW e \in Events, EventArrives(e, at) PROVE LossInv'
  <2>1. e \in EventShape /\ at \in Nat
    BY SourceShapes DEF SourceShapes
  <2>2. Fed("event", e, at) /\ trk' = ApplyFSMEvent(trk, e, at)
    BY <1>4 DEF EventArrives
  <2>3. Past(fed, at) /\ ~stopped
    BY <1>4, <2>1, ArrivesPast DEF EventArrives
  <2>4. Copied(fed, trk')
    BY <1>1, <2>1, <2>2, <2>3, EventCopied
  <2> QED
    BY <1>2, <2>1, <2>2, <2>3, <2>4, LossHandler
<1>5. ASSUME NEW at \in 0 .. MaxTime, NEW f \in Faults, FaultArrives(f, at) PROVE LossInv'
  <2>1. f \in FaultShape /\ at \in Nat
    BY SourceShapes DEF SourceShapes
  <2>2. Fed("fault", f, at) /\ trk' = ApplyFault(trk, f, at, NextId)
    BY <1>5 DEF FaultArrives
  <2>3. Past(fed, at) /\ ~stopped
    BY <1>5, <2>1, ArrivesPast DEF FaultArrives
  <2>4. Copied(fed, trk') /\ (trk'.cur # Nil => HasCopy(trk'.cur.rows, "fault_events", NextId))
    BY <1>1, <2>1, <2>2, <2>3, FaultCopied
  <2> QED
    BY <1>2, <2>1, <2>2, <2>3, <2>4, LossHandler
<1>6. ASSUME NEW at \in 0 .. MaxTime, NEW g \in Toggles, ToggleArrives(g, at) PROVE LossInv'
  <2>1. g \in ToggleShape /\ at \in Nat
    BY SourceShapes DEF SourceShapes
  <2>2. Fed("toggle", g, at) /\ trk' = ApplySensorToggle(trk, g, at, NextId)
    BY <1>6 DEF ToggleArrives
  <2>3. Past(fed, at) /\ ~stopped
    BY <1>6, <2>1, ArrivesPast DEF ToggleArrives
  <2>4. Copied(fed, trk') /\ HasCopy(trk'.cur.rows, "sensor_toggles", NextId)
    BY <1>1, <2>1, <2>2, <2>3, ToggleCopied
  <2> QED
    BY <1>2, <2>1, <2>2, <2>3, <2>4, LossHandler
<1>7. ASSUME NEW k \in ConfigKeys, ConfigChanges(k) PROVE LossInv'
  <2>1. k \in STRING
    BY SourceShapes DEF SourceShapes
  <2>2. /\ Fed("config", [config |-> k], latest) /\ ~stopped
        /\ trk' = ApplyConfigChange(trk, k, latest, NextId)
    BY <1>7 DEF ConfigChanges, Running
  <2>3. Copied(fed, trk') /\ HasCopy(trk'.cur.rows, "config_history", NextId)
    BY <1>1, <2>1, <2>2, ConfigCopied
  <2> QED
    BY <1>1, <1>2, <2>2, <2>3, LossHandler
<1>8. CASE Take
  <2>1. trk.closed \in Seq(Interval) /\ out \in Seq(Interval) /\ SortByEnd(trk.closed) \in Seq(Interval)
    BY <1>1, TrackerFields, SortByEndType DEF Inv, TypeOK
  <2>2. Members(out') \subseteq Members(out) \cup Members(trk.closed)
    BY <1>8, <2>1, MembersOfConcat, SortByEndMembers DEF Take
  <2>3. trk'.closed = <<>> /\ trk'.cur = trk.cur /\ fed' = fed /\ latest' = latest
    BY <1>1, <1>8 DEF Take, TakePending, TrackerValue
  <2>4. Members(trk'.closed) = {}
    BY <2>3 DEF Members
  <2>5. Copied(fed', trk')
    BY <1>1, <2>3, <2>4 DEF Copied, CopiesOpen
  <2>6. \A iv \in Members(out') : CopiesIn(fed', iv)
    BY <1>1, <2>2, <2>3 DEF LossInv, Copied
  <2>7. Past(fed', latest')
    BY <1>1, <2>3
  <2> QED
    BY <2>5, <2>6, <2>7 DEF LossInv
<1>9. CASE Shutdown
  <2>1. trk' = FlushOpen(trk, latest) /\ fed' = fed /\ out' = out /\ latest' = latest
    BY <1>9 DEF Shutdown
  <2>2. Copied(fed, trk')
    BY <1>1, <2>1, FlushCopied
  <2> QED
    BY <1>1, <2>1, <2>2 DEF LossInv
<1>10. CASE UNCHANGED vars
  BY <1>10 DEF vars, LossInv
<1>11. ~(\E sr \in StepRuns : TRUE)
  BY DEF TimelineInOrder
<1> QED
  BY <1>3, <1>4, <1>5, <1>6, <1>7, <1>8, <1>9, <1>10, <1>11 DEF Next

(* A fault, a toggle or a config change whose time lies strictly inside an *)
(* interval is among its rows: no split by the cap, by a state change, by  *)
(* the next order or by the shutdown loses one.                            *)
THEOREM NothingLost ==
  ASSUME TimelineInOrder PROVE Spec => []NothingLostInside
<1>1. Init => LossInv
  <2> SUFFICES ASSUME Init PROVE LossInv
    OBVIOUS
  <2>1. trk.cur = Nil /\ trk.closed = <<>> /\ out = <<>> /\ fed = <<>>
    BY DEF Init, NewTracker
  <2>2. Members(trk.closed) = {} /\ Members(out) = {} /\ DOMAIN fed = {}
    BY <2>1 DEF Members
  <2> QED
    BY <2>1, <2>2 DEF LossInv, Past, Copied, CopiesOpen
<1>2. Inv /\ Inv' /\ LossInv /\ [Next]_vars => LossInv'
  BY LossStep
<1>3. Inv /\ LossInv => NothingLostInside
  <2> SUFFICES ASSUME Inv, LossInv, NEW n \in DOMAIN fed, fed[n].kind \in OneToOne,
                      NEW iv \in AllIntervals,
                      iv.start < fed[n].at /\ (iv \in Doing \/ fed[n].at < iv.end)
               PROVE  CopiesOf(n, iv) # {}
    BY DEF NothingLostInside
  <2>1. trk.closed \in Seq(Interval) /\ out \in Seq(Interval)
    BY TrackerFields DEF Inv, TypeOK
  <2>2. Owed(fed[n], iv.start)
    BY DEF Owed
  <2>3. CASE iv \in Doing
    <3>1. trk.cur # Nil /\ iv = trk.cur
      BY <2>3 DEF Doing
    <3>2. HasCopy(iv.rows, TableOf[fed[n].kind], n)
      BY <2>2, <3>1 DEF LossInv, Copied, CopiesOpen
    <3> QED
      BY <3>2 DEF HasCopy, CopiesOf, RowsOf
  <2>4. CASE iv \notin Doing
    <3>1. iv \in Members(out) \cup Members(trk.closed)
      BY <2>1, <2>4, MembersOfConcat DEF AllIntervals, Done, Members
    <3>2. CopiesIn(fed, iv)
      BY <3>1 DEF LossInv, Copied
    <3>3. HasCopy(iv.rows, TableOf[fed[n].kind], n)
      BY <2>2, <2>4, <3>2 DEF CopiesIn
    <3> QED
      BY <3>3 DEF HasCopy, CopiesOf, RowsOf
  <2> QED
    BY <2>3, <2>4
<1> QED
  BY <1>1, <1>2, <1>3, Invariance, PTL DEF Spec
=============================================================================

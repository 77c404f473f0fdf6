--------------------------- MODULE EventLogProofs ---------------------------
(* Theorems of EventLog, for any number of rows and any event times. *)
EXTENDS EventLog, SequenceTheorems, TLAPS

(* The cursor is the position of the last row shipped, in a table whose    *)
(* times do not decrease.                                                  *)
LogInv ==
  /\ TypeOK
  /\ \A i, j \in DOMAIN log : i < j => log[i] <= log[j]
  /\ Len(shipped) <= Len(log)
  /\ \A k \in DOMAIN shipped : shipped[k] = k
  /\ cursor.id = Len(shipped)
  /\ cursor.ts = IF Len(shipped) = 0 THEN 0 ELSE log[Len(shipped)]

LEMMA LogTypes ==
  ASSUME TypeOK
  PROVE  /\ Len(log) \in Nat /\ DOMAIN log = 1 .. Len(log)
         /\ Len(shipped) \in Nat /\ DOMAIN shipped = 1 .. Len(shipped)
         /\ \A i \in 1 .. Len(log) : log[i] \in Nat
BY LenProperties, ElementOfSeq DEF TypeOK

(* What the agent's query returns is what has not been shipped. *)
LEMMA BeyondIsRest ==
  ASSUME LogInv
  PROVE  \A i \in DOMAIN log : i \in Beyond <=> i > Len(shipped)
<1> DEFINE n == Len(shipped)
<1>1. /\ Len(log) \in Nat /\ DOMAIN log = 1 .. Len(log) /\ n \in Nat
      /\ \A i \in 1 .. Len(log) : log[i] \in Nat
  BY LogTypes DEF LogInv
<1>2. n <= Len(log) /\ cursor.id = n
  BY DEF LogInv
<1>3. cursor.ts = IF n = 0 THEN 0 ELSE log[n]
  BY DEF LogInv
<1>4. \A i, j \in 1 .. Len(log) : i < j => log[i] <= log[j]
  BY <1>1 DEF LogInv
<1> HIDE DEF n
<1> SUFFICES ASSUME NEW i \in 1 .. Len(log) PROVE i \in Beyond <=> i > n
  BY <1>1 DEF n
<1>5. i \in Beyond <=> log[i] > cursor.ts \/ (log[i] = cursor.ts /\ i > n)
  BY <1>1, <1>2 DEF Beyond
<1>6. CASE n = 0
  BY <1>1, <1>3, <1>5, <1>6
<1>7. CASE n # 0 /\ i > n
  <2>1. n \in 1 .. Len(log) /\ n < i
    BY <1>1, <1>2, <1>7
  <2>2. log[n] <= log[i] /\ log[n] \in Nat /\ log[i] \in Nat
    BY <1>1, <1>4, <2>1
  <2> QED
    BY <1>3, <1>5, <1>7, <2>2
<1>8. CASE n # 0 /\ ~(i > n)
  <2>1. n \in 1 .. Len(log) /\ (i < n \/ i = n)
    BY <1>1, <1>2, <1>8
  <2>2. log[n] \in Nat /\ log[i] \in Nat
    BY <1>1, <2>1
  <2>3. log[i] <= log[n]
    BY <1>4, <2>1, <2>2
  <2> QED
    BY <1>3, <1>5, <1>8, <2>2, <2>3
<1> QED
  BY <1>6, <1>7, <1>8

LEMMA LogInit == Init => LogInv
BY DEF Init, LogInv, TypeOK, Cursors

LEMMA InsertKeeps ==
  ASSUME LogInv, NEW ts \in 1 .. MaxTs, Insert(ts)
  PROVE  LogInv'
<1> DEFINE n == Len(log)
<1>1. /\ n \in Nat /\ DOMAIN log = 1 .. n /\ Len(shipped) \in Nat
      /\ \A i \in 1 .. n : log[i] \in Nat
  BY LogTypes DEF LogInv
<1>2. log \in Seq(Nat) /\ ts \in Nat
  BY EventLogBounds DEF EventLogBounds, LogInv, TypeOK
<1>3. /\ log' \in Seq(Nat) /\ DOMAIN log' = 1 .. n + 1 /\ Len(log') = n + 1
      /\ \A i \in 1 .. n : log'[i] = log[i]
      /\ log'[n + 1] = ts
  BY <1>2, AppendProperties, LenProperties DEF Insert
<1>4. \A i \in 1 .. n : log[i] <= ts
  BY <1>1 DEF Insert
<1>5. \A i, j \in 1 .. n : i < j => log[i] <= log[j]
  BY <1>1 DEF LogInv
<1>6. cursor' = cursor /\ shipped' = shipped /\ Len(shipped) <= n
  BY DEF Insert, LogInv
<1> HIDE DEF n
<1>7. \A i, j \in 1 .. n + 1 : i < j => log'[i] <= log'[j]
  <2> SUFFICES ASSUME NEW i \in 1 .. n + 1, NEW j \in 1 .. n + 1, i < j
               PROVE  log'[i] <= log'[j]
    OBVIOUS
  <2>1. i \in 1 .. n /\ (j \in 1 .. n \/ j = n + 1)
    BY <1>1
  <2> QED
    BY <1>3, <1>4, <1>5, <2>1
<1>8. Len(shipped) # 0 => log'[Len(shipped)] = log[Len(shipped)]
  BY <1>1, <1>3, <1>6
<1> QED
  BY <1>1, <1>3, <1>6, <1>7, <1>8 DEF LogInv, TypeOK

LEMMA ShipKeeps ==
  ASSUME LogInv, NEW i \in DOMAIN log, Ship(i)
  PROVE  LogInv'
<1> DEFINE n == Len(shipped)
<1>1. /\ Len(log) \in Nat /\ DOMAIN log = 1 .. Len(log)
      /\ n \in Nat /\ DOMAIN shipped = 1 .. n
      /\ \A k \in 1 .. Len(log) : log[k] \in Nat
  BY LogTypes DEF LogInv
<1>2. i = n + 1
  <2>1. i > n /\ i \in 1 .. Len(log)
    BY <1>1, BeyondIsRest DEF Ship
  <2>2. n + 1 \in 1 .. Len(log) /\ n + 1 > n
    BY <1>1, <2>1
  <2>3. n + 1 \in Beyond
    BY <1>1, <2>2, BeyondIsRest
  <2>4. log[i] < log[n + 1] \/ (log[i] = log[n + 1] /\ i <= n + 1)
    BY <2>3 DEF Ship, Before
  <2>5. n + 1 < i => log[n + 1] <= log[i]
    BY <1>1, <2>1, <2>2 DEF LogInv
  <2>6. log[i] \in Nat /\ log[n + 1] \in Nat
    BY <1>1, <2>1, <2>2
  <2> HIDE DEF n
  <2> QED
    BY <1>1, <2>1, <2>4, <2>5, <2>6
<1>3. /\ shipped' \in Seq(Nat) /\ DOMAIN shipped' = 1 .. n + 1 /\ Len(shipped') = n + 1
      /\ \A k \in 1 .. n : shipped'[k] = shipped[k]
      /\ shipped'[n + 1] = i
  <2>1. shipped \in Seq(Nat) /\ i \in Nat
    BY <1>1 DEF LogInv, TypeOK
  <2> QED
    BY <2>1, AppendProperties, LenProperties DEF Ship
<1>4. \A k \in 1 .. n : shipped[k] = k
  BY <1>1 DEF LogInv
<1>5. log' = log /\ cursor' = [ts |-> log[i], id |-> i] /\ cursor' \in Cursors
  <2>1. log[i] \in Nat /\ i \in Nat
    BY <1>1
  <2> QED
    BY <2>1 DEF Ship, Cursors
<1> HIDE DEF n
<1>6. \A k \in 1 .. n + 1 : shipped'[k] = k
  BY <1>1, <1>2, <1>3, <1>4
<1>7. n + 1 <= Len(log) /\ n + 1 # 0
  BY <1>1, <1>2
<1> QED
  BY <1>1, <1>2, <1>3, <1>5, <1>6, <1>7 DEF LogInv, TypeOK

(* As long as event_ts never decreases along the table, the agent's        *)
(* cursor leaves no row behind and ships none twice.                       *)
THEOREM PrefixShipped == Spec => []ShippedIsPrefix
<1>1. LogInv /\ [Next]_vars => LogInv'
  <2> SUFFICES ASSUME LogInv, [Next]_vars PROVE LogInv'
    OBVIOUS
  <2>1. CASE UNCHANGED vars
    BY <2>1 DEF vars, LogInv, TypeOK
  <2> QED
    BY <2>1, InsertKeeps, ShipKeeps DEF Next
<1>2. LogInv => ShippedIsPrefix
  BY BeyondIsRest DEF LogInv, ShippedIsPrefix
<1> QED
  BY <1>1, <1>2, LogInit, PTL DEF Spec
=============================================================================

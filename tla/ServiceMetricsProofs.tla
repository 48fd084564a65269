------------------------- MODULE ServiceMetricsProofs -------------------------
(***************************************************************************)
(* Proofs about ServiceMetrics, for every set of interfaces, every width   *)
(* of the counters and any number of events.                               *)
(***************************************************************************)
EXTENDS ServiceMetrics, SumLemmas

\* The bound on the events bounds what they move.
Counted ==
  /\ tick <= events + 1
  /\ \A m \in Modes : times[m] <= events + 1

SinceTypeOK ==
  since \in [bytes : [Directions -> Nat], ticks : Nat, smooth : BOOLEAN]

\* What happened since the last measurement is the difference to what it kept, if it
\* kept sums: a table that could not be read leaves zeros.
SinceIsExact ==
  prevTick # 0 =>
    /\ tick = prevTick + since.ticks
    /\ since.smooth /\ (\A d \in Directions : prevBytes[d] # 0) =>
         \A d \in Directions : TableSum(d) = prevBytes[d] + since.bytes[d]

\* The inductive invariant.
MetricsInv ==
  MetricsTypeOK /\ Counted /\ SinceTypeOK /\ SinceIsExact /\ RatesAreTraffic

-----------------------------------------------------------------------------
(* Arithmetic *)

\* A share of at most the whole is between 0 and 100 percent.
LEMMA PercentBounded ==
  ASSUME NEW t \in Nat, t # 0, NEW b \in 0..t
  PROVE  (100 * b) \div t \in 0..100
<1>. DEFINE q == (100 * b) \div t
<1>1. q \in Int /\ t * q <= 100 * b /\ 100 * b < t * (q + 1)
  OBVIOUS
<1>. HIDE DEF q
<1>2. q >= 0
  <2>. SUFFICES ASSUME q + 1 <= 0 PROVE FALSE
    BY <1>1
  <2>1. t * (q + 1) <= 0
    BY <1>1
  <2>. QED
    BY <1>1, <2>1
<1>3. q <= 100
  <2>. SUFFICES ASSUME q >= 101 PROVE FALSE
    BY <1>1
  <2>1. t * q >= t * 101
    BY <1>1
  <2>. QED
    BY <1>1, <2>1
<1>. QED
  BY <1>1, <1>2, <1>3 DEF q

\* Arithmetic modulo Wide stays below it, and is exact below it.
LEMMA ModuloWide ==
  /\ Wide \in Nat \ {0}
  /\ \A a \in Int : a % Wide \in 0..(Wide - 1)
  /\ \A a \in 0..(Wide - 1) : a % Wide = a
<1>1. Cardinality(Interfaces) \in Nat
  BY MetricsAssumption, FS_CardinalityType DEF MetricsAssumption
<1>2. Octets * Cardinality(Interfaces) \in Nat
  BY <1>1, MetricsAssumption DEF MetricsAssumption
<1>3. Wide \in Nat /\ Wide > 0
  BY <1>2, MetricsAssumption DEF MetricsAssumption
<1>. QED
  BY <1>3

-----------------------------------------------------------------------------
(* The number of octets *)

LEMMA TableSumIsSum ==
  ASSUME NEW d
  PROVE  /\ TableSum(d) = SumOver(octets[d], operational)
         /\ TableSum(d)' = SumOver(octets'[d], operational')
<1>1. TableSum(d) = SumOver(octets[d], operational)
  BY Zenon DEF TableSum, SumOver, MapThenSumSet, MapThenFoldSet
<1>2. TableSum(d)' = SumOver(octets'[d], operational')
  BY Zenon DEF TableSum, SumOver, MapThenSumSet, MapThenFoldSet
<1>. QED
  BY <1>1, <1>2

LEMMA TableSumBounded ==
  ASSUME MetricsTypeOK, NEW d \in Directions
  PROVE  TableSum(d) \in 0..(Wide - 1)
<1>1. IsFiniteSet(operational) /\ Cardinality(operational) <= Cardinality(Interfaces)
  BY MetricsAssumption, FS_Subset DEF MetricsAssumption, MetricsTypeOK
<1>2. Cardinality(operational) \in Nat /\ Cardinality(Interfaces) \in Nat
  BY <1>1, MetricsAssumption, FS_CardinalityType DEF MetricsAssumption
<1>3. Octets \in Nat /\ \A i \in operational : octets[d][i] \in Nat /\ octets[d][i] \in 0..Octets
  BY MetricsAssumption DEF MetricsAssumption, MetricsTypeOK
<1>4. TableSum(d) \in Nat /\ TableSum(d) <= Octets * Cardinality(operational)
  BY <1>1, <1>3, TableSumIsSum, SumIsNat, SumBound
<1>5. Octets * Cardinality(operational) <= Octets * Cardinality(Interfaces)
  BY <1>1, <1>2, <1>3
<1>6. Octets * Cardinality(operational) \in Nat /\ Octets * Cardinality(Interfaces) \in Nat
  BY <1>2, <1>3
<1>7. Wide \in Nat /\ Octets * Cardinality(Interfaces) < Wide
  BY MetricsAssumption DEF MetricsAssumption
<1>. QED
  BY <1>4, <1>5, <1>6, <1>7

\* An octet that does not wrap the counter of its interface is one more.
LEMMA TransferCounts ==
  ASSUME MetricsTypeOK, NEW d \in Directions, NEW i \in Interfaces, Transfer(d, i),
         NEW e \in Directions, octets[d][i] + 1 < Octets
  PROVE  TableSum(e)' = TableSum(e) + (IF e = d THEN 1 ELSE 0)
<1>1. IsFiniteSet(operational) /\ operational' = operational /\ i \in operational
  BY MetricsAssumption, FS_Subset DEF MetricsAssumption, MetricsTypeOK, Transfer
<1>2. CASE e # d
  <2>1. octets'[e] = octets[e]
    BY <1>2 DEF MetricsTypeOK, Transfer
  <2>2. TableSum(e) \in Nat
    BY TableSumBounded, ModuloWide
  <2>. QED
    BY <1>1, <1>2, <2>1, <2>2, TableSumIsSum
<1>3. CASE e = d
  <2>. DEFINE f == octets[d]
              g == octets'[d]
  <2>1. \A j \in operational : f[j] \in Nat /\ (j # i => g[j] = f[j])
    BY MetricsAssumption DEF MetricsAssumption, MetricsTypeOK, Transfer
  <2>2. g[i] = f[i] + 1
    <3>1. g[i] = (f[i] + 1) % Octets
      BY DEF MetricsTypeOK, Transfer
    <3>2. f[i] \in Nat /\ f[i] + 1 < Octets /\ Octets \in Nat
      BY <1>1, <2>1, MetricsAssumption DEF MetricsAssumption
    <3>. QED
      BY <3>1, <3>2
  <2>3. \A j \in operational : g[j] \in Nat
    BY <2>1, <2>2
  <2>. HIDE DEF f, g
  <2>4. SumOver(g, operational) + f[i] = SumOver(f, operational) + g[i]
    BY <1>1, <2>1, <2>3, SumChange
  <2>5. SumOver(g, operational) \in Nat /\ SumOver(f, operational) \in Nat
    BY <1>1, <2>1, <2>3, SumIsNat
  <2>6. SumOver(g, operational) = SumOver(f, operational) + 1
    BY <1>1, <2>1, <2>2, <2>4, <2>5
  <2>. QED
    BY <1>1, <1>3, <2>6, TableSumIsSum DEF f, g
<1>. QED
  BY <1>2, <1>3

-----------------------------------------------------------------------------
(* The invariant *)

\* Before the first measurement nothing is kept and nothing has been published.
LEMMA InitInv == MetricsInit => MetricsInv
<1>. SUFFICES ASSUME MetricsInit PROVE MetricsInv
  OBVIOUS
<1>. USE DEF MetricsInit
<1>1. MetricsTypeOK
  <2>1. 0 \in 0..(Wide - 1)
    BY ModuloWide
  <2>2. octets \in [Directions -> [Interfaces -> 0..(Octets - 1)]]
    BY MetricsAssumption DEF MetricsAssumption
  <2>3. MaxEvents \in Nat
    BY MetricsAssumption DEF MetricsAssumption
  <2>4. prevBytes \in [Directions -> 0..(Wide - 1)]
    BY <2>1
  <2>5. /\ source.cpu \in 0..100
        /\ source.net \in [Directions -> [bytes : 0..(Wide - 1), dt : 0..MaxEvents]]
    <3>1. NoRate \in [bytes : 0..(Wide - 1), dt : 0..MaxEvents]
      BY <2>1, <2>3 DEF NoRate
    <3>2. source.cpu = 0 /\ source.net = [d \in Directions |-> NoRate]
      BY DEF Nothing
    <3>. QED
      BY <3>1, <3>2
  <2>6. tick \in 1..(MaxEvents + 1) /\ times \in [Modes -> 1..(MaxEvents + 1)]
    BY <2>3
  <2>7. events \in 0..MaxEvents /\ prevTick \in 0..tick /\ last \in [Modes -> 0..(MaxEvents + 1)]
    BY <2>3
  <2>. QED
    BY <2>2, <2>4, <2>5, <2>6, <2>7 DEF MetricsTypeOK
<1>2. Counted
  BY DEF Counted
<1>3. SinceTypeOK
  BY DEF SinceTypeOK, Still
<1>4. SinceIsExact
  BY DEF SinceIsExact
<1>5. RatesAreTraffic
  BY DEF RatesAreTraffic, Nothing
<1>. QED
  BY <1>1, <1>2, <1>3, <1>4, <1>5 DEF MetricsInv

\* What the history records of an octet that passes.
LEMMA TransferRecorded ==
  ASSUME SinceTypeOK, NEW d \in Directions, NEW i \in Interfaces, Transfer(d, i)
  PROVE  /\ SinceTypeOK'
         /\ since'.ticks = since.ticks
         /\ \A e \in Directions : since'.bytes[e] = since.bytes[e] + (IF e = d THEN 1 ELSE 0)
         /\ since'.smooth => since.smooth /\ octets[d][i] + 1 < Octets
<1>. DEFINE b == [since.bytes EXCEPT ![d] = @ + 1]
            sm == since.smooth /\ octets[d][i] + 1 < Octets
<1>1. since' = [[since EXCEPT !.bytes = b] EXCEPT !.smooth = sm]
  BY Zenon DEF Transfer
<1>2. since = [bytes |-> since.bytes, ticks |-> since.ticks, smooth |-> since.smooth]
  BY DEF SinceTypeOK
<1>3. b \in [Directions -> Nat] /\ \A e \in Directions : b[e] = since.bytes[e] + (IF e = d THEN 1 ELSE 0)
  BY DEF SinceTypeOK
<1>4. sm \in BOOLEAN
  BY Zenon
<1>. HIDE DEF b, sm
<1>5. since' = [bytes |-> b, ticks |-> since.ticks, smooth |-> sm]
  BY <1>1, <1>2
<1>6. SinceTypeOK'
  BY <1>3, <1>4, <1>5 DEF SinceTypeOK
<1>. QED
  BY <1>3, <1>5, <1>6 DEF sm

\* A move of the system keeps the invariant.
LEMMA SystemMovesInv == MetricsInv /\ SystemMoves => MetricsInv'
<1>. SUFFICES ASSUME MetricsInv, SystemMoves PROVE MetricsInv'
  OBVIOUS
<1>. USE DEF MetricsInv
<1>0. MaxEvents \in Nat
  BY MetricsAssumption DEF MetricsAssumption
<1>1. UNCHANGED <<open, pushing, statics, source, truth>>
  BY DEF SystemMoves
<1>2. RatesAreTraffic'
  BY <1>1 DEF RatesAreTraffic
<1>3. ASSUME Tick PROVE MetricsInv'
  <2>. USE <1>0, <1>1, <1>3
  <2>1. MetricsTypeOK' /\ Counted'
    BY DEF MetricsTypeOK, Counted, Tick, Event, statics
  <2>2. SinceTypeOK' /\ since'.ticks = since.ticks + 1 /\ since'.bytes = since.bytes
        /\ since'.smooth = since.smooth
    BY DEF SinceTypeOK, Tick
  <2>3. \A d \in Directions : TableSum(d)' = TableSum(d)
    BY TableSumIsSum DEF Tick
  <2>4. SinceIsExact'
    BY <2>2, <2>3 DEF SinceIsExact, SinceTypeOK, MetricsTypeOK, Tick, statics
  <2>. QED
    BY <1>2, <2>1, <2>2, <2>4
<1>4. ASSUME NEW m \in Modes, Spend(m) PROVE MetricsInv'
  <2>. USE <1>0, <1>1, <1>4
  <2>1. MetricsTypeOK' /\ Counted'
    BY DEF MetricsTypeOK, Counted, Spend, Event, statics
  <2>2. SinceTypeOK'
    BY DEF SinceTypeOK, Spend
  <2>3. \A d \in Directions : TableSum(d)' = TableSum(d)
    BY TableSumIsSum DEF Spend
  <2>4. SinceIsExact'
    BY <2>3 DEF SinceIsExact, Spend, statics
  <2>. QED
    BY <1>2, <2>1, <2>2, <2>4
<1>5. ASSUME NEW i \in Interfaces, Reconfigure(i) PROVE MetricsInv'
  <2>. USE <1>0, <1>1, <1>5
  <2>1. MetricsTypeOK' /\ Counted'
    BY DEF MetricsTypeOK, Counted, Reconfigure, Event, statics
  <2>2. SinceTypeOK' /\ since'.ticks = since.ticks /\ ~since'.smooth
    BY DEF SinceTypeOK, Reconfigure
  <2>3. SinceIsExact'
    BY <2>2 DEF SinceIsExact, Reconfigure, statics
  <2>. QED
    BY <1>2, <2>1, <2>2, <2>3
<1>6. ASSUME NEW i \in Interfaces, NEW d \in Directions, Transfer(d, i) PROVE MetricsInv'
  <2>. USE <1>0, <1>1, <1>6
  <2>1. octets' \in [Directions -> [Interfaces -> 0..(Octets - 1)]]
    <3>1. \A x \in 0..(Octets - 1) : (x + 1) % Octets \in 0..(Octets - 1)
      BY MetricsAssumption DEF MetricsAssumption
    <3>2. octets' = [octets EXCEPT ![d][i] = (octets[d][i] + 1) % Octets]
      BY DEF Transfer
    <3>. QED
      BY <3>1, <3>2 DEF MetricsTypeOK
  <2>2. UNCHANGED <<operational, tick, times>> /\ Event
    BY DEF Transfer
  <2>3. MetricsTypeOK' /\ Counted'
    BY <2>1, <2>2 DEF MetricsTypeOK, Counted, Event, statics
  <2>4. /\ SinceTypeOK'
        /\ since'.ticks = since.ticks
        /\ \A e \in Directions : since'.bytes[e] = since.bytes[e] + (IF e = d THEN 1 ELSE 0)
        /\ since'.smooth => since.smooth /\ octets[d][i] + 1 < Octets
    BY TransferRecorded
  <2>5. ASSUME prevTick # 0, since'.smooth, \A x \in Directions : prevBytes[x] # 0,
               NEW e \in Directions
        PROVE  TableSum(e)' = prevBytes[e] + since'.bytes[e]
    <3>1. TableSum(e)' = TableSum(e) + (IF e = d THEN 1 ELSE 0)
      BY <2>4, <2>5, TransferCounts
    <3>2. TableSum(e) = prevBytes[e] + since.bytes[e]
      BY <2>4, <2>5 DEF SinceIsExact
    <3>3. prevBytes[e] \in Nat /\ since.bytes[e] \in Nat
      BY ModuloWide DEF MetricsTypeOK, SinceTypeOK
    <3>. QED
      BY <2>4, <3>1, <3>2, <3>3
  <2>6. SinceIsExact'
    BY <2>2, <2>4, <2>5 DEF SinceIsExact, statics
  <2>. QED
    BY <1>2, <2>3, <2>4, <2>6
<1>. QED
  BY <1>3, <1>4, <1>5, <1>6 DEF SystemMoves

\* A sum is in range, read or not.
LEMMA BytesBounded ==
  ASSUME MetricsTypeOK, NEW d \in Directions, NEW table \in BOOLEAN
  PROVE  Bytes(d, table) \in 0..(Wide - 1)
BY TableSumBounded, ModuloWide DEF Bytes

\* The calls that read the counters change nothing but the count of events.
LEMMA CallsChange ==
  ASSUME MetricsInv, NEW table \in BOOLEAN, NEW clock \in BOOLEAN, Calls(table, clock)
  PROVE  /\ UNCHANGED <<octets, operational, tick, times>>
         /\ events' \in 0..MaxEvents
         /\ Counted'
<1>1. events \in 0..MaxEvents /\ MaxEvents \in Nat
  BY MetricsAssumption DEF MetricsInv, MetricsTypeOK, MetricsAssumption
<1>2. events' \in 0..MaxEvents /\ events <= events'
  BY <1>1 DEF Calls
<1>3. tick \in Nat /\ \A m \in Modes : times[m] \in Nat
  BY <1>1 DEF MetricsInv, MetricsTypeOK
<1>. QED
  BY <1>1, <1>2, <1>3 DEF Calls, Counted, MetricsInv

\* A measurement keeps a sample in range, and starts a new account.
LEMMA RememberExact ==
  ASSUME MetricsInv, NEW table \in BOOLEAN, NEW clock \in BOOLEAN,
         Remember(table, clock), UNCHANGED <<octets, operational, tick, times>>
  PROVE  /\ prevBytes' \in [Directions -> 0..(Wide - 1)]
         /\ prevTick' \in 0..tick' /\ last' \in [Modes -> 0..(MaxEvents + 1)]
         /\ SinceTypeOK' /\ SinceIsExact'
<1>. USE DEF MetricsInv, Remember
<1>1. prevBytes' \in [Directions -> 0..(Wide - 1)]
  BY BytesBounded
<1>2. prevTick' \in 0..tick'
  BY MetricsAssumption DEF MetricsTypeOK, MetricsAssumption
<1>3. last' \in [Modes -> 0..(MaxEvents + 1)]
  BY MetricsAssumption DEF MetricsTypeOK, MetricsAssumption
<1>4. SinceTypeOK'
  BY DEF SinceTypeOK, Still
<1>5. SinceIsExact'
  <2>1. \A d \in Directions : TableSum(d)' = TableSum(d) /\ TableSum(d) \in Nat
    BY TableSumIsSum, TableSumBounded, ModuloWide
  <2>2. \A d \in Directions : since'.bytes[d] = 0
    BY DEF Still
  <2>3. \A d \in Directions : prevBytes'[d] # 0 => prevBytes'[d] = TableSum(d)
    BY DEF Bytes
  <2>4. tick' = prevTick' + since'.ticks
    BY MetricsAssumption DEF MetricsTypeOK, MetricsAssumption, Still
  <2>. QED
    BY <2>1, <2>2, <2>3, <2>4 DEF SinceIsExact
<1>. QED
  BY <1>1, <1>2, <1>3, <1>4, <1>5

\* The processor's usage is a percentage, whatever the three times are.
LEMMA CpuBounded ==
  ASSUME MetricsTypeOK, NEW clock \in BOOLEAN
  PROVE  Cpu(clock) \in 0..100
<1>1. \A m \in Modes : times[m] \in Int /\ last[m] \in Int
  BY MetricsAssumption DEF MetricsTypeOK, MetricsAssumption
<1>2. \A m \in Modes : Diff(m) \in 0..(Wide - 1)
  BY <1>1, ModuloWide DEF Diff, Minus
<1>3. Total \in 0..(Wide - 1) /\ Diff("idle") \in 0..(Wide - 1)
  BY <1>2, ModuloWide DEF Total, Modes
<1>. DEFINE none == ~clock \/ last["idle"] = 0 \/ Total = 0 \/ Diff("idle") > Total
<1>4. CASE none
  BY <1>4 DEF Cpu
<1>5. CASE ~none
  <2>1. Total \in Nat /\ Total # 0 /\ Total - Diff("idle") \in 0..Total
    BY <1>3, <1>5
  <2>2. Cpu(clock) = (100 * (Total - Diff("idle"))) \div Total
    BY <1>5 DEF Cpu
  <2>. QED
    BY <2>1, <2>2, PercentBounded
<1>. QED
  BY <1>4, <1>5

\* A rate is in range and, if the table was read, is the traffic since the sample before.
LEMMA NetExact ==
  ASSUME MetricsInv, NEW table \in BOOLEAN, NEW d \in Directions
  PROVE  /\ Net(table) \in [Directions -> [bytes : 0..(Wide - 1), dt : 0..MaxEvents]]
         /\ Net(table)[d] # NoRate /\ since.smooth /\ table =>
              Net(table)[d] = [bytes |-> since.bytes[d], dt |-> since.ticks]
<1>. USE DEF MetricsInv
<1>1. \A e \in Directions : Bytes(e, table) \in 0..(Wide - 1) /\ prevBytes[e] \in 0..(Wide - 1)
  BY BytesBounded DEF MetricsTypeOK
<1>2. \A e \in Directions : Minus(Bytes(e, table), prevBytes[e]) \in 0..(Wide - 1)
  BY <1>1, ModuloWide DEF Minus
<1>3. prevTick # 0 => tick - prevTick \in 0..MaxEvents
  BY MetricsAssumption DEF MetricsTypeOK, MetricsAssumption
<1>4. NoRate \in [bytes : 0..(Wide - 1), dt : 0..MaxEvents]
  BY MetricsAssumption, ModuloWide DEF MetricsAssumption, NoRate
<1>5. Net(table) \in [Directions -> [bytes : 0..(Wide - 1), dt : 0..MaxEvents]]
  BY <1>2, <1>3, <1>4 DEF Net
<1>6. ASSUME Net(table)[d] # NoRate, since.smooth, table
      PROVE  Net(table)[d] = [bytes |-> since.bytes[d], dt |-> since.ticks]
  <2>1. /\ prevTick # 0 /\ \A e \in Directions : prevBytes[e] # 0
        /\ Net(table)[d] = [bytes |-> Minus(Bytes(d, table), prevBytes[d]),
                            dt |-> tick - prevTick]
    BY <1>6 DEF Net
  <2>2. tick = prevTick + since.ticks /\ Bytes(d, table) = prevBytes[d] + since.bytes[d]
    BY <1>6, <2>1 DEF SinceIsExact, Bytes
  <2>3. since.ticks \in Nat /\ since.bytes[d] \in Nat /\ prevTick \in Nat
    BY MetricsAssumption DEF MetricsTypeOK, SinceTypeOK, MetricsAssumption
  <2>4. tick - prevTick = since.ticks
    BY <2>2, <2>3
  <2>5. Bytes(d, table) - prevBytes[d] = since.bytes[d] /\ since.bytes[d] \in 0..(Wide - 1)
    <3>1. Bytes(d, table) \in 0..(Wide - 1) /\ prevBytes[d] \in 0..(Wide - 1) /\ Wide \in Nat
      BY <1>1, ModuloWide
    <3>. QED
      BY <2>2, <2>3, <3>1
  <2>6. Minus(Bytes(d, table), prevBytes[d]) = since.bytes[d]
    BY <2>5, ModuloWide DEF Minus
  <2>. QED
    BY <2>1, <2>4, <2>6
<1>. QED
  BY <1>5, <1>6

\* Every step keeps the invariant.
LEMMA StepInv == MetricsInv /\ [MetricsNext]_metricVars => MetricsInv'
<1>. SUFFICES ASSUME MetricsInv, [MetricsNext]_metricVars PROVE MetricsInv'
  OBVIOUS
<1>1. CASE SystemMoves
  BY <1>1, SystemMovesInv
<1>2. CASE sendMetrics
  <2>. USE <1>2 DEF sendMetrics
  <2>1. PICK table \in BOOLEAN, clock \in BOOLEAN :
          Calls(table, clock) /\ Remember(table, clock)
    OBVIOUS
  <2>2. /\ UNCHANGED <<octets, operational, tick, times>>
        /\ events' \in 0..MaxEvents /\ Counted'
    BY <2>1, CallsChange
  <2>3. MetricsTypeOK'
    BY <2>1, <2>2, RememberExact DEF MetricsTypeOK, MetricsInv
  <2>4. RatesAreTraffic'
    BY DEF RatesAreTraffic, MetricsInv
  <2>. QED
    BY <2>1, <2>2, <2>3, <2>4, RememberExact DEF MetricsInv
<1>3. CASE Publish
  <2>. USE <1>3 DEF Publish
  <2>1. PICK table \in BOOLEAN, clock \in BOOLEAN :
          /\ Calls(table, clock)
          /\ source' = [cpu |-> Cpu(clock), net |-> Net(table)]
          /\ truth' = [since EXCEPT !.smooth = @ /\ table]
          /\ Remember(table, clock)
    OBVIOUS
  <2>2. /\ UNCHANGED <<octets, operational, tick, times>>
        /\ events' \in 0..MaxEvents /\ Counted'
    BY <2>1, CallsChange
  <2>3. source'.cpu \in 0..100
    BY <2>1, CpuBounded DEF MetricsInv
  <2>4. Net(table) \in [Directions -> [bytes : 0..(Wide - 1), dt : 0..MaxEvents]]
    BY NetExact DEF Directions
  <2>5. MetricsTypeOK'
    BY <2>1, <2>2, <2>3, <2>4, RememberExact DEF MetricsTypeOK, MetricsInv
  <2>6. /\ truth'.bytes = since.bytes /\ truth'.ticks = since.ticks
        /\ truth'.smooth => since.smooth /\ table
    BY <2>1 DEF MetricsInv, SinceTypeOK
  <2>7. RatesAreTraffic'
    BY <2>1, <2>6, NetExact DEF RatesAreTraffic
  <2>. QED
    BY <2>1, <2>2, <2>5, <2>7, RememberExact DEF MetricsInv
<1>4. CASE Toggle
  <2>. USE <1>4 DEF Toggle, system, statics
  <2>1. source'.cpu = 0 /\ source'.net = [d \in Directions |-> NoRate]
    BY DEF Nothing
  <2>2. NoRate \in [bytes : 0..(Wide - 1), dt : 0..MaxEvents]
    BY MetricsAssumption, ModuloWide DEF MetricsAssumption, NoRate
  <2>3. MetricsTypeOK'
    BY <2>1, <2>2 DEF MetricsTypeOK, MetricsInv
  <2>4. RatesAreTraffic'
    BY <2>1 DEF RatesAreTraffic
  <2>5. Counted' /\ SinceTypeOK' /\ SinceIsExact'
    <3>1. \A d \in Directions : TableSum(d)' = TableSum(d)
      BY TableSumIsSum
    <3>. QED
      BY <3>1 DEF MetricsInv, Counted, SinceTypeOK, SinceIsExact
  <2>. QED
    BY <2>3, <2>4, <2>5 DEF MetricsInv
<1>5. CASE UNCHANGED metricVars
  <2>. USE <1>5 DEF metricVars, system, statics
  <2>1. \A d \in Directions : TableSum(d)' = TableSum(d)
    BY TableSumIsSum
  <2>. QED
    BY <2>1 DEF MetricsInv, MetricsTypeOK, Counted, SinceTypeOK, SinceIsExact, RatesAreTraffic
<1>. QED
  BY <1>1, <1>2, <1>3, <1>4, <1>5 DEF MetricsNext

\* The invariant holds in every reachable state.
THEOREM MetricsInvariant == MetricsSpec => []MetricsInv
<1>. QED
  BY InitInv, StepInv, PTL DEF MetricsSpec

\* Every variable of the measurement stays in its type, for every set of interfaces,
\* every width of the counters and any number of events: the usage of the processor
\* that is published is a percentage, and no number of octets exceeds its type.
THEOREM MetricsTyped == MetricsSpec => []MetricsTypeOK
<1>1. MetricsInv => MetricsTypeOK
  BY DEF MetricsInv
<1>. QED
  BY <1>1, MetricsInvariant, PTL

\* A published rate is the traffic between the two measurements it is the rate of,
\* whatever was measured and not published, and however often the controller was
\* stopped and whichever earlier readings failed, unless a counter wrapped, an
\* interface came or went, or the last reading failed.
THEOREM RatesAreRight == MetricsSpec => []RatesAreTraffic
<1>1. MetricsInv => RatesAreTraffic
  BY DEF MetricsInv
<1>. QED
  BY <1>1, MetricsInvariant, PTL
=============================================================================

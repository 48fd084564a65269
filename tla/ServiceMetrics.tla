---------------------------- MODULE ServiceMetrics ----------------------------
(***************************************************************************)
(* What ServiceController measures and publishes                           *)
(* (measureSystemMetrics, sendMetrics and pushMetricsToSource of           *)
(* src/src/components/service/service_controller.cpp) from the counters of *)
(* Windows: octets per interface, the tick count and the processor's       *)
(* times.  Either call that reads counters may fail.                       *)
(*                                                                         *)
(* A measurement is the difference to the one before, which it keeps in    *)
(* static variables; they outlive a stop of the controller.  One push      *)
(* measures twice, for the request and for the source, and the counters    *)
(* may move in between.  A quotient of doubles is kept as its two terms.   *)
(***************************************************************************)
EXTENDS Integers, FiniteSetsExt

CONSTANTS
  Interfaces,  \* network interfaces but the loopback
  FirstOctets, \* values an interface's counters may have when the service starts
  Octets,      \* the counters of an interface count modulo this (DWORD)
  Wide,        \* ULONGLONG arithmetic is modulo this
  MaxEvents    \* bound: how often a counter moves or a call that reads one fails

ASSUME MetricsAssumption ==
  /\ IsFiniteSet(Interfaces)
  /\ Octets \in Nat \ {0} /\ Wide \in Nat /\ Wide > Octets * Cardinality(Interfaces)
  /\ FirstOctets \subseteq 0..(Octets - 1)
  /\ MaxEvents \in Nat

Directions == {"rx", "tx"}
Modes      == {"idle", "kernel", "user"}

VARIABLES
  octets,      \* dwInOctets and dwOutOctets of every interface
  operational, \* interfaces whose dwOperStatus is operational
  tick,        \* GetTickCount64()
  times,       \* GetSystemTimes(); kernel time includes idle time
  events,      \* what the bound MaxEvents counts
  open,        \* m_networkManager and m_serviceSource are not null
  pushing,     \* pushMetricsToSource is between its two measurements
  prevBytes,   \* prevRxBytes and prevTxBytes
  prevTick,    \* prevNetTick
  last,        \* lastIdle, lastKernel and lastUser
  source,      \* cpuUsage, netRxKbps and netTxKbps of the source
  since,       \* history: what really happened since the last measurement
  truth        \* history: the same, for the measurement published last

system     == <<octets, operational, tick, times, events>>
statics    == <<prevBytes, prevTick, last>>
metricVars == <<system, open, pushing, statics, source, since, truth>>

NoRate  == [bytes |-> 0, dt |-> 0]
Nothing == [cpu |-> 0, net |-> [d \in Directions |-> NoRate]]
Still   == [bytes |-> [d \in Directions |-> 0], ticks |-> 0, smooth |-> TRUE]

MetricsInit ==
  /\ octets \in [Directions -> [Interfaces -> FirstOctets]]
  /\ operational = Interfaces
  /\ tick = 1 /\ times = [m \in Modes |-> 1]
  /\ events = 0
  /\ open = TRUE /\ pushing = FALSE
  /\ prevBytes = [d \in Directions |-> 0] /\ prevTick = 0
  /\ last = [m \in Modes |-> 0]
  /\ source = Nothing
  /\ since = Still /\ truth = Still

-----------------------------------------------------------------------------
(* The system *)

Event == events < MaxEvents /\ events' = events + 1

\* An octet passes; the interface's counter wraps at its width.
Transfer(d, i) ==
  /\ Event /\ i \in operational
  /\ octets' = [octets EXCEPT ![d][i] = (@ + 1) % Octets]
  /\ since' = [since EXCEPT !.bytes[d] = @ + 1,
                            !.smooth = @ /\ octets[d][i] + 1 < Octets]
  /\ UNCHANGED <<operational, tick, times>>

\* An interface goes down or comes up, with its counters as they are.
Reconfigure(i) ==
  /\ Event
  /\ operational' = IF i \in operational THEN operational \ {i} ELSE operational \cup {i}
  /\ since' = [since EXCEPT !.smooth = FALSE]
  /\ UNCHANGED <<octets, tick, times>>

Tick ==
  /\ Event
  /\ tick' = tick + 1
  /\ since' = [since EXCEPT !.ticks = @ + 1]
  /\ UNCHANGED <<octets, operational, times>>

\* The three times are not read at one instant: each advances on its own.
Spend(m) ==
  /\ Event
  /\ times' = [times EXCEPT ![m] = @ + 1]
  /\ UNCHANGED <<octets, operational, tick, since>>

SystemMoves ==
  /\ Tick \/ (\E m \in Modes : Spend(m))
     \/ (\E i \in Interfaces : Reconfigure(i) \/ \E d \in Directions : Transfer(d, i))
  /\ UNCHANGED <<open, pushing, statics, source, truth>>

-----------------------------------------------------------------------------
(* measureSystemMetrics *)

Minus(a, b) == (a - b) % Wide

\* In every operator below, `table` says whether GetIfTable succeeds, and `clock`
\* whether GetSystemTimes does.
TableSum(d) == MapThenSumSet(LAMBDA i : octets[d][i], operational)

\* Without the table the sums keep their 0, and are used as if they had been read.
Bytes(d, table) == IF table THEN TableSum(d) ELSE 0

\* The rates are left out, and read as 0, without a previous sample of both
\* directions and before the tick count has moved.
Net(table) ==
  [d \in Directions |->
     IF prevTick # 0 /\ tick > prevTick /\ \A e \in Directions : prevBytes[e] # 0
       THEN [bytes |-> Minus(Bytes(d, table), prevBytes[d]), dt |-> tick - prevTick]
       ELSE NoRate]

Diff(m) == Minus(times[m], last[m])

Total == (Diff("kernel") + Diff("user")) % Wide

\* Slip in measureSystemMetrics: no clamp, as in getRealSystemMetrics
\* (src/src/core/ipc_server.cpp:44).
Cpu_Unclamped(clock) ==
  IF ~clock \/ last["idle"] = 0 \/ Total = 0 THEN 0 ELSE (100 * (Total - Diff("idle"))) \div Total

\* In whole percent.
Cpu(clock) ==
  IF ~clock \/ last["idle"] = 0 \/ Total = 0 \/ Diff("idle") > Total THEN 0
    ELSE (100 * (Total - Diff("idle"))) \div Total

\* Slip in measureSystemMetrics: without a rate the sample is not kept, but its time is.
Remember_OnlyWithRate(table, clock) ==
  /\ prevBytes' = IF \A d \in Directions : Net(table)[d] = NoRate /\ prevTick # 0
                    THEN prevBytes ELSE [d \in Directions |-> Bytes(d, table)]
  /\ prevTick' = tick /\ last' = (IF clock THEN times ELSE last)
  /\ since' = Still

\* The sums and their time are kept, read or not; the processor's times only if read.
Remember(table, clock) ==
  /\ prevBytes' = [d \in Directions |-> Bytes(d, table)]
  /\ prevTick' = tick /\ last' = (IF clock THEN times ELSE last)
  /\ since' = Still

\* A failing call is an event of the system.
Calls(table, clock) ==
  /\ events' = events + (IF table THEN 0 ELSE 1) + (IF clock THEN 0 ELSE 1)
  /\ events' <= MaxEvents
  /\ UNCHANGED <<octets, operational, tick, times>>

-----------------------------------------------------------------------------
(* The controller *)

\* sendMetrics() measures for its request, which carries the processor's usage only;
\* a stopped controller measures nothing.
sendMetrics ==
  /\ open /\ ~pushing /\ pushing' = TRUE
  /\ \E table, clock \in BOOLEAN : Calls(table, clock) /\ Remember(table, clock)
  /\ UNCHANGED <<open, source, truth>>

\* The rest of pushMetricsToSource measures again, and publishes that.
Publish ==
  /\ pushing /\ pushing' = FALSE
  /\ \E table, clock \in BOOLEAN :
       /\ Calls(table, clock)
       /\ source' = [cpu |-> Cpu(clock), net |-> Net(table)]
       /\ truth' = [since EXCEPT !.smooth = @ /\ table]
       /\ Remember(table, clock)
  /\ UNCHANGED open

\* stop(), and start() with a new source; the statics stay.
Toggle ==
  /\ ~pushing
  /\ open' = ~open /\ source' = Nothing /\ truth' = Still
  /\ UNCHANGED <<system, pushing, statics, since>>

MetricsNext == SystemMoves \/ sendMetrics \/ Publish \/ Toggle

MetricsSpec == MetricsInit /\ [][MetricsNext]_metricVars

-----------------------------------------------------------------------------
(* Properties *)

\* Every variable stays in its type: what is published of the processor is a
\* percentage, whatever the times do, and no number of octets is negative.
MetricsTypeOK ==
  /\ octets \in [Directions -> [Interfaces -> 0..(Octets - 1)]]
  /\ operational \subseteq Interfaces
  /\ tick \in 1..(MaxEvents + 1) /\ times \in [Modes -> 1..(MaxEvents + 1)]
  /\ events \in 0..MaxEvents /\ open \in BOOLEAN /\ pushing \in BOOLEAN
  /\ prevBytes \in [Directions -> 0..(Wide - 1)]
  /\ prevTick \in 0..tick /\ last \in [Modes -> 0..(MaxEvents + 1)]
  /\ source.cpu \in 0..100
  /\ source.net \in [Directions -> [bytes : 0..(Wide - 1), dt : 0..MaxEvents]]

\* A published rate is the traffic between two measurements over the time between
\* the same two, in a period in which no counter wrapped and no interface came or
\* went, and whose end was read: whatever samples were taken and not published,
\* whether or not earlier readings failed, and however long the controller was
\* stopped before.  (When the reading at the end fails, 0 minus the last sample is
\* published.)
RatesAreTraffic ==
  \A d \in Directions :
    source.net[d] # NoRate /\ truth.smooth =>
      source.net[d] = [bytes |-> truth.bytes[d], dt |-> truth.ticks]
=============================================================================

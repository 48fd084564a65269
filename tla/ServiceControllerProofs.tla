----------------------- MODULE ServiceControllerProofs -----------------------
(***************************************************************************)
(* Proofs about ServiceController, for any plugins, timer periods, number  *)
(* of restarts and length of stalls.                                       *)
(*                                                                         *)
(* The argument: timers survive stop(), so what keeps a stopped controller *)
(* silent is that the network manager and the source exist only while it   *)
(* runs, and no reply is waited for without a network manager; and what    *)
(* keeps one watchdog is that its pointer always names the newest start(). *)
(* That the watchdog raises no false alarm rests on the phases of its      *)
(* timer and the one that feeds it (FedInTime).                            *)
(***************************************************************************)
EXTENDS ServiceController, TLAPS

\* The objects start() makes exist exactly while the controller runs, and only a
\* network manager has replies to wait for.
ChannelsFollow ==
  /\ networkManager = running
  /\ serviceSource = running
  /\ ~networkManager => inflight = {}
  /\ ~serviceSource => serviceStatus = ""

\* The type invariant in three parts, the timers numbered by a start() that was made.
FlagTypes ==
  /\ running \in BOOLEAN /\ paused \in BOOLEAN
  /\ networkManager \in BOOLEAN /\ serviceSource \in BOOLEAN
  /\ tripped \in BOOLEAN
  /\ serviceStatus \in {"", "Running", "Paused"}
  /\ loadedPlugins \subseteq Plugins
  /\ inflight \subseteq Endpoints

CountTypes ==
  /\ starts \in 0..MaxStarts
  /\ watchdogTimer \in 0..MaxStarts
  /\ watchdogMissed \in {0, 1, 2}
  /\ stalls \in {0, 1, 2}

TimerTypes ==
  /\ armed \subseteq Kinds \X (1..starts)
  /\ due \subseteq armed
  /\ left \in [armed -> Nat]
  /\ \A t \in armed : left[t] \in 1..Interval[t[1]]
  /\ \A n \in 1..starts : <<"metrics", n>> \in armed

\* The watchdog w and the newest metrics timer m.  After a tick the metrics timer
\* is next to time out, unless the loop has stalled (the first two conjuncts); a
\* second tick is missed only after a stall, and then the metrics timer is ahead by
\* the difference of the periods (the next two), so that the third needs another.
Fed(w, m) ==
  LET ahead == left[w] >= left[m] + (Interval["watchdog"] - Interval["metrics"])
      next  == left[w] >= left[m]
  IN /\ w \in due => stalls > 0 \/ next
     /\ watchdogMissed = 1 /\ m \notin due => stalls > 0 \/ next
     /\ watchdogMissed = 1 /\ m \notin due /\ w \in due => stalls > 0 /\ ahead
     /\ watchdogMissed = 2 /\ m \notin due => stalls > 0 /\ ahead
     /\ watchdogMissed = 2 /\ w \in due => stalls = 2

FedInTime == running => Fed(<<"watchdog", starts>>, <<"metrics", starts>>)

ControllerInv ==
  /\ FlagTypes /\ CountTypes /\ TimerTypes /\ ChannelsFollow /\ OneWatchdog
  /\ FedInTime /\ NoFalseAlarm

-----------------------------------------------------------------------------
\* The invariant contains the type invariant of the model.
LEMMA InvTypes == ControllerInv => ControllerTypeOK
<1>. SUFFICES ASSUME ControllerInv PROVE ControllerTypeOK
  OBVIOUS
<1>1. armed \subseteq Kinds \X (1..MaxStarts)
  <2>1. starts \in Nat /\ starts <= MaxStarts
    BY ControllerAssumption DEF ControllerInv, CountTypes
  <2>2. 1..starts \subseteq 1..MaxStarts
    BY <2>1, ControllerAssumption
  <2>. QED
    BY <2>2 DEF ControllerInv, TimerTypes
<1>2. watchdogMissed \in 0..(MissLimit - 1) /\ stalls \in 0..2
  BY DEF ControllerInv, CountTypes, MissLimit
<1>. QED
  BY <1>1, <1>2 DEF ControllerInv, FlagTypes, CountTypes, TimerTypes, ControllerTypeOK

\* What is left of a period p when the loop comes back d units later to a timer
\* that had l units left, and what it is if no second timeout passed.
LEMMA RestOfPeriod ==
  ASSUME NEW p \in Nat \ {0}, NEW l \in Nat, NEW d \in Nat, l <= d
  PROVE  p - ((d - l) % p) \in 1..p
OBVIOUS

LEMMA RestOfFirst ==
  ASSUME NEW p \in Nat \ {0}, NEW l \in Nat, NEW d \in Nat, l <= d, d - l < p
  PROVE  p - ((d - l) % p) = p - (d - l)
OBVIOUS

\* The initial states satisfy the invariant.
LEMMA ControllerInitInv == ControllerInit => ControllerInv
<1>. SUFFICES ASSUME ControllerInit PROVE ControllerInv
  OBVIOUS
<1>1. FlagTypes /\ ChannelsFollow
  BY DEF ControllerInit, FlagTypes, ChannelsFollow
<1>2. /\ starts = 0 /\ watchdogTimer = 0 /\ watchdogMissed = 0
      /\ armed = {} /\ due = {} /\ ~running /\ stalls = 0 /\ ~tripped
  BY Zenon DEF ControllerInit
<1>3. CountTypes
  BY <1>2, ControllerAssumption DEF CountTypes
<1>4. left \in [{} -> Nat]
  BY Zenon DEF ControllerInit
<1>5. TimerTypes
  BY <1>2, <1>4 DEF TimerTypes
<1>6. OneWatchdog /\ FedInTime /\ NoFalseAlarm
  BY <1>2 DEF OneWatchdog, FedInTime, NoFalseAlarm
<1>. QED
  BY <1>1, <1>3, <1>5, <1>6 DEF ControllerInv

\* A start makes the next generation of timers and the only watchdog.
LEMMA StartInv == ControllerInv /\ Start => ControllerInv'
<1>. SUFFICES ASSUME ControllerInv, Start PROVE ControllerInv'
  OBVIOUS
<1>. USE DEF ControllerInv
<1>1. PICK ok \in SUBSET Plugins : OpenChannels(ok)
  BY DEF Start
<1>2. starts \in Nat /\ starts' = starts + 1 /\ starts' \in 1..MaxStarts
  BY ControllerAssumption DEF Start, ArmTimers, CountTypes
<1>3. /\ armed' = armed \cup (Kinds \X {starts'})
      /\ watchdogTimer' = starts' /\ watchdogMissed' = 0
      /\ stalls' = 0 /\ tripped' = FALSE /\ due' = due
  BY Zenon DEF Start, ArmTimers
<1>4. FlagTypes' /\ ChannelsFollow'
  BY <1>1, <1>3 DEF OpenChannels, FlagTypes, ChannelsFollow, Endpoints
<1>5. CountTypes'
  BY <1>2, <1>3, ControllerAssumption DEF CountTypes
<1>6. TimerTypes'
  <2>1. 1..starts \subseteq 1..starts' /\ starts' \in 1..starts'
    BY <1>2
  <2>2. armed' \subseteq Kinds \X (1..starts')
    BY <2>1, <1>3 DEF TimerTypes
  <2>3. PICK first \in Phases :
          left' = [t \in armed' |-> IF t \in Kinds \X {starts'} THEN first[t[1]] ELSE left[t]]
    BY <1>2, <1>3 DEF Start, ArmTimers
  <2>4. \A k \in Kinds : first[k] \in 1..Interval[k] /\ Interval[k] \in Nat
    BY ControllerAssumption DEF Phases, Kinds
  <2>5. \A t \in armed' : left'[t] \in 1..Interval[t[1]] /\ left'[t] \in Nat
    <3>. SUFFICES ASSUME NEW t \in armed'
                  PROVE  left'[t] \in 1..Interval[t[1]] /\ left'[t] \in Nat
      OBVIOUS
    <3>1. CASE t \in Kinds \X {starts'}
      BY <2>3, <2>4, <3>1
    <3>2. CASE t \notin Kinds \X {starts'}
      BY <1>3, <2>3, <3>2 DEF TimerTypes
    <3>. QED
      BY <3>1, <3>2
  <2>6. left' \in [armed' -> Nat]
    BY <2>3, <2>5
  <2>7. \A n \in 1..starts' : <<"metrics", n>> \in armed'
    <3>1. \A n \in 1..starts' : n \in 1..starts \/ n = starts'
      BY <1>2
    <3>. QED
      BY <3>1, <1>3 DEF TimerTypes, Kinds
  <2>. QED
    BY <1>3, <2>2, <2>5, <2>6, <2>7 DEF TimerTypes
<1>7. OneWatchdog'
  <2>1. {t \in armed : t[1] = "watchdog"} = {}
    BY DEF OneWatchdog, Start
  <2>2. {t \in armed' : t[1] = "watchdog"} = {<<"watchdog", starts'>>}
    BY <2>1, <1>3 DEF Kinds
  <2>3. running'
    BY <1>1, Zenon DEF OpenChannels
  <2>4. starts' > 0
    BY <1>2
  <2>. QED
    BY <2>2, <2>3, <2>4, <1>3 DEF OneWatchdog
<1>8. FedInTime' /\ NoFalseAlarm'
  <2>1. starts' \notin 1..starts
    BY <1>2
  <2>2. <<"watchdog", starts'>> \notin due'
    BY <2>1, <1>3 DEF TimerTypes
  <2>. QED
    BY <2>2, <1>3 DEF FedInTime, Fed, NoFalseAlarm
<1>. QED
  BY <1>4, <1>5, <1>6, <1>7, <1>8

\* A stop takes the watchdog and the channels away and leaves the other timers.
LEMMA StopInv == ControllerInv /\ Stop => ControllerInv'
<1>. SUFFICES ASSUME ControllerInv, Stop PROVE ControllerInv'
  OBVIOUS
<1>. USE DEF ControllerInv
<1>. DEFINE dead == {<<"watchdog", watchdogTimer>>}
<1>1. watchdogTimer = starts /\ starts > 0 /\ starts \in Nat
  BY ControllerAssumption DEF OneWatchdog, Stop, CountTypes
<1>2. /\ armed' = armed \ dead /\ due' = due \ dead
      /\ left' = [t \in armed \ dead |-> left[t]]
      /\ watchdogTimer' = 0 /\ UNCHANGED <<starts, watchdogMissed, tripped, stalls>>
  <2>1. watchdogTimer # 0
    BY <1>1
  <2>. QED
    BY <2>1, Zenon DEF Stop, CloseChannels, watchdog
<1>3. FlagTypes' /\ ChannelsFollow'
  BY <1>2 DEF Stop, ClearRunning, UnloadPlugins, CloseChannels, FlagTypes, ChannelsFollow
<1>4. CountTypes'
  BY <1>2, ControllerAssumption DEF CountTypes
<1>5. TimerTypes'
  BY <1>2 DEF TimerTypes
<1>6. OneWatchdog'
  <2>1. {t \in armed' : t[1] = "watchdog"} = {}
    BY <1>2 DEF OneWatchdog, Stop
  <2>2. ~running'
    BY DEF Stop, ClearRunning
  <2>. QED
    BY <1>1, <1>2, <2>1, <2>2 DEF OneWatchdog
<1>7. FedInTime' /\ NoFalseAlarm'
  BY <1>2 DEF Stop, ClearRunning, FedInTime, NoFalseAlarm
<1>. QED
  BY <1>3, <1>4, <1>5, <1>6, <1>7

\* Time moves every timer within its period.
LEMMA ElapseTimers ==
  ASSUME NEW d \in 1..MaxElapsed, ControllerInv, Elapse(d)
  PROVE  /\ TimerTypes'
         /\ \A t \in armed :
              /\ t \in due' <=> left[t] <= d
              /\ left[t] > d => left'[t] = left[t] - d
              /\ left[t] <= d => left'[t] = Interval[t[1]] - ((d - left[t]) % Interval[t[1]])
<1>1. d \in Nat
  BY ControllerAssumption
<1>2. \A t \in armed : left[t] \in 1..Interval[t[1]] /\ Interval[t[1]] \in Nat \ {0}
  BY ControllerAssumption DEF ControllerInv, TimerTypes
<1>3. /\ left' = [t \in armed |->
                   IF left[t] > d THEN left[t] - d
                   ELSE Interval[t[1]] - ((d - left[t]) % Interval[t[1]])]
      /\ due' = {t \in armed : left[t] <= d} /\ armed' = armed /\ starts' = starts
  BY Zenon DEF Elapse
<1>4. \A t \in armed : left'[t] \in 1..Interval[t[1]]
  <2>. SUFFICES ASSUME NEW t \in armed PROVE left'[t] \in 1..Interval[t[1]]
    OBVIOUS
  <2>1. CASE left[t] > d
    BY <1>1, <1>2, <1>3, <2>1
  <2>2. CASE ~(left[t] > d)
    <3>1. left'[t] = Interval[t[1]] - ((d - left[t]) % Interval[t[1]])
      BY <1>3, <2>2
    <3>2. left[t] \in Nat /\ left[t] <= d
      BY <1>1, <1>2, <2>2
    <3>. QED
      BY <1>1, <1>2, <3>1, <3>2, RestOfPeriod
  <2>. QED
    BY <2>1, <2>2
<1>5. \A t \in armed : left'[t] \in Nat
  BY <1>2, <1>4
<1>6. TimerTypes'
  BY <1>3, <1>4, <1>5 DEF ControllerInv, TimerTypes
<1>7. \A t \in armed :
        /\ t \in due' <=> left[t] <= d
        /\ left[t] > d => left'[t] = left[t] - d
        /\ left[t] <= d => left'[t] = Interval[t[1]] - ((d - left[t]) % Interval[t[1]])
  BY <1>1, <1>2, <1>3
<1>. QED
  BY <1>6, <1>7

\* What a pass finds due keeps the metrics timer ahead of the watchdog, or the
\* pass was a stall.
LEMMA ElapseFed ==
  ASSUME NEW d \in 1..MaxElapsed, ControllerInv, Elapse(d), running
  PROVE  Fed(<<"watchdog", starts>>, <<"metrics", starts>>)'
<1>. DEFINE w  == <<"watchdog", starts>>
            m  == <<"metrics", starts>>
            iw == Interval["watchdog"]
            im == Interval["metrics"]
<1>1. w \in armed /\ m \in armed
  <2>1. starts \in Nat /\ starts > 0 /\ w \in {t \in armed : t[1] = "watchdog"}
    BY ControllerAssumption DEF ControllerInv, OneWatchdog, CountTypes
  <2>2. starts \in 1..starts
    BY <2>1
  <2>. QED
    BY <2>1, <2>2 DEF ControllerInv, TimerTypes
<1>2. /\ d \in Nat /\ d > 0 /\ iw \in Nat \ {0} /\ im \in Nat \ {0} /\ im <= iw
      /\ left[w] \in 1..iw /\ left[m] \in 1..im
  BY <1>1, ControllerAssumption DEF ControllerInv, TimerTypes, Kinds
<1>3. /\ w \in due' <=> left[w] <= d
      /\ m \in due' <=> left[m] <= d
      /\ left[w] > d => left'[w] = left[w] - d
      /\ left[m] > d => left'[m] = left[m] - d
      /\ left[w] <= d => left'[w] = iw - ((d - left[w]) % iw)
      /\ left'[w] \in 1..iw /\ left'[m] \in 1..im
  BY <1>1, ElapseTimers DEF TimerTypes, Elapse
<1>4. left[w] <= d /\ d - left[w] < iw => left'[w] = iw - (d - left[w])
  BY <1>2, <1>3, RestOfFirst
<1>5. /\ stalls \in {0, 1, 2} /\ watchdogMissed' = watchdogMissed
      /\ stalls' = IF d > iw - im /\ stalls < 2 THEN stalls + 1 ELSE stalls
  BY DEF ControllerInv, CountTypes, Elapse, watchdog, Stall
<1>6. /\ stalls' \in {0, 1, 2} /\ stalls' >= stalls
      /\ d > iw - im => stalls' > 0
      /\ d > iw - im /\ stalls > 0 => stalls' = 2
  BY <1>5
<1>7. w \notin due /\ m \notin due
  BY DEF Elapse
<1>8. /\ watchdogMissed = 1 => stalls > 0 \/ left[w] >= left[m]
      /\ watchdogMissed = 2 => stalls > 0 /\ left[w] >= left[m] + (iw - im)
  BY <1>7 DEF ControllerInv, FedInTime, Fed
<1>a. w \in due' => stalls' > 0 \/ left'[w] >= left'[m]
  BY <1>2, <1>3, <1>4, <1>6
<1>b. watchdogMissed' = 1 /\ m \notin due' => stalls' > 0 \/ left'[w] >= left'[m]
  BY <1>2, <1>3, <1>5, <1>6, <1>8
<1>c. watchdogMissed' = 1 /\ m \notin due' /\ w \in due'
        => stalls' > 0 /\ left'[w] >= left'[m] + (iw - im)
  BY <1>2, <1>3, <1>4, <1>5, <1>6, <1>8
<1>d. watchdogMissed' = 2 /\ m \notin due' => stalls' > 0 /\ left'[w] >= left'[m] + (iw - im)
  BY <1>2, <1>3, <1>5, <1>6, <1>8
<1>e. watchdogMissed' = 2 /\ w \in due' => stalls' = 2
  BY <1>2, <1>3, <1>5, <1>6, <1>8
<1>9. starts' = starts
  BY DEF Elapse
<1>. QED
  BY <1>9, <1>a, <1>b, <1>c, <1>d, <1>e DEF Fed

\* Time makes timers due, counts stalls, and changes nothing else.
LEMMA ElapseInv ==
  ASSUME NEW d \in 1..MaxElapsed, ControllerInv, Elapse(d) PROVE ControllerInv'
<1>1. /\ UNCHANGED <<running, paused, networkManager, serviceSource, serviceStatus,
                     loadedPlugins, inflight, starts, watchdogTimer, watchdogMissed, tripped>>
      /\ armed' = armed
  BY DEF Elapse, lifecycle, channels, watchdog
<1>2. stalls' \in {0, 1, 2} /\ (stalls = 2 => stalls' = 2)
  BY DEF Elapse, ControllerInv, CountTypes
<1>3. FlagTypes' /\ ChannelsFollow'
  BY <1>1 DEF ControllerInv, FlagTypes, ChannelsFollow
<1>4. CountTypes' /\ OneWatchdog'
  BY <1>1, <1>2 DEF ControllerInv, CountTypes, OneWatchdog
<1>5. FedInTime'
  BY <1>1, ElapseFed DEF FedInTime
<1>6. NoFalseAlarm'
  BY <1>1, <1>2 DEF ControllerInv, NoFalseAlarm
<1>. QED
  BY <1>3, <1>4, <1>5, <1>6, ElapseTimers DEF ControllerInv

\* A tick is counted after the metrics timer was served or before a stall; a push
\* resets the count, whichever start() its timer is of.
LEMMA TimeoutFed ==
  ASSUME NEW t \in due, ControllerInv, Timeout(t)
  PROVE  FedInTime' /\ NoFalseAlarm'
<1>. DEFINE w == <<"watchdog", starts>>
            m == <<"metrics", starts>>
<1>1. /\ UNCHANGED <<running, starts, left, stalls>>
      /\ due' = due \ {t}
  BY DEF Timeout, lifecycle
<1>2. t \in armed /\ t[1] \in Kinds
  BY DEF ControllerInv, TimerTypes
<1>3. CASE t[1] = "watchdog"
  <2>1. running /\ t = w
    BY <1>2, <1>3 DEF ControllerInv, OneWatchdog
  <2>2. Fed(w, m)
    BY <2>1 DEF ControllerInv, FedInTime
  <2>3. w \in due /\ w \notin due' /\ (m \in due' <=> m \in due)
    BY <1>1, <2>1
  <2>4. watchdogTick /\ watchdogMissed \in {0, 1, 2}
    BY <1>3 DEF Timeout, ControllerInv, CountTypes
  <2>5. CASE watchdogMissed = 2
    <3>1. watchdogMissed' = 0 /\ stalls' = 2
      BY <1>1, <2>2, <2>3, <2>4, <2>5 DEF watchdogTick, MissLimit, Fed
    <3>. QED
      BY <1>1, <2>3, <3>1 DEF FedInTime, Fed, NoFalseAlarm
  <2>6. CASE watchdogMissed # 2
    <3>1. watchdogMissed' = watchdogMissed + 1 /\ tripped' = tripped
      BY <2>4, <2>6 DEF watchdogTick, MissLimit
    <3>2. NoFalseAlarm'
      BY <1>1, <3>1 DEF ControllerInv, NoFalseAlarm
    <3>3. Fed(w, m)'
      BY <1>1, <2>2, <2>3, <2>4, <2>6, <3>1 DEF Fed
    <3>. QED
      BY <1>1, <3>2, <3>3 DEF FedInTime
  <2>. QED
    BY <2>5, <2>6
<1>4. CASE t[1] = "metrics"
  <2>1. watchdogMissed' = 0 /\ tripped' = tripped
    BY <1>4 DEF Timeout, pushMetricsToSource
  <2>2. running => Fed(w, m)
    BY DEF ControllerInv, FedInTime
  <2>3. w \in due' => w \in due
    BY <1>1
  <2>. QED
    BY <1>1, <2>1, <2>2, <2>3 DEF ControllerInv, FedInTime, Fed, NoFalseAlarm
<1>5. CASE t[1] \notin {"watchdog", "metrics"}
  <2>1. watchdogMissed' = watchdogMissed /\ tripped' = tripped
    BY <1>5 DEF Timeout, sendHeartbeat, sendPluginStatus, watchdog
  <2>2. (w \in due' <=> w \in due) /\ (m \in due' <=> m \in due)
    BY <1>1, <1>5
  <2>3. running => Fed(w, m)
    BY DEF ControllerInv, FedInTime
  <2>. QED
    BY <1>1, <2>1, <2>2, <2>3 DEF ControllerInv, FedInTime, Fed, NoFalseAlarm
<1>. QED
  BY <1>3, <1>4, <1>5

\* A timer that fires posts through the network manager, or publishes on the
\* source, that exist while the controller runs.
LEMMA TimeoutInv ==
  ASSUME NEW t \in due, ControllerInv, Timeout(t) PROVE ControllerInv'
<1>. USE DEF ControllerInv
<1>1. /\ UNCHANGED <<running, paused, networkManager, serviceSource, loadedPlugins>>
      /\ UNCHANGED <<starts, armed, left, watchdogTimer, stalls>>
      /\ due' = due \ {t}
  BY DEF Timeout, lifecycle, sendHeartbeat, sendPluginStatus, pushMetricsToSource, watchdogTick
<1>2. inflight' \subseteq Endpoints /\ (~networkManager => inflight' = inflight)
  BY DEF Timeout, sendHeartbeat, sendPluginStatus, pushMetricsToSource, watchdogTick,
         Post, Endpoints, FlagTypes
<1>3. /\ serviceStatus' \in {"", "Running", "Paused"}
      /\ ~serviceSource => serviceStatus' = serviceStatus
  BY DEF Timeout, sendHeartbeat, sendPluginStatus, pushMetricsToSource, watchdogTick,
         statusString, FlagTypes, ChannelsFollow
<1>4. watchdogMissed' \in {0, 1, 2} /\ tripped' \in BOOLEAN
  <2>1. CASE watchdogTick
    <3>1. watchdogMissed' \in {0, 1, 2}
      BY <2>1 DEF watchdogTick, MissLimit, CountTypes
    <3>2. tripped' \in BOOLEAN
      BY <2>1, Zenon DEF watchdogTick, FlagTypes
    <3>. QED
      BY <3>1, <3>2
  <2>2. CASE sendHeartbeat \/ sendPluginStatus \/ pushMetricsToSource
    BY <2>2 DEF sendHeartbeat, sendPluginStatus, pushMetricsToSource, watchdog,
       FlagTypes, CountTypes
  <2>. QED
    BY <2>1, <2>2 DEF Timeout
<1>5. FlagTypes' /\ ChannelsFollow'
  BY <1>1, <1>2, <1>3, <1>4 DEF FlagTypes, ChannelsFollow
<1>6. CountTypes' /\ OneWatchdog'
  BY <1>1, <1>4 DEF CountTypes, OneWatchdog
<1>7. TimerTypes'
  BY <1>1 DEF TimerTypes
<1>8. FedInTime' /\ NoFalseAlarm'
  BY <1>1, TimeoutFed
<1>. QED
  BY <1>5, <1>6, <1>7, <1>8

\* Every step of the specification keeps the invariant.
LEMMA ControllerNextInv == ControllerInv /\ [ControllerNext]_controllerVars => ControllerInv'
<1>. SUFFICES ASSUME ControllerInv, [ControllerNext]_controllerVars PROVE ControllerInv'
  OBVIOUS
<1>1. CASE \/ Pause \/ Resume
           \/ \E e \in inflight : ReplyFinished(e)
           \/ UNCHANGED controllerVars
  <2>1. /\ UNCHANGED <<running, networkManager, serviceSource, serviceStatus, loadedPlugins,
                       starts, armed, left, due, watchdogTimer, watchdogMissed, tripped, stalls>>
        /\ paused' \in {TRUE, FALSE, paused}
        /\ inflight' \subseteq inflight
    BY <1>1 DEF Pause, Resume, ReplyFinished, lifecycle, channels, timers, watchdog,
       controllerVars
  <2>2. FlagTypes' /\ ChannelsFollow'
    BY <2>1 DEF ControllerInv, FlagTypes, ChannelsFollow
  <2>3. CountTypes' /\ TimerTypes' /\ OneWatchdog'
    BY <2>1 DEF ControllerInv, CountTypes, TimerTypes, OneWatchdog
  <2>4. FedInTime' /\ NoFalseAlarm'
    BY <2>1 DEF ControllerInv, FedInTime, Fed, NoFalseAlarm
  <2>. QED
    BY <2>2, <2>3, <2>4 DEF ControllerInv
<1>. QED
  BY <1>1, StartInv, StopInv, ElapseInv, TimeoutInv DEF ControllerNext

-----------------------------------------------------------------------------
\* The invariant holds in every reachable state.
THEOREM ControllerInvariant == ControllerSpec => []ControllerInv
<1>. QED
  BY ControllerInitInv, ControllerNextInv, PTL DEF ControllerSpec

\* The types, among them that at most MissLimit - 1 missed ticks are ever counted.
THEOREM ControllerTypeCorrect == ControllerSpec => []ControllerTypeOK
<1>. QED
  BY InvTypes, ControllerInvariant, PTL

\* However often the controller is restarted, and whatever timers of earlier
\* starts fire in between, one watchdog is armed while it runs and none otherwise.
THEOREM WatchdogIsUnique == ControllerSpec => []OneWatchdog
<1>1. ControllerInv => OneWatchdog
  BY DEF ControllerInv
<1>. QED
  BY <1>1, ControllerInvariant, PTL

\* Whatever the periods and phases and however long the stalls: it takes two.
THEOREM WatchdogIsFed == ControllerSpec => []NoFalseAlarm
<1>1. ControllerInv => NoFalseAlarm
  BY DEF ControllerInv
<1>. QED
  BY <1>1, ControllerInvariant, PTL

\* The controller implements the protocol of its source: every step opens, closes,
\* switches or publishes, or changes nothing a client can see.
THEOREM ControllerRefinesSource == ControllerSpec => OffersSource
<1>. DEFINE seen == <<serviceSource, paused, serviceStatus>>
<1>1. ControllerInit => Source!SourceInit
  BY DEF ControllerInit, Source!SourceInit
<1>2. ControllerInv /\ [ControllerNext]_controllerVars => [Source!SourceNext]_seen
  <2>. SUFFICES ASSUME ControllerInv, [ControllerNext]_controllerVars
                PROVE  Source!SourceNext \/ UNCHANGED seen
    OBVIOUS
  <2>. USE DEF ControllerInv, ChannelsFollow, FlagTypes
  <2>1. CASE Start
    <3>1. PICK ok \in SUBSET Plugins : OpenChannels(ok)
      BY <2>1 DEF Start
    <3>. QED
      BY <2>1, <3>1 DEF Start, OpenChannels, Source!SourceNext, Source!Open
  <2>2. CASE Stop
    BY <2>2 DEF Stop, CloseChannels, Source!SourceNext, Source!Close
  <2>3. CASE Pause \/ Resume
    BY <2>3 DEF Pause, Resume, channels, Source!SourceNext, Source!Switch
  <2>4. CASE \E d \in 1..MaxElapsed : Elapse(d)
    BY <2>4 DEF Elapse, lifecycle, channels
  <2>5. CASE \E t \in due : Timeout(t)
    BY <2>5 DEF Timeout, lifecycle, sendHeartbeat, sendPluginStatus, pushMetricsToSource,
       watchdogTick, statusString, Source!SourceNext, Source!Publish, Source!Mode
  <2>6. CASE \E e \in inflight : ReplyFinished(e)
    BY <2>6 DEF ReplyFinished, lifecycle
  <2>7. CASE UNCHANGED controllerVars
    BY <2>7 DEF controllerVars, lifecycle, channels
  <2>. QED
    BY <2>1, <2>2, <2>3, <2>4, <2>5, <2>6, <2>7 DEF ControllerNext
<1>. QED
  BY <1>1, <1>2, ControllerInvariant, PTL DEF ControllerSpec, OffersSource, Source!SourceSafety

\* Timers that outlive stop() neither post a request nor publish a status.
THEOREM StoppedStaysSilent == ControllerSpec => StoppedIsSilent
<1>. DEFINE Silent == ~running /\ ~running' => UNCHANGED <<inflight, serviceStatus>>
<1>1. ControllerInv /\ [ControllerNext]_controllerVars => [Silent]_controllerVars
  <2>. SUFFICES ASSUME ControllerInv, ControllerNext, ~running, ~running'
                PROVE  UNCHANGED <<inflight, serviceStatus>>
    OBVIOUS
  <2>. USE DEF ControllerInv, ChannelsFollow
  <2>1. ~networkManager /\ ~serviceSource /\ inflight = {}
    OBVIOUS
  <2>2. ~Start /\ ~Stop /\ ~Pause /\ ~Resume
    BY DEF Start, OpenChannels, Stop, Pause, Resume
  <2>3. CASE \E d \in 1..MaxElapsed : Elapse(d)
    BY <2>3 DEF Elapse, channels
  <2>4. CASE \E t \in due : Timeout(t)
    BY <2>1, <2>4 DEF Timeout, sendHeartbeat, sendPluginStatus, pushMetricsToSource,
       watchdogTick, Post
  <2>5. CASE \E e \in inflight : ReplyFinished(e)
    BY <2>1, <2>5
  <2>. QED
    BY <2>2, <2>3, <2>4, <2>5 DEF ControllerNext
<1>. QED
  BY <1>1, ControllerInvariant, PTL DEF ControllerSpec, StoppedIsSilent
=============================================================================

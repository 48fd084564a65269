# Secure Remote Agent: a TLA+ development

The program is a Windows service with a Qt event loop, a desktop program that
watches it over Qt RemoteObjects, an agent, and plugins. Most of what is hard in
it is hard to test: three threads share one structure without a lock, slots run
in the middle of other slots, timers outlive what they belong to, retries share
one counter, and clients are orphaned while their signals stay connected. This
directory models those parts, checks small instances of them with TLC and proves
the safety properties that matter most with TLAPS.

Paths are relative to the root that holds `src/`; `service.cpp` and the like
abbreviate their only occurrence there.

## 1. The system

| Component | State it keeps | Operations | What makes it correct |
|---|---|---|---|
| **Service controller** `src/src/components/service/service_controller.cpp` | running, paused; network manager; RemoteObjects source and its `serviceStatus`; loaded plugins; four QTimers; missed watchdog ticks | start, stop, pause, resume; timer slots; posts to four backend endpoints | after stop it is silent; one watchdog whatever the restarts; no false alarms; clients learn of a pause |
| **Windows service host** `service.cpp` | `g_serviceStatus`, `g_running`, `g_paused`, stop event, `g_controller` | ServiceMain, ServiceCtrlHandler, ServiceWorkerThread | reports follow the protocol of a service and are not mixed up; no call through a deleted controller; starts, stops and pauses are carried through |
| **Network client** `network_client.cpp` | newest call, retry counter, one reconnect timer, replies in flight, TLS policy | postJson, postFile, setReconnectStrategy, reply and TLS slots | a failure is retried; a retry resends what was asked for; retries do not multiply |
| **Remote executor** `remote_executor.cpp` | current process, timeout timer, output buffer | executeCommandAsync; process slots; timeout | each command ends and is reported; nothing leaks; no report carries old output |
| **IPC client** `ipc_client.cpp` | node, replica | connectToService, disconnectFromService | the replica's values reach the UI |
| **UI manager** `ui_manager.cpp`, `main.qml` | current IPC client, shown connection and status; lists of plugins and agents; log | start/stop/restart buttons, timers, replica signals | what is shown is backed by a connection and becomes true |
| **Plugins** `proxy_plugin.cpp`, `scraper_plugin.cpp` | status, network manager, timer, counters, callback, mutex | initialize, start, stop, cleanup, execute; timer and reply slots | resources follow the life cycle; nobody waits for a mutex he holds |
| **Plugin owners** `loadPlugins`/`unloadPlugins` of the controller and of `agent.cpp` | the list of loaders | load, unload | stop before cleanup before unload |
| **IPC server** `ipc_server.cpp` | sockets | request dispatch | framing of requests (nothing starts it) |
| Agent, plugin loader, simulator, `windows_service.cpp`, QML views | see PROJECT.json | | |

How they interact: the host's worker thread owns the controller and runs its
event loop by hand (`processEvents` in a loop that waits for the stop event); the
control handler, in another thread, calls `pause()` and `resume()` on the same
object, and lambdas connected to the controller's signals report to the service
control manager *in the thread that emits*. The controller publishes on a
RemoteObjects source; the UI's IPC clients hold replicas of it. The controller and
the agent load and drive plugins through `IPlugin`.

Hard behaviours, and where they are modelled:

* interleavings without locks (host): `ServiceHost`;
* slots nested in slots (executor, plugins): methods as functions from a state to
  the set of states they may leave;
* timers that survive `stop()` and loops that stall: `Elapse` in
  `ServiceController`;
* failures that meet retries, late and reordered answers: `NetworkClient`;
* outages, reattachment and orphaned clients: `IpcClient`, `UiManager`;
* differences of counters that wrap, shrink or are sampled twice: `ServiceMetrics`;
* effects that come a second after the call: `UiLists`;
* undefined behaviour (calls through null or freed pointers): a choice between a
  fault and going on, see below.

PROJECT.json lists every hazard at its line with the property that covers it, or
the reason why none does.

## 2. The modules

```
SourceProtocol  <--refined by-- ServiceController <-EXTENDS- ServiceHost --refines--> ServiceProtocol
SourceProtocol  --environment of--> IpcClient, UiLists <-EXTENDS- UiManager
ServiceMetrics    NetworkClient     RemoteExecutor     Plugin
MC_ServiceController, MC_ServiceHost, MC_NetworkClient   small instances for TLC
ServiceControllerProofs, ServiceHostProofs, ServiceMetricsProofs,
NetworkClientProofs, RemoteExecutorProofs, UiManagerProofs,
PluginProofs                                             theorems
SumLemmas    sums over finite sets, for ServiceMetricsProofs and NetworkClientProofs
```

`SourceProtocol` is the seam between the two processes: the service is shown to
implement it, with its threads and without, and the desktop program is checked
against it. So `PanelIsTrue` is about what the service does, not about a status
somebody publishes.

Operators whose comment begins with "Slip" are wrong variants of the definition
next to them: a dropped guard, a missing reset, a swapped order. No specification
uses them. Each one, put in the place of the correct definition, makes a property
fail under the configuration of its run, which shows that the property depends on
that line of the code.

### ServiceController

Variables are the members of the class, one to one; `armed`, `left` and `due` are
the QTimers, `inflight` the requests without a reply, as a set of endpoints
(several requests to one endpoint are merged; no state depends on their number).
`stalls` and `tripped` are history.

A timer is named by its kind and by the `start()` that created it, because
`start()` creates four timers every time and keeps a pointer to the last watchdog
only: the other three stay armed after `stop()` and after a restart. `Elapse(d)`
is the event loop coming back after `d` units: every timer whose timeout passed
becomes due once, whatever the number of periods missed (QTimer), and keeps its
phase; then `Timeout(t)` serves the due timers in any order. The first timeout may
come anywhere in the first period (`Phases`), because the timers are started one
after another and coarse QTimers shift. `Stall(d)` is an absence long enough for
the watchdog to come due together with the metrics push that was to come before it.

`start()` and `stop()` are cut into fragments where another thread can observe
them (`OpenChannels`, `ArmTimers`; `ClearRunning`, `UnloadPlugins`,
`CloseChannels`). `Start` and `Stop` are their conjunctions.

### SourceProtocol

What a client can see of the service's RemoteObjects source: whether it is offered,
and its `serviceStatus`. It opens empty, closes with `stop()`, and shows nothing but
what the service does at that moment; a change that lasts is published in the end
(`SourceFairness`). `ServiceController` maps `up` to `m_serviceSource` and `paused`
to `m_paused`.

### ServiceMetrics

`measureSystemMetrics` with its widths. The counters of the system are external:
octets per interface modulo `Octets` (the DWORDs), interfaces that go down and come
up, the tick count, and the three processor times, each advancing on its own since
they are not read at one instant. `GetIfTable` and `GetSystemTimes` may fail in any
measurement: without the table the sums are 0, which the code uses and keeps like a
reading (so what it publishes is 0 minus the last sample, a huge rate); without the
times the old ones are kept. The controller's side is one action per
measurement: `sendMetrics` (for the request; only the sample is kept) and `Publish`
(the rest of `pushMetricsToSource`), between which the counters may move, and
`Toggle`, a stop or a start, which leaves the static variables as they are. A
quotient of doubles is kept as its two terms, so nothing is rounded but the
processor's percentage. `since` and `truth` are history: what really happened in the
period of a measurement.

### ServiceProtocol and ServiceHost

`ServiceProtocol` is the abstract specification: which state a service may report
after which, and that a pending control is completed. `ServiceHost` has the three
threads with program counters, one step per access to shared state. A report is
two steps, because `ReportServiceStatus` fills in the shared structure and then
hands over *whatever it holds by then*. `DeliverControl` is the service control
manager: it delivers a control that the reported state accepts. The calls of the
start sequence that can fail may fail. `ExitProcess` may come as soon as STOPPED
was reported and the handler is back, also in the middle of the worker's teardown,
because the handler itself reports STOPPED.

### NetworkClient

A request is `[url, file, body]`; `inflight` is a bag of them. The fields that
remember the newest call are separate variables because the code sets them
separately. Replies come in any order or not at all. A TLS error is judged as
`onSslErrors` does; an abort is a failed request. `setReconnectStrategy` replaces the
limit and both delays, also while a retry is pending, whose wait is not changed. The
user posts whenever he likes, up to the bound `MaxInFlight` on the requests in flight;
a pending retry does not hold him back. `newest`, `delivered`, `attempts` and `load`
are history.

### RemoteExecutor

The slots never look at the sender: they act on `currentProcess`, which may be
another process by then. `start()`, `waitForFinished()` and `~QProcess` emit the
process's signals before they return, so a slot runs inside the timeout handler.
The slots are therefore functions on the executor's state and composed where the
code nests them. The calls that wait for their command (`executeCommand`,
`executeScript`, `killProcess`, `listProcesses`) use a QProcess of their own that is
gone when they return, and only hold the event loop up (`ExecuteAndWait`).
`waitForStarted()` through null reads a member and faults;
`deleteLater()` through null may fault or be refused, so both are results.
`completed` counts the reports of a command, and `reported` (history) says whose output
they carried.

### IpcClient, UiLists and UiManager

`IpcClient` has the source and the replicas. A replica stays `initialized` when
the source vanishes and nothing emits `disconnected()`; a source that reappears
brings it up to date, with or without another `initialized()` signal.
Intermediate values of the status may be merged on the way. The source's steps are
those of `SourceProtocol`; the process of the service may also end without a word.

`UiLists` has the lists of plugins and agents, which are the UI's own. `loadPlugin`
and `restartAgent` leave a single-shot timer behind that nothing takes back, so their
effects come in another order than the calls. `asked` and `overtaken` are history:
the items whose last call was a load, a start or a restart, and those that a call took
off while such a timer was pending.

`UiManager` numbers the IPC clients: `connectToService()` makes a new one and
overwrites the pointer, and the old one stays connected to the panel's slots. The
buttons are guarded as in `main.qml` (Stop only in "Running", Start only
otherwise). `connectToService()` of a client is only ever called on a new one,
so its own test for an existing node never applies.

### Plugin

One plugin of either class; `kind` chooses. Methods are functions to sets of
states; `Then` is sequencing that stops where the thread blocks or faults.
A callback runs with the mutex held (`Tell`, `WithMutex`), where every call it
makes blocks for ever, or without it (`React`), where it may request, start, stop
and clean up in the middle of a slot. `every` says whether the configuration, which
`setConfig` replaces as a whole, holds an interval, and `hot` that the scraper's timer
was started without one, with period 0. `kept` fixes at the start which of four
rules the client keeps to, any subset of them: `stopFirst`, a running plugin is stopped
before it is cleaned up; `quiet`, callbacks call nothing while the mutex is held;
`interval`, every configuration has an interval; `stay`, callbacks never clean up. The
faults are behaviours of the model; a property says which rules keep out which fault.
Both loading loops of the repository (`loadPlugin`, `unloadPlugin`) run in every case.
The repository's own processes set no callback; the other clients are those the
`IPlugin` interface invites.

## 3. What the runs check

| Run | States | Shows |
|---|---|---|
| `controller` | 1,065,000 | Across two starts: timers left over by the first start are silent while stopped (`StoppedIsSilent`), exactly one watchdog is armed while running (`OneWatchdog`), one stall of the loop, however long and wherever it falls in the periods of watchdog and push, never trips the watchdog (`NoFalseAlarm`; two can), and the controller is the source its clients rely on (`OffersSource`), down to publishing every pause or resume that lasts (`StatusIsPublished`) |
| `host` | 83,000 | The handler never calls a deleted controller (`NoDanglingCall`); no report is overwritten by another thread (`ReportsNotClobbered`); between controls, PAUSED and RUNNING mean what the controller does (`PauseAgreesWithScm`); the merged reports refine `ServiceProtocol` with its liveness (`HostFollowsProtocol`); stops, starts and pauses are carried through (`StopTerminates`, `StartSettles`, `PauseReachesClients`) |
| `client` | 22,400 | With posts and changes of the strategy at any time, also while a retry is pending: `RetryPending`, `FailureIsRetried`, `RequestsAreCalls`; failures that come together cause one resend (`NoRetryStorm`), and the counter follows how many requests are in flight together and not how often one fails (`CountFollowsLoad`); `NewestIsDelivered` |
| `executor` | 68,700 | `TimerGuardsCommand`, `NothingLeaks`, `EveryChildEnds`, `EveryCommandIsReported`; no report carries an earlier command's output or that of two (`OutputIsNotStale`); a command is reported from when its end was seen, and at most twice (`ReportsFollowEnds`) |
| `panel` | 296,900 | `ConnectedIsBacked`, `NothingLingers`, and `PanelIsTrue`: once the user lets go and the service stays, the panel shows what the service does, whatever orphans exist; `ListsFollowCalls`: however loads, restarts and their opposites overtake each other, no item is listed twice, one that was asked for last is listed once its timers are done, and one that was taken off last comes back only if a timer was pending then |
| `plugins` | 27,600 | `ResourcesMatchStatus` for every client. `RulesAreEnough`: only a cleanup of a running plugin or a call under the mutex blocks the process, only a callback that cleans up makes it touch a deleted reply, only a configuration without interval gives a timer with period 0. `CountsThisSession` for clients whose callbacks do not clean up |
| `metrics` | 4,783,000 | What is published of the processor is a percentage whatever the three times do (`MetricsTypeOK`), and a published rate is the traffic of its own period over the time of the same period, across stops and with a second, unpublished measurement in every push (`RatesAreTraffic`), unless a counter wrapped or an interface came or went in it or the reading at its end failed; a failed reading spoils no later rate |

Each of them also checks the module's type invariant.

`NoFalseAlarm` has a reverse side. `src/README.md:47` promises a "Watchdog timer (3
missed ticks triggers recovery heartbeat)", but the watchdog is served by the loop it
watches and a QTimer merges the periods it missed: a single stall counts as one missed
tick, however long it is.

So have three others, which the model shows and no property rules out:

* `OutputIsNotStale`: the process of a superseded command stays connected
  (`remote_executor.cpp:84`), so its end may be reported with the output of the *later*
  command, whose process and timer it takes away. That command is then ended and
  reported all the same (`EveryChildEnds`, `EveryCommandIsReported`).
* `ListsFollowCalls`: an unload or a stop within the second of a load or restart is
  undone by the timer, which is not what `src/README.md:53` and `:55` let a user of
  Stop and Unload expect.
* `RatesAreTraffic`: when `GetIfTable` fails (`service_controller.cpp:372`), 0 minus the
  last sample is published, modulo 2^64.

Five runs end in a counterexample on purpose. Each states what a comment or the
README of the repository says; the code does something else:

| Run | Property | What happens |
|---|---|---|
| `host_stop_while_paused` | `StopIsObeyed` | the handler ignores a STOP in PAUSED, a state that advertises SERVICE_ACCEPT_STOP |
| `client_retry_limit` | `AttemptsAreLimited` | each resend goes through `postJson`/`postFile`, which reset the counter that limits resends |
| `executor_completes_once` | `CompletesOnce` | a command that times out is reported by the nested slot and again by the timeout |
| `executor_survives` | `FailureIsSurvived` | a program that cannot be started: `waitForStarted()` is called through null |
| `panel_stop` | `StopHolds` | a client orphaned by an earlier Start connects after Stop and the panel shows "Connected" |

`StopHolds` is about the panel: it does not say that the Windows service stops,
which `stopService()` does not try to do.

### Bounds

| Bound | Value | Why it is enough |
|---|---|---|
| `MaxStarts` (controller) | 2 | timers of the first start meet the second; more starts add timers of the same kind. `MaxStarts = 1` in the host: its worker calls `start()` once |
| periods | metrics 2, watchdog 3, others 1 | the smallest in which push and watchdog (1 s and 15 s in the code) have phases that differ and meet; heartbeat and plugin status feed nothing. The proofs are for all periods. In the host all are 1, since there only the order of service within a pass matters |
| `MaxElapsed` | 4, 1 | 4 is more than a watchdog period, so that one absence misses two timeouts of each timer; in the host the worker comes back in every pass |
| `Plugins` | one | a plugin that fails to load is another choice of the subset |
| `MaxInFlight` (client) | 3 | a request that fails, one that is answered late and one posted meanwhile, with or without a retry pending; resends come on top. The code sets no limit, and no theorem depends on this one |
| `Strategies` (limit, first delay, longest delay) | (0, 1, 3), (1, 2, 2), (3, 1, 3) | no retry, the boundary, and more than one; the third wait, 4, would exceed the maximum; changing over lowers each of the three |
| `MaxWait` | 1000 | stands for the range of `qint64`; `WaitAssumption` says that no wait leaves it |
| `MaxAttempts` | 4 | the history counter saturates one above the largest limit |
| `Octets`, `Wide`, `FirstOctets` | 4, 16, {0, 2, 3} | a counter wraps in one step from 3, and the sum of two interfaces wraps nowhere, as four bytes in eight; 0 is "no sample yet" to the code |
| `MaxEvents` (metrics) | 4 | two measurements with something of each direction and of the clock in between, or a wrap, a change of interfaces or a failing call in either |
| `PluginNames`, `AgentIds` | one each | the items do not touch each other; the proof is for any number |
| `MaxCommands` (executor) | 4 | two superseded processes besides the current one and its successor |
| `MaxPresses`, `MaxTurns`, `MaxClients` (panel) | 3, 4, 4 | each press makes at most one client, so `MaxClients` = 1 + `MaxPresses` never cuts a behaviour short; four turns are an outage and two changes of status |
| `MaxPosted` (plugins) | 3 | requests of one life of a plugin; lives are not bounded |

Deadlock is checked except where the system may stop: the host's process exits, an
executor may have faulted, a plugin's only thread may be blocked.

### Fairness

* Controller: the event loop turns and serves what is due. Replies need not come. From
  this the controller has the fairness of `SourceProtocol`, which the panel relies on.
* Host: every thread that can run is scheduled. Controls need not come.
* Client: the reconnect timer fires; and, strongly, a request that is sent again
  and again is answered some day. The code sets no transfer timeout
  (`onRequestTimeout` is connected to nothing), so without this a single silent
  server ends all progress. Only `NewestIsDelivered` uses it.
* Executor: the loop serves the timeout, ended children and deferred deletes. A
  child need not end: `EveryChildEnds` rests on the timeout.
* Panel: its timers fire, the transport attaches and updates replicas, and the source
  publishes what lasts (`SourceFairness`, checked of the controller). The user owes
  nothing, and the service may come and go.
* Plugins, metrics: none; no liveness is claimed.

## 4. What is proved

Every theorem holds for all values of the constants under the modules' ASSUMEs:
periods are positive and metrics are pushed at least once in a watchdog period,
histories and bounds are naturals, calls are requests, plugin names are no agent ids,
and `WaitAssumption` (no overflow) for the client. Each proof module states one
inductive invariant, shows that every action keeps it (one step per action, lemmas
for what several actions share) and derives the properties from it.

* **ServiceControllerProofs** (`ControllerInvariant`). `OneWatchdog` alone is not
  inductive: that stop() removes *the* watchdog needs the pointer to name the
  newest start, and that a stopped controller is silent needs the network manager
  and the source to exist exactly while it runs, though four other operations test
  or change them. `NoFalseAlarm` needs the phases of two timers (`FedInTime`): after a
  tick the push comes next unless the loop has stalled, and a second tick is missed
  only with the push ahead by the difference of the periods, so that the third needs
  another stall. From it: `ControllerTypeCorrect`, `WatchdogIsUnique`, `WatchdogIsFed`,
  `StoppedStaysSilent`, and `ControllerRefinesSource`: every step is a step or a stutter
  of `SourceProtocol`.
* **ServiceHostProofs** (`HostInvariant`). There is no lock, so the argument is
  about turns: a control other than INTERROGATE reaches the handler only after the
  worker's first report was sent; the worker leaves its loop only after the handler
  reported STOP_PENDING; after that no control comes. So the threads write the
  structure, and use the controller, one after the other. The invariant ties each
  program counter to the others and to the last report (`MainInv`, `StartInv`,
  `HandlerInv`, `StopInv`, `LagInv`, `PointerInv`, `PauseInv`). From it:
  `CallsAreSafe`, `ReportsAreSent`, `PauseAgrees`, and `HostRefinesProtocol`: every
  step of the host is a step or a stutter of `ServiceProtocol`. A second invariant
  (`HostShape`) says how far the worker is from what exists of the controller; from it
  `HostTypeCorrect` and `HostRefinesSource`: the controller between the two threads
  still implements the source.
* **NetworkClientProofs** (`ClientInvariant`). `RequestsAreCalls` needs that the
  remembered fields, which are set one by one, form a call whenever the timer runs.
  From it also `OnlyCallsAreSent`, `ClientTypeCorrect`, `RetryIsPending` and
  `FailuresAreRetried`. `NoRetryStorm` and `CountFollowsLoad` count what is in
  flight. There may be infinitely many calls to choose from, so it says that finitely
  many are in flight, and their number is a sum that posting raises by one and the end
  of a request lowers by one. With it: `RetriesDoNotMultiply`, and `CountIsOfTheLoad`.
  The latter explains the run `client_retry_limit`: the count is bounded by the requests
  that were in flight when one was posted or resent last. `AloneThereIsNoBackoff` is the
  case of one: a request that was alone then waits the first delay of the strategy in
  force, however often it has failed before.
* **ServiceMetricsProofs** (`MetricsInvariant`). The history `since` is the difference
  between the counters and the sample the code kept of them (`SinceIsExact`), which
  both measurements renew and a stop leaves alone; a rate is then exact when it is
  published. It holds only while `since.smooth`: every octet counter of an interface
  then grows without wrapping, and the sum over the interfaces stays below `Wide`. A
  failed reading leaves a sample of 0, which the code takes for none, so the history
  and the sample agree only while the sample is not 0.
* **SumLemmas**. `MapThenSumSet` is a recursive function over the subsets of its set.
  An induction over it needs no theorem of the library with an operator as parameter:
  inclusion on the subsets of a finite set is well-founded, so a claim that fails
  fails for a smallest subset (`SmallestSubset`), and the set of the failing ones is an
  ordinary set. So follow: a sum may be taken in any order (`SumRemove`), changes by
  what one term changes (`SumChange`), ignores zeros (`SumSupport`), and is bounded
  (`SumBound`).
* **RemoteExecutorProofs** (`ExecutorInvariant`). Whatever slots run, for whichever
  process and however they nest, they leave the executor without a command and without
  a timer, and with the process that was current marked for deletion: `Settles`, shown
  once for each slot and passed on from slot to slot (`SettlesOn`). From it
  `ExecutorTypeCorrect`, `TimerFollowsCommand`, `ProcessesAreFreed`.
  `ReportsFollowEnds` is not inductive: that the timeout adds at most two reports to
  none needs that the current command's end was not seen, and that a command not given
  yet has no process a slot could hear of (`ReportInv`). The signals of a process report
  its own command, once, though everything else they do is to the current one
  (`ReapReports`). From it `ReportsAreOfEnds`: the second report that
  `executor_completes_once` finds is the last, and, since the buffer only ever holds
  output of the newest command given asynchronously, `ReportsAreNotStale`.
* **UiManagerProofs** (`UiInvariant`, `ListsInvariant`). The flag is set only where some
  replica is initialized; replicas disappear only in `disconnectFromService`, which
  resets what is shown. An item of a list is unlisted, listed, or on its way with a
  timer, and every call moves it between the three; one with a timer is either asked for or
  overtaken (`ListsInv`). `UiTypeCorrect`,
  `ConnectionIsBacked`, `CleanWhenAlone`, `ListsAreAsAsked`.
* **PluginProofs** (`PluginInvariant`). A slot is not atomic towards its own
  callback, so `Good` is stated for a state of the plugin and kept by every method;
  a slot is then a sequence of methods. Between counting a page and releasing its
  reply the page is counted twice: that is the surplus `n` in `Good(p, n)`.
  `PluginTypeCorrect`, `ResourcesFollowStatus`, `RulesSuffice`,
  `CountsAreOfThisSession`.

Every invariant and every action property of the passing runs is proved. Only
model-checked: the liveness properties (`StopTerminates`, `StartSettles`,
`PauseReachesClients`, `StatusIsPublished`, `NewestIsDelivered`, `EveryChildEnds`,
`EveryCommandIsReported`, `PanelIsTrue`) and the liveness half of `HostFollowsProtocol`,
because fairness and ENABLED are beyond the prover.

## 5. What is assumed and what is left out

External behaviour, modelled from how the code uses it: QTimer fires once for any
number of missed periods; `kill()` ends a child (TerminateProcess is taken to
succeed) and a crash emits `errorOccurred` before `finished`; deleting a
QNetworkAccessManager deletes its replies; the service control manager delivers one
control at a time and only those the service accepts; a closed handle makes
SetEvent fail and nothing else.

Not modelled, with the reason:

* console mode, `--install`, `--uninstall`: straight sequences of system calls;
* the memory figures of `measureSystemMetrics`, copied from one call;
* whitelist and sanitising of the executor, which turn a call away before it changes
  anything, and the file operations: no state between calls;
* certificates and tokens as content: they change what a request carries, not what
  happens to it; the TLS verdict is modelled;
* an empty file path (`postFile("")` would make the retry post the last object): no
  caller passes one;
* what is found in a page, byte counts, uptime and last error of the plugins;
* memory as such: a source and a network manager per restart leak unobserved;
* the log of the UI, which nothing reads back, and the ping, which changes only the log;
* the setters of `ServiceController` and `NetworkClient` that only change what a
  request or a property carries;
* the IPC server: the program never makes one, so no code says who would send it
  what, or when; plugin loader, simulator and `windows_service.cpp`, which are a single
  call or not part of the program.

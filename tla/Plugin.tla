-------------------------------- MODULE Plugin --------------------------------
(***************************************************************************)
(* One plugin and the process that loads it: classes ProxyPlugin and       *)
(* ScraperPlugin (src/src/plugins/proxy/proxy_plugin.cpp and               *)
(* src/src/plugins/scraper/scraper_plugin.cpp), whose life cycle is the    *)
(* same, and the loops that load and unload the plugins of the service and *)
(* of the agent.                                                           *)
(*                                                                         *)
(* All calls come from one event loop.  The methods lock m_mutex, which is *)
(* not recursive, and call the client's callback with the mutex held: a    *)
(* method called from there waits for itself.  The slots of the timer and  *)
(* of the replies call the callback without the mutex; there it may call   *)
(* the plugin, which then changes in the middle of the slot.               *)
(*                                                                         *)
(* Methods are functions from a state of the plugin to the set of states   *)
(* they may leave it in.                                                   *)
(***************************************************************************)
EXTENDS Naturals

CONSTANT MaxPosted   \* bound: requests between initialize() and cleanup()

ASSUME PluginAssumption == MaxPosted \in Nat

VARIABLES
  kind,      \* the class: "proxy" or "scraper"
  kept,      \* the Rules the client keeps to
  loaded,    \* the DLL is loaded and its instance exists
  callback,  \* m_callback is set
  plugin     \* the instance, see Fresh

pluginVars == <<kind, kept, loaded, callback, plugin>>

\* stopFirst: a running plugin is stopped before it is cleaned up.
\* quiet:     a callback calls nothing of the plugin while the mutex is held.
\* interval:  every configuration has a scrape_interval.
\* stay:      a callback never cleans the plugin up.
Rules == {"stopFirst", "quiet", "interval", "stay"}

Fresh ==
  [status  |-> "Unloaded",  \* m_status
   network |-> FALSE,       \* m_network is not null
   timer   |-> FALSE,       \* m_metricsTimer or m_scrapeTimer is running
   every   |-> FALSE,       \* m_config holds a scrape_interval
   hot     |-> FALSE,       \* the running timer has the period 0
   command |-> "none",      \* one name in m_commands, with or without a function
   handled |-> 0,           \* m_requestsHandled or m_pagesScraped
   urls    |-> 0,           \* length of m_scrapedUrls
   replies |-> 0,           \* requests of m_network that are not finished
   sender  |-> TRUE,        \* the reply whose slot runs was not deleted
   posted  |-> 0,           \* history: requests since initialize()
   blocked |-> FALSE,       \* the event loop waits for m_mutex for ever
   alive   |-> TRUE]        \* the program has not faulted

PluginInit ==
  /\ kind \in {"proxy", "scraper"}
  /\ kept \in SUBSET Rules
  /\ loaded = FALSE
  /\ callback = FALSE
  /\ plugin = Fresh

-----------------------------------------------------------------------------
(* Callbacks *)

\* What follows S, for the states in which the program still runs.
Then(S, Rest(_)) ==
  UNION {IF q.blocked \/ ~q.alive THEN {q} ELSE Rest(q) : q \in S}

\* A function of the client, called with the mutex held.
WithMutex(p) == {p} \cup IF "quiet" \in kept THEN {} ELSE {[p EXCEPT !.blocked = TRUE]}

\* m_callback of a method that holds the mutex.
Tell(p) == IF callback THEN WithMutex(p) ELSE {p}

-----------------------------------------------------------------------------
(* The life cycle *)

\* Slip: no test of the status.
initialize_Again(p) ==
  Tell([p EXCEPT !.network = TRUE, !.status = "Loaded", !.every = TRUE, !.posted = 0])

\* What the configuration lacks gets its default.
initialize(p) ==
  IF p.status # "Unloaded" THEN {p}
  ELSE Tell([p EXCEPT !.network = TRUE, !.status = "Loaded", !.every = TRUE, !.posted = 0])

\* The proxy's period is fixed, the scraper's is what m_config says, 0 if nothing.
start(p) ==
  IF p.status # "Loaded" THEN {p}
  ELSE Tell([p EXCEPT !.timer = TRUE, !.hot = (kind = "scraper" /\ ~p.every),
                      !.status = "Running"])

stop(p) ==
  IF p.status # "Running" THEN {p}
  ELSE Tell([p EXCEPT !.timer = FALSE, !.hot = FALSE, !.status = "Loaded"])

\* Slip in cleanup: the counters survive.
cleanup_KeepsCounters(p) ==
  IF p.status = "Running" THEN {[p EXCEPT !.blocked = TRUE]}
  ELSE {[p EXCEPT !.network = FALSE, !.replies = 0, !.sender = FALSE,
                  !.status = "Unloaded"]}

\* cleanup() of a running plugin calls stop() with the mutex held.  Deleting the
\* network manager deletes its replies, the one whose slot is running included.
cleanup(p) ==
  IF p.status = "Running" THEN {[p EXCEPT !.blocked = TRUE]}
  ELSE {[p EXCEPT !.network = FALSE, !.replies = 0, !.sender = FALSE,
                  !.status = "Unloaded", !.handled = 0, !.urls = 0]}

\* The whole map is replaced; a running timer keeps its period.
setConfig(p) ==
  {[p EXCEPT !.every = given] : given \in IF "interval" \in kept THEN {TRUE} ELSE BOOLEAN}

registerCommand(p) ==
  IF p.command # "none" THEN {p}
  ELSE {[p EXCEPT !.command = how] : how \in {"bare", "callable"}}

\* Commands also survive cleanup().
unregisterCommand(p) == {[p EXCEPT !.command = "none"]}

executeCommand(p) == IF p.command = "callable" THEN WithMutex(p) ELSE {p}

-----------------------------------------------------------------------------
(* Requests *)

\* handleProxyRequest and scrapeUrl; the proxy counts a request when it is sent.
Post(p) ==
  IF ~p.network THEN {p}
  ELSE {[p EXCEPT !.replies = @ + 1, !.posted = @ + 1,
                  !.handled = IF kind = "proxy" THEN @ + 1 ELSE @]}

\* executeWithParams with a request, as far as the bound on requests allows.
Execute(p) == IF p.posted < MaxPosted THEN Post(p) ELSE {p}

\* What the callback may do when the mutex is free: nothing or only read, make a
\* request, configure, start or stop the plugin, stop it and clean it up.
React(p) ==
  IF ~callback THEN {p}
  ELSE {p} \cup Execute(p) \cup setConfig(p) \cup start(p) \cup stop(p)
       \cup IF "stay" \in kept THEN {} ELSE Then(stop(p), cleanup)

\* reply->deleteLater(), on a reply that the callback may have deleted.
Release(p) ==
  IF p.sender THEN {[p EXCEPT !.replies = @ - 1]}
  ELSE {p, [p EXCEPT !.alive = FALSE]}

\* Slip in onRequestFinished: the error branch releases the reply, too.
onRequestFinished_ReleasesTwice(p) == Then(Then(React(p), Release), Release)

\* For an answer and for an error.
onRequestFinished(p) == Then(React(p), Release)

\* m_pagesScraped++, the page's address if it is a new one, as any is to an empty
\* list, and the callback that follows.
CountPage(p) ==
  UNION {React([p EXCEPT !.handled = @ + 1, !.urls = @ + n]) :
           n \in IF p.urls = 0 THEN {1} ELSE {0, 1}}

\* parseHtml hands the data to the callback before the page is counted.
onScrapeFinished(p, ok) ==
  Then(IF ok THEN Then(React(p), CountPage) ELSE React(p), Release)

\* onMetricsTimer and onScrapeTimer.
Tick(p) == IF kind = "proxy" THEN React(p) ELSE Then(Execute(p), React)

-----------------------------------------------------------------------------
(* The process *)

\* The event loop is free to serve the next event or call of the client.
Free == loaded /\ ~plugin.blocked /\ plugin.alive

\* A slot or a call: S is the set of its results, no slot is running after it.
Becomes(S) ==
  /\ \E q \in S : plugin' = [q EXCEPT !.sender = TRUE]
  /\ UNCHANGED <<kind, kept, loaded>>

loadPlugin ==
  /\ ~loaded
  /\ loaded' = TRUE
  /\ plugin' \in Then(initialize(Fresh), start)
  /\ UNCHANGED <<kind, kept, callback>>

\* Slip: the plugin is cleaned up but not stopped.
unloadPlugin_NoStop ==
  /\ Free
  /\ \E q \in cleanup(plugin) :
       IF q.blocked THEN plugin' = q /\ UNCHANGED <<loaded, callback>>
                    ELSE plugin' = Fresh /\ loaded' = FALSE /\ callback' = FALSE
  /\ UNCHANGED <<kind, kept>>

\* stop(), cleanup(), and the destructor, which cleans up once more.
unloadPlugin ==
  /\ Free
  /\ \E q \in Then(Then(stop(plugin), cleanup), cleanup) :
       IF q.blocked THEN plugin' = q /\ UNCHANGED <<loaded, callback>>
                    ELSE plugin' = Fresh /\ loaded' = FALSE /\ callback' = FALSE
  /\ UNCHANGED <<kind, kept>>

\* The calls of a client of IPlugin.
Initialize     == Free /\ Becomes(initialize(plugin)) /\ UNCHANGED callback
Start          == Free /\ Becomes(start(plugin)) /\ UNCHANGED callback
Stop           == Free /\ Becomes(stop(plugin)) /\ UNCHANGED callback
Cleanup        == /\ Free
                  /\ "stopFirst" \in kept => plugin.status # "Running"
                  /\ Becomes(cleanup(plugin))
                  /\ UNCHANGED callback
ExecuteRequest == Free /\ Becomes(Execute(plugin)) /\ UNCHANGED callback
SetConfig      == Free /\ Becomes(setConfig(plugin)) /\ UNCHANGED callback
Commands       == /\ Free
                  /\ Becomes(registerCommand(plugin) \cup unregisterCommand(plugin)
                             \cup executeCommand(plugin))
                  /\ UNCHANGED callback
SetCallback    == Free /\ callback' \in BOOLEAN /\ UNCHANGED <<kind, kept, loaded, plugin>>

TimerTimeout ==
  /\ Free /\ plugin.timer
  /\ Becomes(Tick(plugin))
  /\ UNCHANGED callback

ReplyFinished ==
  /\ Free /\ plugin.replies > 0
  /\ \E ok \in BOOLEAN :
       Becomes(IF kind = "proxy" THEN onRequestFinished(plugin)
                                 ELSE onScrapeFinished(plugin, ok))
  /\ UNCHANGED callback

PluginNext ==
  \/ loadPlugin \/ unloadPlugin
  \/ Initialize \/ Start \/ Stop \/ Cleanup
  \/ ExecuteRequest \/ Commands \/ SetConfig \/ SetCallback
  \/ TimerTimeout \/ ReplyFinished

PluginSpec == PluginInit /\ [][PluginNext]_pluginVars

-----------------------------------------------------------------------------
(* Properties *)

\* Every variable stays in its type.
PluginTypeOK ==
  /\ kind \in {"proxy", "scraper"}
  /\ kept \subseteq Rules /\ loaded \in BOOLEAN /\ callback \in BOOLEAN
  /\ plugin \in [status : {"Unloaded", "Loaded", "Running"},
                 network : BOOLEAN, timer : BOOLEAN, every : BOOLEAN, hot : BOOLEAN,
                 command : {"none", "bare", "callable"},
                 handled : Nat, urls : Nat, replies : Nat, sender : {TRUE}, posted : Nat,
                 blocked : BOOLEAN, alive : BOOLEAN]

\* The timer runs in Running only and the network manager exists from initialize()
\* to cleanup(), also when a callback changes the plugin in the middle of a slot.
ResourcesMatchStatus ==
  /\ plugin.timer <=> plugin.status = "Running"
  /\ plugin.network <=> plugin.status # "Unloaded"
  /\ plugin.hot => plugin.timer

\* Each rule is enough against its own fault, whichever others are broken: the
\* process never waits for the mutex it holds unless a running plugin was cleaned up
\* or a callback called under the mutex; never touches a deleted reply unless a
\* callback cleaned up; and no timer fires in every pass of the event loop unless a
\* configuration lacked its interval.
RulesAreEnough ==
  /\ {"stopFirst", "quiet"} \subseteq kept => ~plugin.blocked
  /\ "stay" \in kept => plugin.alive
  /\ "interval" \in kept => ~plugin.hot

\* While the event loop runs, what a client whose callbacks do not clean up reads
\* from getMetrics() counts requests made since initialize(), none of an earlier
\* life and none twice; and for every client the addresses a scraper lists are
\* those of the pages it counts, whatever a callback did in between.
CountsThisSession ==
  /\ plugin.urls <= plugin.handled /\ (kind = "scraper" /\ plugin.handled > 0 => plugin.urls > 0)
  /\ "stay" \in kept /\ ~plugin.blocked =>
       /\ plugin.status = "Unloaded" => plugin.handled = 0 /\ plugin.replies = 0
       /\ IF kind = "proxy" THEN plugin.handled = plugin.posted \/ plugin.status = "Unloaded"
                            ELSE plugin.handled + plugin.replies <= plugin.posted
=============================================================================

----------------------------- MODULE PluginProofs -----------------------------
(***************************************************************************)
(* Proofs about Plugin, for any bound on the requests.                     *)
(*                                                                         *)
(* A slot of the plugin is not atomic towards the client: the callback     *)
(* changes the plugin in the middle of it.  So the invariant is stated for *)
(* a state of the plugin (Good) and shown to be kept by every method;      *)
(* a slot is a sequence of methods, and between counting a page and        *)
(* releasing its reply the page is counted both as handled and as          *)
(* outstanding, which is the surplus n of Good(p, n).                      *)
(***************************************************************************)
EXTENDS Plugin, TLAPS

PluginStates ==
  [status : {"Unloaded", "Loaded", "Running"},
   network : BOOLEAN, timer : BOOLEAN, every : BOOLEAN, hot : BOOLEAN,
   command : {"none", "bare", "callable"},
   handled : Nat, urls : Nat, replies : Nat, sender : BOOLEAN, posted : Nat,
   blocked : BOOLEAN, alive : BOOLEAN]

Counted(p, n) ==
  /\ p.status = "Unloaded" => p.handled = 0
  /\ kind = "proxy" => p.handled = p.posted \/ p.status = "Unloaded"
  /\ kind # "proxy" => p.handled + p.replies <= p.posted + n

Listed(p) ==
  p.urls <= p.handled /\ (kind = "scraper" /\ p.handled > 0 => p.urls > 0)

Good(p, n) ==
  /\ p \in PluginStates
  /\ Listed(p)
  /\ p.hot => p.timer
  /\ p.timer <=> p.status = "Running"
  /\ p.network <=> p.status # "Unloaded"
  /\ p.status = "Unloaded" => p.replies = 0
  /\ {"stopFirst", "quiet"} \subseteq kept => ~p.blocked
  /\ "stay" \in kept => p.alive /\ p.sender /\ (~p.blocked => Counted(p, n))
  /\ "interval" \in kept => ~p.hot /\ (p.status # "Unloaded" => p.every)

\* The reply whose slot is running is one of those that are outstanding.
InSlot(p) == p.sender => p.replies > 0

Constants == kind \in {"proxy", "scraper"} /\ kept \subseteq Rules /\ callback \in BOOLEAN

PluginInv ==
  /\ Constants
  /\ loaded \in BOOLEAN
  /\ ~loaded => plugin = Fresh /\ ~callback
  /\ Good(plugin, 0)
  /\ plugin.sender

-----------------------------------------------------------------------------
(* Methods *)

\* Between slots no reply is at stake.
LEMMA EndOfSlot ==
  ASSUME NEW p, Good(p, 0) PROVE Good([p EXCEPT !.sender = TRUE], 0)
<1> DEFINE r == [p EXCEPT !.sender = TRUE]
<1>1. /\ r \in PluginStates /\ r.sender = TRUE
      /\ r.status = p.status /\ r.network = p.network /\ r.timer = p.timer
      /\ r.every = p.every /\ r.hot = p.hot /\ r.handled = p.handled /\ r.urls = p.urls
      /\ r.replies = p.replies /\ r.posted = p.posted
      /\ r.blocked = p.blocked /\ r.alive = p.alive
  BY DEF Good, PluginStates
<1> HIDE DEF r
<1>2. Good(r, 0)
  BY <1>1 DEF Good, Listed, Counted
<1> QED BY <1>2 DEF r

\* A callback changes nothing of the plugin but whether it is blocked.
LEMMA TellKeeps ==
  ASSUME NEW p, NEW n \in {0, 1}, Good(p, n), NEW q \in WithMutex(p) \cup Tell(p)
  PROVE  Good(q, n) /\ q.replies = p.replies /\ q.sender = p.sender
<1>1. q = p \/ ("quiet" \notin kept /\ q = [p EXCEPT !.blocked = TRUE])
  BY DEF Tell, WithMutex
<1> QED
  BY <1>1 DEF Good, Listed, PluginStates, Counted

\* The register of commands touches nothing else, but the function of a command may
\* wait for the mutex.
LEMMA CommandKeeps ==
  ASSUME NEW p, Good(p, 0),
         NEW q \in registerCommand(p) \cup unregisterCommand(p) \cup executeCommand(p)
  PROVE  Good(q, 0)
<1>1. CASE q \in executeCommand(p)
  BY <1>1, TellKeeps DEF executeCommand
<1>2. CASE q \in registerCommand(p) \cup unregisterCommand(p)
  <2>1. PICK how \in {"none", "bare", "callable"} : q = p \/ q = [p EXCEPT !.command = how]
    BY <1>2 DEF registerCommand, unregisterCommand
  <2> QED BY <2>1 DEF Good, Listed, PluginStates, Counted
<1> QED BY <1>1, <1>2

\* The life cycle methods and requests keep the invariant, and the reply whose
\* slot is running.
LEMMA MethodKeeps ==
  ASSUME NEW p, NEW n \in {0, 1}, Good(p, n), Constants,
         NEW q \in initialize(p) \cup start(p) \cup stop(p) \cup setConfig(p) \cup Execute(p)
  PROVE  Good(q, n) /\ (InSlot(p) => InSlot(q))
<1>1. CASE q = p
  BY <1>1
<1>2. CASE q \in initialize(p) /\ p.status = "Unloaded"
  <2> DEFINE r == [p EXCEPT !.network = TRUE, !.status = "Loaded", !.every = TRUE, !.posted = 0]
  <2>1. Good(r, n) /\ r.replies = p.replies /\ r.sender = p.sender
    <3>1. r \in PluginStates
      BY DEF Good, Listed, PluginStates
    <3>2. /\ r.network = TRUE /\ r.status = "Loaded" /\ r.posted = 0
          /\ r.timer = p.timer /\ r.handled = p.handled /\ r.replies = p.replies
          /\ r.sender = p.sender /\ r.blocked = p.blocked /\ r.alive = p.alive
          /\ r.every = TRUE /\ r.hot = p.hot /\ r.urls = p.urls
      BY DEF Good, PluginStates
    <3>3. "stay" \in kept /\ ~r.blocked => Counted(r, n)
      BY <1>2, <3>2 DEF Good, Listed, Counted
    <3>4. Listed(r)
      BY <3>2 DEF Good, Listed
    <3> QED BY <1>2, <3>1, <3>2, <3>3, <3>4 DEF Good
  <2>2. q \in Tell(r)
    BY <1>2 DEF initialize
  <2> QED BY <2>1, <2>2, TellKeeps DEF InSlot
<1>3. CASE q \in start(p) /\ p.status = "Loaded"
  <2> DEFINE r == [p EXCEPT !.timer = TRUE, !.hot = (kind = "scraper" /\ ~p.every),
                            !.status = "Running"]
  <2>1. Good(r, n) /\ r.replies = p.replies /\ r.sender = p.sender
    BY <1>3 DEF Good, Listed, PluginStates, Counted, Constants
  <2>2. q \in Tell(r)
    BY <1>3 DEF start
  <2> QED BY <2>1, <2>2, TellKeeps DEF InSlot
<1>4. CASE q \in stop(p) /\ p.status = "Running"
  <2> DEFINE r == [p EXCEPT !.timer = FALSE, !.hot = FALSE, !.status = "Loaded"]
  <2>1. Good(r, n) /\ r.replies = p.replies /\ r.sender = p.sender
    BY <1>4 DEF Good, Listed, PluginStates, Counted, Constants
  <2>2. q \in Tell(r)
    BY <1>4 DEF stop
  <2> QED BY <2>1, <2>2, TellKeeps DEF InSlot
<1>5. CASE q \in Post(p) /\ p.network
  <2> DEFINE h == IF kind = "proxy" THEN p.handled + 1 ELSE p.handled
             r == [p EXCEPT !.replies = p.replies + 1, !.posted = p.posted + 1,
                            !.handled = h]
  <2>1. /\ q = r
        /\ r \in PluginStates
        /\ r.replies = p.replies + 1 /\ r.posted = p.posted + 1 /\ r.handled = h
        /\ r.network = p.network /\ r.status = p.status /\ r.timer = p.timer
        /\ r.sender = p.sender /\ r.blocked = p.blocked /\ r.alive = p.alive
        /\ r.every = p.every /\ r.hot = p.hot /\ r.urls = p.urls
    <3>1. h \in Nat /\ p.replies + 1 \in Nat /\ p.posted + 1 \in Nat
      BY DEF Good, Listed, PluginStates
    <3>2. q = r
      BY <1>5 DEF Post
    <3> HIDE DEF h
    <3> QED BY <3>1, <3>2 DEF Good, Listed, PluginStates
  <2>2. p.replies \in Nat /\ p.posted \in Nat /\ p.handled \in Nat /\ p.urls \in Nat
    BY DEF Good, PluginStates
  <2>3. "stay" \in kept /\ ~q.blocked => Counted(q, n)
    BY <1>5, <2>1, <2>2 DEF Good, Listed, Counted
  <2>4. Listed(q)
    BY <2>1, <2>2 DEF Good, Listed
  <2> QED BY <1>5, <2>1, <2>2, <2>3, <2>4 DEF Good, InSlot
<1>6. CASE q \in setConfig(p)
  <2>1. PICK given \in BOOLEAN : q = [p EXCEPT !.every = given] /\ ("interval" \in kept => given)
    BY <1>6 DEF setConfig
  <2> QED BY <2>1 DEF Good, Listed, PluginStates, Counted, InSlot
<1> QED
  BY <1>1, <1>2, <1>3, <1>4, <1>5, <1>6 DEF initialize, start, stop, Execute, Post

\* stop() leaves no plugin running.
LEMMA StopStops ==
  ASSUME NEW p \in PluginStates, NEW q \in stop(p)
  PROVE  q.status # "Running"
BY DEF stop, Tell, WithMutex, PluginStates

\* cleanup() keeps the invariant outside of slots, called by the rule that a running
\* plugin is stopped first.
LEMMA CleanupKeeps ==
  ASSUME NEW p, Good(p, 0), "stopFirst" \in kept => p.status # "Running", NEW q \in cleanup(p)
  PROVE  Good([q EXCEPT !.sender = TRUE], 0)
<1> DEFINE w == [p EXCEPT !.blocked = TRUE]
           r == [p EXCEPT !.network = FALSE, !.replies = 0, !.sender = FALSE,
                          !.status = "Unloaded", !.handled = 0, !.urls = 0]
<1>1. CASE p.status = "Running"
  <2>1. q = w /\ "stopFirst" \notin kept
    BY <1>1 DEF cleanup
  <2> QED BY <1>1, <2>1 DEF Good, Listed, PluginStates
<1>2. CASE p.status # "Running"
  <2> DEFINE s == [r EXCEPT !.sender = TRUE]
  <2>1. /\ s \in PluginStates
        /\ s.timer = FALSE /\ s.network = FALSE /\ s.status = "Unloaded"
        /\ s.replies = 0 /\ s.handled = 0 /\ s.sender = TRUE
        /\ s.posted = p.posted /\ s.posted \in Nat
        /\ s.blocked = p.blocked /\ s.alive = p.alive
    BY <1>2 DEF Good, Listed, PluginStates
  <2>2. Good(s, 0)
    BY <2>1 DEF Good, Listed, Counted
  <2> QED BY <1>2, <2>2 DEF cleanup
<1> QED BY <1>1, <1>2

\* cleanup() inside a callback, which only a client that breaks a rule does, and
\* after stop().
LEMMA CleanupInSlot ==
  ASSUME NEW p, NEW n \in {0, 1}, Good(p, n), InSlot(p), "stay" \notin kept,
         p.status # "Running", NEW q \in cleanup(p)
  PROVE  Good(q, n) /\ InSlot(q)
<1> DEFINE r == [p EXCEPT !.network = FALSE, !.replies = 0, !.sender = FALSE,
                          !.status = "Unloaded", !.handled = 0, !.urls = 0]
<1>1. q = r
  BY DEF cleanup
<1>2. /\ r \in PluginStates
      /\ r.network = FALSE /\ r.replies = 0 /\ r.sender = FALSE /\ r.status = "Unloaded"
      /\ r.handled = 0 /\ r.urls = 0 /\ r.timer = p.timer /\ r.hot = p.hot
      /\ r.blocked = p.blocked
  BY DEF Good, PluginStates
<1> HIDE DEF r
<1> QED BY <1>1, <1>2 DEF Good, Listed, InSlot

-----------------------------------------------------------------------------
(* Slots *)

\* Whatever the callback does while the mutex is free, the invariant is kept.
LEMMA ReactKeeps ==
  ASSUME NEW p, NEW n \in {0, 1}, Good(p, n), Constants, InSlot(p), NEW q \in React(p)
  PROVE  Good(q, n) /\ InSlot(q)
<1>1. CASE q = p
  BY <1>1
<1>2. CASE q \in Execute(p) \cup setConfig(p) \cup start(p) \cup stop(p)
  BY <1>2, MethodKeeps
<1>3. CASE "stay" \notin kept /\ q \in Then(stop(p), cleanup)
  <2>1. PICK s \in stop(p) : q = s \/ q \in cleanup(s)
    BY <1>3 DEF Then
  <2>2. Good(s, n) /\ InSlot(s) /\ s.status # "Running"
    BY <2>1, MethodKeeps, StopStops DEF Good
  <2> QED BY <1>3, <2>1, <2>2, CleanupInSlot
<1> QED
  BY <1>1, <1>2, <1>3 DEF React

\* deleteLater() ends the slot and the double counting of its page.
LEMMA ReleaseKeeps ==
  ASSUME NEW p, Good(p, 1), Constants, InSlot(p), NEW q \in Release(p)
  PROVE  Good([q EXCEPT !.sender = TRUE], 0)
<1>1. CASE p.sender
  <2> DEFINE m == p.replies - 1
             s == [[p EXCEPT !.replies = m] EXCEPT !.sender = TRUE]
  <2>1. m \in Nat /\ p.replies \in Nat /\ p.posted \in Nat /\ p.handled \in Nat
    BY <1>1 DEF Good, Listed, PluginStates, InSlot
  <2>2. p.status # "Unloaded"
    BY <1>1 DEF Good, InSlot
  <2>3. p \in PluginStates
    BY DEF Good
  <2>4. /\ s \in PluginStates
        /\ s.replies = m /\ s.sender = TRUE
        /\ s.timer = p.timer /\ s.network = p.network /\ s.status = p.status
        /\ s.handled = p.handled /\ s.posted = p.posted /\ s.urls = p.urls
        /\ s.every = p.every /\ s.hot = p.hot
        /\ s.blocked = p.blocked /\ s.alive = p.alive
    <3> HIDE DEF m
    <3> QED BY <2>1, <2>3 DEF PluginStates
  <2>5. "stay" \in kept /\ ~s.blocked => Counted(s, 0)
    BY <2>1, <2>2, <2>4 DEF Good, Listed, Counted
  <2>6. Good(s, 0)
    BY <2>2, <2>4, <2>5 DEF Good, Listed
  <2> QED BY <1>1, <2>6 DEF Release
<1>2. CASE ~p.sender
  <2>1. "stay" \notin kept /\ (q = p \/ q = [p EXCEPT !.alive = FALSE])
    BY <1>2 DEF Release, Good
  <2> QED BY <2>1 DEF Good, Listed, PluginStates
<1> QED BY <1>1, <1>2

\* Counting a page uses up the surplus.
LEMMA CountKeeps ==
  ASSUME NEW p, Good(p, 0), Constants, InSlot(p), kind # "proxy", NEW q \in CountPage(p)
  PROVE  Good(q, 1) /\ InSlot(q)
<1>1. PICK n \in IF p.urls = 0 THEN {1} ELSE {0, 1} :
        q \in React([p EXCEPT !.handled = @ + 1, !.urls = @ + n])
  BY DEF CountPage
<1> DEFINE r == [p EXCEPT !.handled = @ + 1, !.urls = @ + n]
<1>2. /\ p \in PluginStates /\ p.handled \in Nat /\ p.urls \in Nat /\ n \in Nat
      /\ p.handled + 1 \in Nat /\ p.urls + n \in Nat
  BY <1>1 DEF Good, PluginStates
<1>3. /\ r \in PluginStates /\ r.handled = p.handled + 1 /\ r.urls = p.urls + n
      /\ r.status = p.status /\ r.network = p.network /\ r.timer = p.timer
      /\ r.every = p.every /\ r.hot = p.hot
      /\ r.replies = p.replies /\ r.sender = p.sender /\ r.posted = p.posted
      /\ r.blocked = p.blocked /\ r.alive = p.alive
  BY <1>2 DEF PluginStates
<1>4. Listed(r)
  BY <1>1, <1>2, <1>3 DEF Good, Listed
<1>5. "stay" \in kept /\ ~r.blocked => Counted(r, 1)
  BY <1>2, <1>3 DEF Good, Counted, Constants, PluginStates, InSlot
<1>6. Good(r, 1) /\ InSlot(r)
  BY <1>2, <1>3, <1>4, <1>5 DEF Good, InSlot
<1> QED
  BY <1>1, <1>6, ReactKeeps

\* A page need not have been counted.
LEMMA Surplus ==
  ASSUME NEW p, Good(p, 0), Constants
  PROVE  Good(p, 1)
BY DEF Good, Listed, PluginStates, Counted, Constants

\* A slot of a reply leaves the plugin good, whatever its callbacks do.
LEMMA ReplyKeeps ==
  ASSUME NEW p, Good(p, 0), Constants, InSlot(p), NEW ok \in BOOLEAN,
         NEW q \in IF kind = "proxy" THEN onRequestFinished(p) ELSE onScrapeFinished(p, ok)
  PROVE  Good([q EXCEPT !.sender = TRUE], 0)
<1>1. \A r : Good(r, 0) => Good([r EXCEPT !.sender = TRUE], 0)
  BY EndOfSlot
<1>2. \A r : Good(r, 1) /\ (r.blocked \/ ~r.alive) => Good([r EXCEPT !.sender = TRUE], 0)
  BY DEF Good, Listed, PluginStates
<1>3. \A r : Good(r, 1) /\ InSlot(r) => \A t \in Release(r) : Good([t EXCEPT !.sender = TRUE], 0)
  BY ReleaseKeeps
<1>4. CASE kind = "proxy" \/ ~ok
  <2>1. q \in Then(React(p), Release)
    BY <1>4 DEF onRequestFinished, onScrapeFinished
  <2>2. PICK r \in React(p) : q = r \/ q \in Release(r)
    BY <2>1 DEF Then
  <2>3. Good(r, 0) /\ InSlot(r)
    BY <2>2, ReactKeeps
  <2> QED BY <1>1, <1>3, <2>2, <2>3, Surplus
<1>5. CASE kind # "proxy" /\ ok
  <2>1. q \in Then(Then(React(p), CountPage), Release)
    BY <1>5 DEF onScrapeFinished
  <2>2. PICK r \in Then(React(p), CountPage) :
          \/ q = r /\ (r.blocked \/ ~r.alive)
          \/ q \in Release(r)
    BY <2>1 DEF Then
  <2>3. PICK t \in React(p) : r = t \/ r \in CountPage(t)
    BY <2>2 DEF Then
  <2>4. Good(t, 0) /\ InSlot(t)
    BY <2>3, ReactKeeps
  <2>5. Good(r, 1) /\ InSlot(r)
    BY <1>5, <2>3, <2>4, CountKeeps, Surplus
  <2> QED BY <1>2, <1>3, <2>2, <2>5
<1> QED BY <1>4, <1>5

\* A timeout leaves the plugin good; its callback is not in the slot of a reply, so
\* nothing is claimed of the reply.
LEMMA TickKeeps ==
  ASSUME NEW p, Good(p, 0), Constants, NEW q \in Tick(p)
  PROVE  Good([q EXCEPT !.sender = TRUE], 0)
<1>1. \A r : Good(r, 0) => Good([r EXCEPT !.sender = TRUE], 0)
  BY EndOfSlot
<1>2. ASSUME NEW s, Good(s, 0), NEW t \in React(s)
      PROVE  Good([t EXCEPT !.sender = TRUE], 0)
  <2>1. CASE t = s
    BY <1>1, <1>2, <2>1
  <2>2. CASE t \in Execute(s) \cup setConfig(s) \cup start(s) \cup stop(s)
    BY <1>1, <1>2, <2>2, MethodKeeps
  <2>3. CASE "stay" \notin kept /\ t \in Then(stop(s), cleanup)
    <3>1. PICK u \in stop(s) : t = u \/ t \in cleanup(u)
      BY <2>3 DEF Then
    <3>2. Good(u, 0) /\ u.status # "Running"
      BY <1>2, <3>1, MethodKeeps, StopStops DEF Good
    <3> QED BY <1>1, <2>3, <3>1, <3>2, CleanupKeeps
  <2> QED BY <1>2, <2>1, <2>2, <2>3 DEF React
<1>3. CASE q \in React(p)
  BY <1>2, <1>3
<1>4. CASE q \in Then(Execute(p), React)
  <2>1. PICK r \in Execute(p) : q = r \/ q \in React(r)
    BY <1>4 DEF Then
  <2>2. Good(r, 0)
    BY <2>1, MethodKeeps
  <2> QED BY <1>1, <1>2, <2>1, <2>2
<1> QED BY <1>3, <1>4 DEF Tick

-----------------------------------------------------------------------------
(* The process *)

\* An instance starts and ends good.
LEMMA FreshIsGood == Good(Fresh, 0) /\ Fresh.sender
BY DEF Good, Listed, Fresh, PluginStates, Counted

\* The invariant, by the actions of the process.
THEOREM PluginInvariant == PluginSpec => []PluginInv
<1>1. PluginInit => PluginInv
  BY FreshIsGood DEF PluginInit, PluginInv, Constants
<1>2. PluginInv /\ [PluginNext]_pluginVars => PluginInv'
  <2> SUFFICES ASSUME PluginInv, [PluginNext]_pluginVars
               PROVE  PluginInv'
    OBVIOUS
  <2>1. ASSUME NEW q, Good([q EXCEPT !.sender = TRUE], 0),
               plugin' = [q EXCEPT !.sender = TRUE],
               UNCHANGED <<kind, kept>>, loaded' = TRUE, callback' \in BOOLEAN
        PROVE  PluginInv'
    <3>1. plugin'.sender = TRUE
      BY <2>1 DEF Good, Listed, PluginStates
    <3> QED BY <2>1, <3>1 DEF PluginInv, Constants, Good, Listed, Counted
  <2>2. Constants /\ Good(plugin, 0) /\ plugin.sender
    BY DEF PluginInv
  <2>3. InSlot(plugin) <=> plugin.replies > 0
    BY <2>2 DEF InSlot
  <2>4. \A r : Good(r, 0) => Good([r EXCEPT !.sender = TRUE], 0)
    BY EndOfSlot
  <2>5. ASSUME NEW S, Free, Becomes(S), callback' \in BOOLEAN,
               \A q \in S : Good([q EXCEPT !.sender = TRUE], 0)
        PROVE  PluginInv'
    BY <2>1, <2>5 DEF Becomes, Free
  <2>6. CASE loadPlugin
    <3>1. PICK r \in initialize(Fresh) : plugin' = r \/ plugin' \in start(r)
      BY <2>6 DEF loadPlugin, Then
    <3>2. ~callback /\ callback' = callback /\ loaded' = TRUE /\ UNCHANGED <<kind, kept>>
      BY <2>6 DEF loadPlugin, PluginInv
    <3>3. r = [Fresh EXCEPT !.network = TRUE, !.status = "Loaded", !.every = TRUE,
                          !.posted = 0]
      BY <3>1, <3>2 DEF initialize, Tell, Fresh
    <3>4. r.status = "Loaded" /\ r.sender = TRUE /\ Good(r, 0)
      BY <2>2, <3>1, <3>3, MethodKeeps, FreshIsGood DEF Fresh
    <3>5. Good(plugin', 0)
      BY <2>2, <3>1, <3>4, MethodKeeps
    <3>6. plugin'.sender = TRUE
      <4>1. CASE plugin' = r
        BY <3>4, <4>1
      <4>2. CASE plugin' \in start(r)
        <5>1. plugin' = [r EXCEPT !.timer = TRUE, !.hot = (kind = "scraper" /\ ~r.every),
                                     !.status = "Running"]
          BY <3>2, <3>4, <4>2 DEF start, Tell
        <5> QED BY <3>3, <5>1 DEF Fresh
      <4> QED BY <3>1, <4>1, <4>2
    <3> QED BY <3>2, <3>5, <3>6 DEF PluginInv, Constants, Good, Listed, Counted
  <2>7. CASE unloadPlugin
    <3>1. PICK q \in Then(Then(stop(plugin), cleanup), cleanup) :
            IF q.blocked THEN plugin' = q /\ UNCHANGED <<loaded, callback>>
                         ELSE plugin' = Fresh /\ loaded' = FALSE /\ callback' = FALSE
      BY <2>7 DEF unloadPlugin
    <3>2. UNCHANGED <<kind, kept>> /\ loaded
      BY <2>7 DEF unloadPlugin, Free
    <3>3. CASE ~q.blocked
      <4>1. plugin' = Fresh /\ loaded' = FALSE /\ callback' = FALSE
        BY <3>1, <3>3
      <4>2. Good(plugin', 0) /\ plugin'.sender = TRUE
        BY <4>1, FreshIsGood DEF Fresh
      <4> QED BY <2>2, <3>2, <4>1, <4>2 DEF PluginInv, Constants, Good, Listed, Counted
    <3>4. CASE q.blocked
      <4>1. PICK t \in Then(stop(plugin), cleanup) :
              \/ q = t
              \/ ~t.blocked /\ t.alive /\ q \in cleanup(t)
        BY <3>1 DEF Then
      <4>2. PICK s \in stop(plugin) :
              \/ t = s /\ (s.blocked \/ ~s.alive)
              \/ ~s.blocked /\ t \in cleanup(s)
        BY <4>1 DEF Then
      <4>3. Good(s, 0)
        BY <2>2, <4>2, MethodKeeps
      <4>4. s.sender = TRUE /\ s.status # "Running"
        BY <2>2, <4>2 DEF stop, Tell, WithMutex, Good, Listed, PluginStates
      <4>5. t \in cleanup(s) =>
              t \in PluginStates /\ t.status = "Unloaded" /\ t.blocked = s.blocked
        <5> DEFINE r == [s EXCEPT !.network = FALSE, !.replies = 0, !.sender = FALSE,
                                  !.status = "Unloaded", !.handled = 0, !.urls = 0]
        <5>1. r \in PluginStates /\ r.status = "Unloaded" /\ r.blocked = s.blocked
          BY <4>3 DEF Good, Listed, PluginStates
        <5>2. t \in cleanup(s) => t = r
          BY <4>4 DEF cleanup
        <5> QED BY <5>1, <5>2
      <4>6. t \in cleanup(s) /\ q \in cleanup(t) => q.blocked = s.blocked
        <5> SUFFICES ASSUME t \in cleanup(s), q \in cleanup(t)
                     PROVE  q.blocked = s.blocked
          OBVIOUS
        <5>1. t \in PluginStates /\ t.status = "Unloaded" /\ t.blocked = s.blocked
          BY <4>5
        <5>2. q = [t EXCEPT !.network = FALSE, !.replies = 0, !.sender = FALSE,
                            !.status = "Unloaded", !.handled = 0, !.urls = 0]
          BY <5>1 DEF cleanup
        <5>3. q.blocked = t.blocked
          BY <5>1, <5>2 DEF PluginStates
        <5> QED BY <5>1, <5>3
      <4>7. q = s
        BY <3>4, <4>1, <4>2, <4>5, <4>6
      <4> QED BY <3>1, <3>2, <3>4, <4>3, <4>4, <4>7 DEF PluginInv, Constants, Good, Listed, Counted
    <3> QED BY <3>3, <3>4
  <2>8. CASE Initialize \/ Start \/ Stop \/ ExecuteRequest
    BY <2>2, <2>4, <2>5, <2>8, MethodKeeps
    DEF Initialize, Start, Stop, ExecuteRequest, Constants
  <2>9. CASE Cleanup
    BY <2>2, <2>5, <2>9, CleanupKeeps DEF Cleanup, Constants
  <2>10. CASE Commands
    BY <2>2, <2>4, <2>5, <2>10, CommandKeeps DEF Commands, Constants
  <2>15. CASE SetConfig
    BY <2>2, <2>4, <2>5, <2>15, MethodKeeps DEF SetConfig, Constants
  <2>11. CASE SetCallback
    BY <2>11 DEF SetCallback, Free, PluginInv, Constants, Good, Listed, Counted
  <2>12. CASE TimerTimeout
    BY <2>2, <2>5, <2>12, TickKeeps DEF TimerTimeout, Constants
  <2>13. CASE ReplyFinished
    BY <2>2, <2>3, <2>5, <2>13, ReplyKeeps DEF ReplyFinished, Constants
  <2>14. CASE UNCHANGED pluginVars
    BY <2>14 DEF pluginVars, PluginInv, Constants, Good, Listed, Counted
  <2> QED
    BY <2>6, <2>7, <2>8, <2>9, <2>10, <2>11, <2>12, <2>13, <2>14, <2>15
    DEF PluginNext
<1> QED BY <1>1, <1>2, PTL DEF PluginSpec

\* Type correctness, for any number of requests and any client.
THEOREM PluginTypeCorrect == PluginSpec => []PluginTypeOK
<1>1. PluginInv => PluginTypeOK
  BY DEF PluginInv, Constants, Good, Listed, PluginStates, PluginTypeOK
<1> QED BY <1>1, PluginInvariant, PTL

\* The timer and the network manager follow the status, whatever callbacks do in
\* the middle of a slot.
THEOREM ResourcesFollowStatus == PluginSpec => []ResourcesMatchStatus
<1>1. PluginInv => ResourcesMatchStatus
  BY DEF PluginInv, Good, Listed, ResourcesMatchStatus
<1> QED BY <1>1, PluginInvariant, PTL

\* Each rule keeps its fault out: waiting for a mutex the process holds, touching a
\* deleted reply, a timer without a period.
THEOREM RulesSuffice == PluginSpec => []RulesAreEnough
<1>1. PluginInv => RulesAreEnough
  BY DEF PluginInv, Good, Listed, RulesAreEnough
<1> QED BY <1>1, PluginInvariant, PTL

\* The counters a client whose callbacks do not clean up reads belong to the present
\* life of the plugin.
THEOREM CountsAreOfThisSession == PluginSpec => []CountsThisSession
<1>1. PluginInv => CountsThisSession
  BY DEF PluginInv, Constants, Good, Listed, PluginStates, Counted, CountsThisSession
<1> QED BY <1>1, PluginInvariant, PTL
=============================================================================

-------------------------------- MODULE UiLists --------------------------------
(***************************************************************************)
(* The lists of plugins and agents that class UiManager keeps              *)
(* (src/src/components/app/ui_manager.cpp).  They are the UI's own: no     *)
(* call reaches a plugin or an agent.  loadPlugin and restartAgent leave   *)
(* a single-shot timer behind that no later call takes back, and whatever  *)
(* is asked for meanwhile is done at once: the effects come in another     *)
(* order than the calls.                                                   *)
(*                                                                         *)
(* UiManager takes these operations in.  A plugin is known by the base     *)
(* name of its file, and the order of a list does not matter.              *)
(***************************************************************************)
EXTENDS Naturals

CONSTANTS
  PluginNames,  \* base names of plugin files
  AgentIds      \* ids of agents

ASSUME ListsAssumption == PluginNames \cap AgentIds = {}

VARIABLES
  listed,    \* how often m_pluginStatuses or m_connectedAgents holds an item
  late,      \* single-shot timers that will list an item
  asked,     \* history: items whose last call asked for them
  overtaken  \* history: items whose last call took them off, and a timer was pending

listVars == <<listed, late, asked, overtaken>>

Items == PluginNames \cup AgentIds

\* initializeMetrics() lists what the program is built with.
ListsInit ==
  /\ listed = [i \in Items |-> 1]
  /\ late = [i \in Items |-> 0]
  /\ asked = Items /\ overtaken = {}

-----------------------------------------------------------------------------
(* What a call does at once, and what it leaves to a timer *)

Insert(i)  == listed' = [listed EXCEPT ![i] = 1]
Append1(i) == listed' = [listed EXCEPT ![i] = @ + 1]
Remove(i)  == listed' = [listed EXCEPT ![i] = 0]

Later(i) == late' = [late EXCEPT ![i] = @ + 1]
Fires(i) == late[i] > 0 /\ late' = [late EXCEPT ![i] = @ - 1] /\ UNCHANGED <<asked, overtaken>>

AskFor(i) == asked' = asked \cup {i} /\ overtaken' = overtaken \ {i}

\* The item goes at once; a timer that is pending will list it again.
TakeOff(i) ==
  /\ Remove(i)
  /\ asked' = asked \ {i}
  /\ overtaken' = IF late[i] > 0 THEN overtaken \cup {i} ELSE overtaken \ {i}
  /\ UNCHANGED late

\* Slip in startAgent: contains() is not tested.
Enlist_Twice(a) == Append1(a)

\* startAgent(): the list holds an agent once.
Enlist(a) == IF listed[a] = 0 THEN Append1(a) ELSE UNCHANGED listed

-----------------------------------------------------------------------------
(* The operations *)

loadPlugin(p)   == Later(p) /\ AskFor(p) /\ UNCHANGED listed
LoadTimeout(p)  == Fires(p) /\ Insert(p)
unloadPlugin(p) == TakeOff(p)

startAgent(a)          == Enlist(a) /\ AskFor(a) /\ UNCHANGED late
stopAgent(a)           == TakeOff(a)
restartAgent(a)        == Remove(a) /\ Later(a) /\ AskFor(a)
RestartAgentTimeout(a) == Fires(a) /\ Enlist(a)

ListCall ==
  \/ \E p \in PluginNames : loadPlugin(p) \/ unloadPlugin(p)
  \/ \E a \in AgentIds : startAgent(a) \/ stopAgent(a) \/ restartAgent(a)

ListTimeout ==
  \/ \E p \in PluginNames : LoadTimeout(p)
  \/ \E a \in AgentIds : RestartAgentTimeout(a)

-----------------------------------------------------------------------------
(* Properties *)

ListsTypeOK ==
  /\ listed \in [Items -> Nat] /\ late \in [Items -> Nat]
  /\ asked \subseteq Items /\ overtaken \subseteq Items

\* However loads, restarts and their opposites overtake each other, an item is never
\* listed twice; once the timers about it are done it is listed if the last call
\* asked for it; and it is listed against the last call only if that call took it
\* off while a timer was pending, which then undid it.
ListsFollowCalls ==
  \A i \in Items :
    /\ listed[i] <= 1
    /\ late[i] = 0 /\ i \in asked => listed[i] = 1
    /\ late[i] = 0 /\ listed[i] = 1 => i \in asked \cup overtaken
=============================================================================

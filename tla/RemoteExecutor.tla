---------------------------- MODULE RemoteExecutor ----------------------------
(***************************************************************************)
(* The commands of class RemoteExecutor (src/src/core/remote_executor.cpp):*)
(* executeCommandAsync, the slots connected to the QProcess it creates,    *)
(* the execution timeout, and the calls that wait for their command.  One  *)
(* thread runs them all, but they nest: start(), waitForFinished() and the *)
(* destructor of a QProcess emit the signals of the process before they    *)
(* return, so a slot can run in the middle of another.                     *)
(*                                                                         *)
(* The slots never look at the sender.  They act on currentProcess, which  *)
(* may be another process by then, or null.  What a call through the null  *)
(* pointer does is undefined: waitForStarted() reads a member and faults;  *)
(* deleteLater() faults or is refused by postEvent(), depending on the Qt  *)
(* version.                                                                *)
(*                                                                         *)
(* QProcess on Windows, external: a program that cannot be started emits   *)
(* errorOccurred from start(); kill() always ends the child, with a crash  *)
(* exit; a crash emits errorOccurred and then finished.                    *)
(***************************************************************************)
EXTENDS Naturals, FiniteSets

CONSTANT MaxCommands   \* bound: commands given to one executor

ASSUME ExecutorAssumption == MaxCommands \in Nat

Commands == 1..MaxCommands
null     == 0

VARIABLES
  issued,     \* the commands are numbered in the order they are issued
  executor,   \* the executor's own state, see ExecutorInit
  child       \* [Commands -> state of the child process and its QProcess]

executorVars == <<issued, executor, child>>

\* "exited" and "crashed": the child is gone and the event loop does not know
\* yet; "reaped": its signals were emitted; "deleted": the QProcess is gone.
ChildStates == {"none", "running", "exited", "crashed", "reaped", "deleted"}

ExecutorInit ==
  /\ issued = 0
  /\ executor = [current   |-> null,   \* currentProcess
                 timer     |-> FALSE,  \* timeoutTimer is running
                 buffer    |-> {},     \* whose output currentCommandOutput holds
                 doomed    |-> {},     \* deleteLater() was called
                 completed |-> [c \in Commands |-> 0],  \* commandCompleted emitted
                 reported  |-> [c \in Commands |-> {}], \* history: whose output it carried
                 alive     |-> TRUE]   \* the program has not faulted
  /\ child = [c \in Commands |-> "none"]

-----------------------------------------------------------------------------
(* The slots, as functions of the executor's state.  A result is a set of   *)
(* states where behaviour is undefined.                                     *)

\* currentProcess->deleteLater(); currentProcess = nullptr;
Drop(x) ==
  IF x.current = null
    THEN {x, [x EXCEPT !.alive = FALSE]}
    ELSE {[x EXCEPT !.doomed = @ \cup {x.current}, !.current = null]}

Complete(x, c) == [x EXCEPT !.completed[c] = @ + 1, !.reported[c] = @ \cup x.buffer]

\* Slips in onProcessFinished: the timer keeps running; signals of a process
\* that is not current are ignored.
onProcessFinished_KeepsTimer(x, c) == Drop(Complete(x, c))

onProcessFinished_CurrentOnly(x, c) ==
  IF x.current = c THEN Drop(Complete([x EXCEPT !.timer = FALSE], c)) ELSE {x}

\* Run in the middle of c's signals.
onProcessFinished(x, c) == Drop(Complete([x EXCEPT !.timer = FALSE], c))

\* Slip in onProcessError: no test for null.
onProcessError_NoTest(x) ==
  {[x EXCEPT !.timer = FALSE, !.doomed = @ \cup {x.current}, !.current = null]}

onProcessError(x) ==
  LET y == [x EXCEPT !.timer = FALSE]
  IN IF y.current = null THEN {y} ELSE Drop(y)

\* The signals QProcess emits when it learns that child c is gone.
Reap(x, c, crashed) ==
  UNION {onProcessFinished(y, c) : y \in IF crashed THEN onProcessError(x) ELSE {x}}

\* kill() ends a running child; then whoever waits learns how it ended.
Killed(state)       == IF state = "running" THEN "crashed" ELSE state
KillAndReap(x, c)   == Reap(x, c, Killed(child[c]) = "crashed")

-----------------------------------------------------------------------------
(* executeCommandAsync: the process of the command before it is killed and  *)
(* given up, but neither waited for nor disconnected.                       *)

\* Slip in Supersede: the old process is killed but not deleted.
Supersede_NotDeleted(x) == [x EXCEPT !.current = null]

Supersede(x) ==
  IF x.current = null THEN x
  ELSE [x EXCEPT !.doomed = @ \cup {x.current}, !.current = null]

KillCurrent ==
  [c \in Commands |-> IF c = executor.current THEN Killed(child[c]) ELSE child[c]]

\* Slips in ExecuteAsync: the buffer is not cleared; the timer is not started.
ExecuteAsync_KeepsBuffer ==
  /\ executor.alive /\ issued < MaxCommands
  /\ issued' = issued + 1
  /\ executor' = [Supersede(executor) EXCEPT !.current = issued + 1, !.timer = TRUE]
  /\ child' = [KillCurrent EXCEPT ![issued + 1] = "running"]

ExecuteAsync_NoTimer ==
  /\ executor.alive /\ issued < MaxCommands
  /\ issued' = issued + 1
  /\ executor' = [Supersede(executor) EXCEPT !.current = issued + 1, !.buffer = {}]
  /\ child' = [KillCurrent EXCEPT ![issued + 1] = "running"]

ExecuteAsync ==
  /\ executor.alive /\ issued < MaxCommands
  /\ issued' = issued + 1
  /\ executor' = [Supersede(executor) EXCEPT !.current = issued + 1,
                                             !.buffer = {},
                                             !.timer = TRUE]
  /\ child' = [KillCurrent EXCEPT ![issued + 1] = "running"]

\* The program cannot be started: onProcessError clears currentProcess before
\* start() returns, and waitForStarted() is called through it.
ExecuteAsyncFailsToStart ==
  /\ executor.alive /\ issued < MaxCommands
  /\ issued' = issued + 1
  /\ \E x \in onProcessError([Supersede(executor) EXCEPT !.current = issued + 1]) :
       executor' = [x EXCEPT !.alive = x.current # null]
  /\ child' = [KillCurrent EXCEPT ![issued + 1] = "reaped"]

\* executeCommand, executeScript, listProcesses and killProcess: the child of a
\* local QProcess has not started, has finished, or is killed before they return,
\* and no slot hears of it.  The event loop stands still meanwhile; children may end.
ExecuteAndWait ==
  /\ executor.alive /\ issued < MaxCommands
  /\ issued' = issued + 1
  /\ child' = [child EXCEPT ![issued + 1] = "deleted"]
  /\ UNCHANGED executor

-----------------------------------------------------------------------------
(* The event loop *)

\* readyRead of any process reads the current one.
OutputReady(c) ==
  /\ executor.alive /\ child[c] \in {"running", "exited", "crashed"}
  /\ executor.current # null
  /\ executor' = [executor EXCEPT !.buffer = @ \cup {executor.current}]
  /\ UNCHANGED <<issued, child>>

ChildEnds(c) ==
  /\ child[c] = "running"
  /\ \E how \in {"exited", "crashed"} : child' = [child EXCEPT ![c] = how]
  /\ UNCHANGED <<issued, executor>>

NotifyEnd(c) ==
  /\ executor.alive /\ child[c] \in {"exited", "crashed"}
  /\ executor' \in Reap(executor, c, child[c] = "crashed")
  /\ child' = [child EXCEPT ![c] = "reaped"]
  /\ UNCHANGED issued

\* ~QProcess kills and waits for a child that was not reaped.
DeferredDelete(c) ==
  /\ executor.alive /\ c \in executor.doomed /\ child[c] # "deleted"
  /\ IF child[c] = "reaped" THEN UNCHANGED executor
                            ELSE executor' \in KillAndReap(executor, c)
  /\ child' = [child EXCEPT ![c] = "deleted"]
  /\ UNCHANGED issued

\* waitForFinished() emits the signals of the killed process, so both slots run
\* before the timeout is reported and currentProcess used again.
onExecutionTimeout ==
  LET c == executor.current
      x == [executor EXCEPT !.timer = FALSE]
  IN /\ executor.alive /\ executor.timer
     /\ IF c = null
          THEN executor' = x /\ UNCHANGED child
          ELSE /\ executor' \in UNION {IF y.alive THEN Drop(Complete(y, c)) ELSE {y} :
                                         y \in KillAndReap(x, c)}
               /\ child' = [child EXCEPT ![c] = "reaped"]
     /\ UNCHANGED issued

-----------------------------------------------------------------------------
ExecutorNext ==
  \/ ExecuteAsync \/ ExecuteAsyncFailsToStart \/ ExecuteAndWait
  \/ onExecutionTimeout
  \/ \E c \in Commands : \/ OutputReady(c) \/ ChildEnds(c)
                         \/ NotifyEnd(c) \/ DeferredDelete(c)

\* The event loop serves the timer, the ends of children and deferred deletes;
\* a child is free to run for ever.
ExecutorFairness ==
  /\ WF_executorVars(onExecutionTimeout)
  /\ \A c \in Commands : /\ WF_executorVars(NotifyEnd(c))
                         /\ WF_executorVars(DeferredDelete(c))

ExecutorSpec == ExecutorInit /\ [][ExecutorNext]_executorVars /\ ExecutorFairness

-----------------------------------------------------------------------------
(* Properties *)

\* Every variable stays in its type.
ExecutorTypeOK ==
  /\ issued \in 0..MaxCommands
  /\ executor.current \in Commands \cup {null}
  /\ executor.timer \in BOOLEAN
  /\ executor.buffer \subseteq Commands
  /\ executor.doomed \subseteq Commands
  /\ executor.completed \in [Commands -> Nat]
  /\ executor.reported \in [Commands -> SUBSET Commands]
  /\ executor.alive \in BOOLEAN
  /\ child \in [Commands -> ChildStates]

\* The timer and the pointer are set and cleared in five places.  In between the
\* timer runs exactly while there is a command, so it neither misses a command
\* nor fires without one, though slots stop it for processes that are not theirs.
TimerGuardsCommand ==
  executor.alive => (executor.timer <=> executor.current # null)

\* Every QProcess that was created is the current one, due for deletion or gone: a
\* superseded, failed, crashed or timed out command leaves none behind.
NothingLeaks ==
  executor.alive =>
    \A c \in 1..issued :
      c = executor.current \/ c \in executor.doomed \/ child[c] = "deleted"

\* All commands share one buffer.  A report of a command never carries the output
\* of an earlier one, nor of two, though the earlier one can still signal, and be
\* reported, after the next was started.  (It may carry a later command's: the end
\* of a superseded process is reported with what the buffer holds by then.)
OutputIsNotStale ==
  \A c \in Commands :
    /\ executor.reported[c] \subseteq c..MaxCommands
    /\ Cardinality(executor.reported[c]) <= 1

\* A command is reported when its process is known to have ended: not before, not
\* never, and no more than twice, though slots act on whichever process is current
\* and the ends of superseded processes come late.
ReportsFollowEnds ==
  \A c \in Commands :
    /\ executor.completed[c] <= 2
    /\ executor.alive =>
         /\ child[c] \in {"none", "running", "exited", "crashed"} => executor.completed[c] = 0
         /\ child[c] = "reaped" => executor.completed[c] > 0

\* A child that would run for ever is ended all the same, by its timeout or by
\* the command that supersedes it (or the program has faulted).
EveryChildEnds ==
  \A c \in Commands : child[c] = "running" ~> (child[c] # "running" \/ ~executor.alive)

\* A command that was started is reported, also when it was superseded, crashed
\* or timed out (or the program has faulted).
EveryCommandIsReported ==
  \A c \in Commands :
    child[c] = "running" ~> (executor.completed[c] > 0 \/ ~executor.alive)

\* remote_executor.h:112: commandCompleted is "Emitted when command execution
\* completes".  A command completes once.
CompletesOnce == \A c \in Commands : executor.completed[c] <= 1

\* remote_executor.h:124: commandError is "Emitted when command execution fails".
\* A single command that cannot be started or crashes is an error report, not
\* the end of the program.
FailureIsSurvived == executor.alive
=============================================================================

------------------------- MODULE RemoteExecutorProofs -------------------------
(***************************************************************************)
(* Proofs about RemoteExecutor, for any number of commands.                *)
(*                                                                         *)
(* The argument: whatever slots run, for whichever process and however     *)
(* they nest, they leave the executor without a command and without a      *)
(* timer, and with the process that was current marked for deletion        *)
(* (Settles).  A new command sets pointer, timer and an empty buffer       *)
(* together; the buffer is added to only while its command is current.     *)
(*                                                                         *)
(* Reports are counted beside it: the signals of a process complete its    *)
(* own command once (ReapReports), the timeout completes the current one   *)
(* once more, and nothing completes a command whose end was seen already.  *)
(* A report carries the buffer, which holds the output of the newest       *)
(* command that was current: none whose end is still to be seen is newer.  *)
(***************************************************************************)
EXTENDS RemoteExecutor, FiniteSetTheorems, TLAPS

ExecutorStates ==
  [current : Commands \cup {null}, timer : BOOLEAN, buffer : SUBSET Commands,
   doomed : SUBSET Commands, completed : [Commands -> Nat],
   reported : [Commands -> SUBSET Commands], alive : BOOLEAN]

Types ==
  issued \in 0..MaxCommands /\ executor \in ExecutorStates /\ child \in [Commands -> ChildStates]

\* Every command that was given is current, marked for deletion or gone, and no
\* other is current.
AllKept ==
  /\ executor.current \in 0..issued
  /\ executor.alive => \A c \in 1..issued :
       c = executor.current \/ c \in executor.doomed \/ child[c] = "deleted"

\* The buffer belongs to the current command, or to the last one that was.
BufferOwned ==
  /\ \E c \in Commands \cup {null} : executor.buffer \subseteq {c}
  /\ executor.current # null => executor.buffer \subseteq {executor.current}

ExecutorInv == Types /\ TimerGuardsCommand /\ AllKept /\ BufferOwned

\* What the slots make of a state.
Settles(x, y) ==
  /\ y \in ExecutorStates
  /\ ~y.timer /\ y.current = null /\ y.buffer = x.buffer
  /\ \A c \in Commands : c = x.current \/ c \in x.doomed <=> c \in y.doomed
  /\ y.alive => x.alive

-----------------------------------------------------------------------------
(* The slots *)

LEMMA NullIsNoCommand == null \notin Commands
  BY ExecutorAssumption DEF null, Commands

LEMMA DropSettles ==
  ASSUME NEW x \in ExecutorStates, ~x.timer, NEW y \in Drop(x) PROVE Settles(x, y)
<1>1. CASE x.current = null
  <2>1. y = x \/ y = [x EXCEPT !.alive = FALSE]
    BY <1>1 DEF Drop
  <2>2. /\ y \in ExecutorStates
        /\ y.timer = x.timer /\ y.current = x.current /\ y.buffer = x.buffer
        /\ y.doomed = x.doomed /\ (y.alive => x.alive)
    BY <2>1 DEF ExecutorStates
  <2>. QED
    BY <1>1, <2>2, NullIsNoCommand DEF Settles
<1>2. CASE x.current # null
  <2>1. y = [x EXCEPT !.doomed = @ \cup {x.current}, !.current = null]
    BY <1>2 DEF Drop
  <2>2. x.current \in Commands
    BY <1>2 DEF ExecutorStates
  <2>. QED
    BY <2>1, <2>2 DEF Settles, ExecutorStates
<1>. QED
  BY <1>1, <1>2

LEMMA CompleteKeeps ==
  ASSUME NEW x \in ExecutorStates, NEW c \in Commands
  PROVE  /\ Complete(x, c) \in ExecutorStates
         /\ Complete(x, c).timer = x.timer /\ Complete(x, c).current = x.current
         /\ Complete(x, c).buffer = x.buffer /\ Complete(x, c).doomed = x.doomed
         /\ Complete(x, c).alive = x.alive
<1> DEFINE n == [x.completed EXCEPT ![c] = @ + 1]
           o == [x.reported EXCEPT ![c] = @ \cup x.buffer]
<1>1. n \in [Commands -> Nat] /\ o \in [Commands -> SUBSET Commands]
  BY DEF ExecutorStates
<1>2. Complete(x, c) = [x EXCEPT !.completed = n, !.reported = o]
  BY DEF Complete, ExecutorStates
<1> HIDE DEF n, o
<1>. QED
  BY <1>1, <1>2 DEF ExecutorStates

\* Settling is passed on from slot to slot.
LEMMA SettlesOn ==
  ASSUME NEW x, NEW y, NEW z, Settles(x, y), Settles(y, z) PROVE Settles(x, z)
BY NullIsNoCommand DEF Settles

LEMMA FinishedSettles ==
  ASSUME NEW x \in ExecutorStates, NEW c \in Commands, NEW y \in onProcessFinished(x, c)
  PROVE  Settles(x, y)
<1> DEFINE quiet == [x EXCEPT !.timer = FALSE]
<1>1. /\ quiet \in ExecutorStates /\ ~quiet.timer
      /\ quiet.current = x.current /\ quiet.buffer = x.buffer /\ quiet.doomed = x.doomed
      /\ quiet.alive = x.alive
  BY DEF ExecutorStates
<1>2. y \in Drop(Complete(quiet, c))
  BY DEF onProcessFinished
<1> HIDE DEF quiet
<1>3. Settles(Complete(quiet, c), y)
  BY <1>1, <1>2, CompleteKeeps, DropSettles
<1>. QED
  BY <1>1, <1>3, CompleteKeeps DEF Settles

LEMMA ErrorSettles ==
  ASSUME NEW x \in ExecutorStates, NEW y \in onProcessError(x) PROVE Settles(x, y)
<1> DEFINE quiet == [x EXCEPT !.timer = FALSE]
<1>1. /\ quiet \in ExecutorStates /\ ~quiet.timer
      /\ quiet.current = x.current /\ quiet.buffer = x.buffer /\ quiet.doomed = x.doomed
      /\ quiet.alive = x.alive
  BY DEF ExecutorStates
<1>2. y \in IF quiet.current = null THEN {quiet} ELSE Drop(quiet)
  BY DEF onProcessError
<1> HIDE DEF quiet
<1>3. CASE quiet.current = null
  BY <1>1, <1>2, <1>3, NullIsNoCommand DEF Settles
<1>4. CASE quiet.current # null
  <2>1. Settles(quiet, y)
    BY <1>1, <1>2, <1>4, DropSettles
  <2>. QED
    BY <1>1, <2>1 DEF Settles
<1>. QED
  BY <1>3, <1>4

\* The signals of a child that ended, whichever it was.
LEMMA ReapSettles ==
  ASSUME NEW x \in ExecutorStates, NEW c \in Commands, NEW crashed \in BOOLEAN,
         NEW z \in Reap(x, c, crashed)
  PROVE  Settles(x, z)
<1>1. PICK y \in IF crashed THEN onProcessError(x) ELSE {x} : z \in onProcessFinished(y, c)
  BY DEF Reap
<1>2. CASE crashed
  <2>1. Settles(x, y)
    BY <1>1, <1>2, ErrorSettles
  <2>2. Settles(y, z)
    BY <1>1, <2>1, FinishedSettles DEF Settles
  <2>. QED
    BY <2>1, <2>2, SettlesOn
<1>3. CASE ~crashed
  BY <1>1, <1>3, FinishedSettles
<1>. QED
  BY <1>2, <1>3

\* A step in which slots ran keeps the invariant.
LEMMA SettledInv ==
  ASSUME ExecutorInv, UNCHANGED issued, Settles(executor, executor'),
         child' \in [Commands -> ChildStates],
         \A c \in Commands :
           child[c] = "deleted" => c = executor.current \/ child'[c] = "deleted"
  PROVE  ExecutorInv'
<1>1. issued \in Nat /\ \A c \in 1..issued : c \in Commands
  BY ExecutorAssumption DEF ExecutorInv, Types, Commands
<1>2. Types' /\ TimerGuardsCommand'
  BY DEF ExecutorInv, Types, Settles, TimerGuardsCommand
<1>3. AllKept'
  BY <1>1 DEF ExecutorInv, AllKept, Settles, null
<1>4. BufferOwned'
  BY DEF ExecutorInv, BufferOwned, Settles
<1>. QED
  BY <1>2, <1>3, <1>4 DEF ExecutorInv

-----------------------------------------------------------------------------
(* The actions *)

LEMMA ExecutorInitInv == ExecutorInit => ExecutorInv
<1>. SUFFICES ASSUME ExecutorInit PROVE ExecutorInv
  OBVIOUS
<1>1. Types
  BY ExecutorAssumption DEF ExecutorInit, Types, ExecutorStates, ChildStates
<1>. QED
  BY <1>1 DEF ExecutorInit, ExecutorInv, TimerGuardsCommand, AllKept, BufferOwned, null

\* What a new command leaves of the one before it.
LEMMA SupersedeKeeps ==
  ASSUME ExecutorInv
  PROVE  /\ Supersede(executor) \in ExecutorStates
         /\ Supersede(executor).current = null
         /\ Supersede(executor).alive = executor.alive
         /\ Supersede(executor).buffer = executor.buffer
         /\ executor.alive => \A c \in 1..issued :
                                c \in Supersede(executor).doomed \/ KillCurrent[c] = "deleted"
         /\ KillCurrent \in [Commands -> ChildStates]
<1>1. \A c \in 1..issued : c # null /\ c \in Commands
  BY ExecutorAssumption DEF ExecutorInv, Types, null, Commands
<1>2. /\ KillCurrent \in [Commands -> ChildStates]
      /\ \A c \in Commands : child[c] = "deleted" => KillCurrent[c] = "deleted"
  BY DEF ExecutorInv, Types, KillCurrent, Killed, ChildStates
<1>. QED
  BY <1>1, <1>2 DEF ExecutorInv, Types, AllKept, Supersede, ExecutorStates

LEMMA ExecuteAsyncInv == ExecutorInv /\ ExecuteAsync => ExecutorInv'
<1>. SUFFICES ASSUME ExecutorInv, ExecuteAsync PROVE ExecutorInv'
  OBVIOUS
<1> DEFINE x == Supersede(executor)
<1>1. /\ issued \in Nat /\ issued + 1 \in Commands /\ issued + 1 # null
      /\ issued' \in 0..MaxCommands /\ issued' = issued + 1
  BY ExecutorAssumption DEF ExecutorInv, Types, ExecuteAsync, Commands, null
<1>2. /\ x \in ExecutorStates /\ x.alive = executor.alive /\ executor.alive
      /\ executor.alive => \A c \in 1..issued : c \in x.doomed \/ KillCurrent[c] = "deleted"
      /\ KillCurrent \in [Commands -> ChildStates]
  BY SupersedeKeeps DEF ExecuteAsync
<1>3. /\ executor' = [x EXCEPT !.current = issued + 1, !.buffer = {}, !.timer = TRUE]
      /\ child' = [KillCurrent EXCEPT ![issued + 1] = "running"]
  BY DEF ExecuteAsync
<1> HIDE DEF x
<1>4. /\ executor' \in ExecutorStates
      /\ executor'.current = issued + 1 /\ executor'.buffer = {} /\ executor'.timer
      /\ executor'.doomed = x.doomed
  BY <1>1, <1>2, <1>3 DEF ExecutorStates
<1>5. Types'
  BY <1>1, <1>2, <1>3, <1>4 DEF Types, ChildStates
<1>6. AllKept'
  <2>1. \A c \in 1..issued : c \in Commands /\ c # issued + 1
    BY <1>1, ExecutorAssumption DEF ExecutorInv, Types, Commands
  <2>2. \A c \in 1..issued : c \in executor'.doomed \/ child'[c] = "deleted"
    BY <1>2, <1>3, <1>4, <2>1
  <2>3. \A c \in 1..(issued + 1) : c \in 1..issued \/ c = issued + 1
    BY <1>1
  <2>. QED
    BY <1>1, <1>4, <2>2, <2>3 DEF AllKept
<1>. QED
  BY <1>1, <1>4, <1>5, <1>6 DEF ExecutorInv, TimerGuardsCommand, BufferOwned

LEMMA FailsToStartInv == ExecutorInv /\ ExecuteAsyncFailsToStart => ExecutorInv'
<1>. SUFFICES ASSUME ExecutorInv, ExecuteAsyncFailsToStart PROVE ExecutorInv'
  OBVIOUS
<1> DEFINE x == [Supersede(executor) EXCEPT !.current = issued + 1]
<1>1. /\ issued \in Nat /\ issued + 1 \in Commands
      /\ issued' \in 0..MaxCommands /\ issued' = issued + 1
  BY ExecutorAssumption DEF ExecutorInv, Types, ExecuteAsyncFailsToStart, Commands
<1>2. x \in ExecutorStates /\ x.buffer = executor.buffer
  BY <1>1, SupersedeKeeps DEF ExecutorStates
<1>3. PICK y \in onProcessError(x) : executor' = [y EXCEPT !.alive = y.current # null]
  BY DEF ExecuteAsyncFailsToStart
<1>4. child' \in [Commands -> ChildStates]
  BY <1>1, SupersedeKeeps DEF ExecuteAsyncFailsToStart, ChildStates
<1> HIDE DEF x
<1>5. Settles(x, y)
  BY <1>2, <1>3, ErrorSettles
<1>6. /\ executor' \in ExecutorStates /\ ~executor'.alive
      /\ executor'.current = null /\ executor'.buffer = executor.buffer
  BY <1>2, <1>3, <1>5 DEF Settles, ExecutorStates
<1>. QED
  BY <1>1, <1>4, <1>6 DEF ExecutorInv, Types, TimerGuardsCommand, AllKept, BufferOwned, null

LEMMA ExecuteAndWaitInv == ExecutorInv /\ ExecuteAndWait => ExecutorInv'
<1>. SUFFICES ASSUME ExecutorInv, ExecuteAndWait PROVE ExecutorInv'
  OBVIOUS
<1>1. /\ issued \in Nat /\ issued' = issued + 1 /\ issued' \in 0..MaxCommands
      /\ issued + 1 \in Commands /\ \A c \in 1..issued : c \in Commands
  BY ExecutorAssumption DEF ExecutorInv, Types, ExecuteAndWait, Commands
<1>2. UNCHANGED executor /\ child' = [child EXCEPT ![issued + 1] = "deleted"]
  BY DEF ExecuteAndWait
<1>3. Types' /\ \A c \in Commands : child'[c] = child[c] \/ child'[c] = "deleted"
  BY <1>1, <1>2 DEF ExecutorInv, Types, ChildStates
<1>4. AllKept'
  <2>1. executor'.current \in 0..issued'
    BY <1>1, <1>2 DEF ExecutorInv, AllKept
  <2>2. ASSUME executor.alive, NEW c \in 1..issued'
        PROVE  c = executor.current \/ c \in executor.doomed \/ child'[c] = "deleted"
    <3>1. CASE c \in 1..issued
      BY <1>1, <1>3, <2>2, <3>1 DEF ExecutorInv, AllKept
    <3>2. CASE c = issued + 1
      BY <1>1, <1>2, <3>2 DEF ExecutorInv, Types
    <3>. QED
      BY <1>1, <3>1, <3>2
  <2>. QED
    BY <1>2, <2>1, <2>2 DEF AllKept
<1>. QED
  BY <1>2, <1>3, <1>4 DEF ExecutorInv, TimerGuardsCommand, BufferOwned

LEMMA OutputReadyInv ==
  ASSUME NEW c \in Commands, ExecutorInv, OutputReady(c) PROVE ExecutorInv'
<1>1. /\ UNCHANGED <<issued, child>> /\ executor.current # null
      /\ executor' = [executor EXCEPT !.buffer = @ \cup {executor.current}]
  BY DEF OutputReady
<1>2. /\ executor.current \in Commands
      /\ executor.buffer \subseteq {executor.current}
  BY <1>1 DEF ExecutorInv, Types, ExecutorStates, BufferOwned
<1>3. /\ executor' \in ExecutorStates /\ executor'.buffer = {executor.current}
      /\ executor'.current = executor.current /\ executor'.timer = executor.timer
      /\ executor'.doomed = executor.doomed /\ executor'.alive = executor.alive
  BY <1>1, <1>2 DEF ExecutorInv, Types, ExecutorStates
<1>. QED
  BY <1>1, <1>2, <1>3 DEF ExecutorInv, Types, TimerGuardsCommand, AllKept, BufferOwned

LEMMA TimeoutInv == ExecutorInv /\ onExecutionTimeout => ExecutorInv'
<1>. SUFFICES ASSUME ExecutorInv, onExecutionTimeout PROVE ExecutorInv'
  OBVIOUS
<1> DEFINE c == executor.current
           x == [executor EXCEPT !.timer = FALSE]
<1>1. /\ x \in ExecutorStates /\ x.current = c /\ x.buffer = executor.buffer
      /\ x.doomed = executor.doomed /\ x.alive = executor.alive /\ ~x.timer
  BY DEF ExecutorInv, Types, ExecutorStates
<1>2. c # null /\ c \in Commands
  BY DEF onExecutionTimeout, ExecutorInv, TimerGuardsCommand, Types, ExecutorStates
<1>3. /\ executor' \in UNION {IF y.alive THEN Drop(Complete(y, c)) ELSE {y} :
                                y \in KillAndReap(x, c)}
      /\ child' = [child EXCEPT ![c] = "reaped"]
      /\ UNCHANGED issued
  BY <1>2 DEF onExecutionTimeout
<1>4. /\ child' \in [Commands -> ChildStates]
      /\ \A d \in Commands : child[d] = "deleted" => d = c \/ child'[d] = "deleted"
  BY <1>2, <1>3 DEF ExecutorInv, Types, ChildStates
<1> HIDE DEF c, x
<1>5. PICK y \in KillAndReap(x, c) :
        executor' \in IF y.alive THEN Drop(Complete(y, c)) ELSE {y}
  BY <1>3
<1>6. Settles(x, y)
  BY <1>1, <1>2, <1>5, ReapSettles DEF KillAndReap
<1>7. Settles(x, executor')
  <2>1. CASE y.alive
    <3>1. /\ Complete(y, c) \in ExecutorStates /\ ~Complete(y, c).timer
          /\ Settles(x, Complete(y, c))
      BY <1>2, <1>6, CompleteKeeps DEF Settles
    <3>2. Settles(Complete(y, c), executor')
      BY <1>5, <2>1, <3>1, DropSettles
    <3>. QED
      BY <3>1, <3>2, SettlesOn
  <2>2. CASE ~y.alive
    BY <1>5, <1>6, <2>2
  <2>. QED
    BY <2>1, <2>2
<1>8. Settles(executor, executor')
  BY <1>1, <1>7 DEF Settles, c
<1>. QED
  BY <1>3, <1>4, <1>8, SettledInv DEF c

LEMMA ChildInv ==
  ASSUME NEW c \in Commands, ExecutorInv, ChildEnds(c) \/ NotifyEnd(c) \/ DeferredDelete(c)
  PROVE  ExecutorInv'
<1>1. /\ UNCHANGED issued /\ child' \in [Commands -> ChildStates]
      /\ \A d \in Commands : child[d] = "deleted" => child'[d] = "deleted"
  BY DEF ExecutorInv, Types, ChildStates, ChildEnds, NotifyEnd, DeferredDelete
<1>2. ASSUME UNCHANGED executor PROVE ExecutorInv'
  <2>1. AllKept'
    BY <1>1, <1>2, ExecutorAssumption DEF ExecutorInv, Types, AllKept, Commands
  <2>. QED
    BY <1>1, <1>2, <2>1 DEF ExecutorInv, Types, TimerGuardsCommand, BufferOwned
<1>3. executor \in ExecutorStates
  BY DEF ExecutorInv, Types
<1>4. ASSUME NEW crashed \in BOOLEAN, executor' \in Reap(executor, c, crashed)
      PROVE  ExecutorInv'
  BY <1>1, <1>3, <1>4, ReapSettles, SettledInv
<1>. QED
  BY <1>2, <1>4 DEF ChildEnds, NotifyEnd, DeferredDelete, KillAndReap

LEMMA ExecutorNextInv == ExecutorInv /\ [ExecutorNext]_executorVars => ExecutorInv'
<1>1. ExecutorInv /\ UNCHANGED executorVars => ExecutorInv'
  BY DEF executorVars, ExecutorInv, Types, TimerGuardsCommand, AllKept, BufferOwned
<1>. QED
  BY <1>1, ExecuteAsyncInv, FailsToStartInv, ExecuteAndWaitInv, OutputReadyInv, TimeoutInv, ChildInv
  DEF ExecutorNext

-----------------------------------------------------------------------------
\* The invariant holds in every reachable state.
THEOREM ExecutorInvariant == ExecutorSpec => []ExecutorInv
<1>. QED
  BY ExecutorInitInv, ExecutorNextInv, PTL DEF ExecutorSpec

\* The types, among them that no slot marks a null pointer for deletion.
THEOREM ExecutorTypeCorrect == ExecutorSpec => []ExecutorTypeOK
<1>1. ExecutorInv => ExecutorTypeOK
  BY DEF ExecutorInv, Types, ExecutorStates, ExecutorTypeOK
<1>. QED
  BY <1>1, ExecutorInvariant, PTL

\* Between two events the timeout timer runs exactly while there is a command.
THEOREM TimerFollowsCommand == ExecutorSpec => []TimerGuardsCommand
<1>1. ExecutorInv => TimerGuardsCommand
  BY DEF ExecutorInv
<1>. QED
  BY <1>1, ExecutorInvariant, PTL

\* Every QProcess is the current one, will be deleted or is gone.
THEOREM ProcessesAreFreed == ExecutorSpec => []NothingLeaks
<1>1. ExecutorInv => NothingLeaks
  BY DEF ExecutorInv, AllKept, NothingLeaks
<1>. QED
  BY <1>1, ExecutorInvariant, PTL

-----------------------------------------------------------------------------
(* Reports *)

Unfinished == {"none", "running", "exited", "crashed"}

\* A report carries the output of one command at most, its own or a later one's:
\* nothing was reported of a command whose end is still to be seen, and it is not
\* newer than the current command or the owner of the buffer.
OutputInv ==
  /\ \A c \in Commands : \A a, b \in executor.reported[c] : a = b /\ c <= a
  /\ executor.alive =>
       \A c \in Commands : child[c] \in Unfinished =>
         /\ executor.reported[c] = {}
         /\ c <= issued =>
              /\ \A b \in executor.buffer : c <= b
              /\ executor.current # null => c <= executor.current

\* ReportsFollowEnds with what makes it inductive: the current command's end was
\* not seen yet, and a command that was not given has no process.
ReportInv ==
  /\ ReportsFollowEnds /\ OutputInv
  /\ executor.alive =>
       /\ executor.current # null => child[executor.current] \in Unfinished \ {"none"}
       /\ \A c \in Commands :
            c > issued => child[c] = "none" /\ c \notin executor.doomed

LEMMA DropReportsNothing ==
  ASSUME NEW x \in ExecutorStates, NEW y \in Drop(x)
  PROVE  y.completed = x.completed /\ y.reported = x.reported
<1>1. CASE x.current = null
  BY <1>1 DEF Drop, ExecutorStates
<1>2. CASE x.current # null
  BY <1>2 DEF Drop, ExecutorStates
<1>. QED
  BY <1>1, <1>2

LEMMA ErrorReportsNothing ==
  ASSUME NEW x \in ExecutorStates, NEW y \in onProcessError(x)
  PROVE  y.completed = x.completed /\ y.reported = x.reported
<1> DEFINE quiet == [x EXCEPT !.timer = FALSE]
<1>1. quiet \in ExecutorStates /\ quiet.completed = x.completed /\ quiet.reported = x.reported
  BY DEF ExecutorStates
<1>2. y \in IF quiet.current = null THEN {quiet} ELSE Drop(quiet)
  BY DEF onProcessError
<1> HIDE DEF quiet
<1>. QED
  BY <1>1, <1>2, DropReportsNothing

LEMMA CompleteReportsOne ==
  ASSUME NEW x \in ExecutorStates, NEW c \in Commands
  PROVE  /\ Complete(x, c).completed = [x.completed EXCEPT ![c] = @ + 1]
         /\ Complete(x, c).reported = [x.reported EXCEPT ![c] = @ \cup x.buffer]
BY DEF Complete, ExecutorStates

\* The signals of a process report its own command, once, with what the buffer holds.
LEMMA ReapReports ==
  ASSUME NEW x \in ExecutorStates, NEW c \in Commands, NEW crashed \in BOOLEAN,
         NEW z \in Reap(x, c, crashed)
  PROVE  /\ z.completed = [x.completed EXCEPT ![c] = @ + 1]
         /\ z.reported = [x.reported EXCEPT ![c] = @ \cup x.buffer]
<1>1. PICK y \in IF crashed THEN onProcessError(x) ELSE {x} : z \in onProcessFinished(y, c)
  BY DEF Reap
<1>2. /\ y \in ExecutorStates /\ y.completed = x.completed
      /\ y.reported = x.reported /\ y.buffer = x.buffer
  BY <1>1, ErrorReportsNothing, ErrorSettles DEF Settles
<1> DEFINE quiet == [y EXCEPT !.timer = FALSE]
<1>3. /\ quiet \in ExecutorStates /\ quiet.completed = x.completed
      /\ quiet.reported = x.reported /\ quiet.buffer = x.buffer
  BY <1>2 DEF ExecutorStates
<1>4. z \in Drop(Complete(quiet, c))
  BY <1>1 DEF onProcessFinished
<1> HIDE DEF quiet
<1>5. /\ Complete(quiet, c) \in ExecutorStates
      /\ Complete(quiet, c).completed = [quiet.completed EXCEPT ![c] = @ + 1]
      /\ Complete(quiet, c).reported = [quiet.reported EXCEPT ![c] = @ \cup quiet.buffer]
  BY <1>3, CompleteKeeps, CompleteReportsOne
<1>6. /\ z.completed = Complete(quiet, c).completed
      /\ z.reported = Complete(quiet, c).reported
  BY <1>4, <1>5, DropReportsNothing
<1>. QED
  BY <1>3, <1>5, <1>6

\* A step that sees the end of c and reports it, once or twice, keeps ReportInv.
LEMMA EndReported ==
  ASSUME ExecutorInv, ReportInv, executor.alive, UNCHANGED issued,
         NEW c \in Commands, child[c] \in Unfinished, c <= issued,
         \/ child' = [child EXCEPT ![c] = "reaped"]
         \/ child' = [child EXCEPT ![c] = "deleted"],
         Settles(executor, executor'),
         \/ executor'.completed = [executor.completed EXCEPT ![c] = @ + 1]
         \/ executor'.completed = [executor.completed EXCEPT ![c] = @ + 2],
         executor'.reported = [executor.reported EXCEPT ![c] = @ \cup executor.buffer]
  PROVE  ReportInv'
<1>1. executor.completed \in [Commands -> Nat] /\ executor.completed[c] = 0
  BY DEF ExecutorInv, Types, ExecutorStates, ReportInv, ReportsFollowEnds, Unfinished
<1>2. executor'.completed[c] \in 1..2 /\ child'[c] \in {"reaped", "deleted"}
  BY <1>1 DEF ExecutorInv, Types
<1>3. \A b \in Commands : b # c => /\ executor'.completed[b] = executor.completed[b]
                                   /\ child'[b] = child[b]
  BY <1>1 DEF ExecutorInv, Types
<1>4. ReportsFollowEnds'
  BY <1>2, <1>3 DEF ReportInv, ReportsFollowEnds
<1>5. \A b \in Commands : b > issued => b # executor.current /\ b # c /\ issued \in Nat
  BY ExecutorAssumption DEF ExecutorInv, Types, AllKept, Commands
<1>6. \A b \in Commands : b > issued => child'[b] = "none" /\ b \notin executor'.doomed
  BY <1>3, <1>5 DEF ReportInv, Settles
<1>7. OutputInv'
  <2>1. /\ executor.reported \in [Commands -> SUBSET Commands]
        /\ executor.reported[c] = {}
        /\ \A b \in executor.buffer : c <= b
    BY DEF ExecutorInv, Types, ExecutorStates, ReportInv, OutputInv
  <2>2. /\ executor'.reported[c] = executor.buffer
        /\ \A b \in Commands : b # c => executor'.reported[b] = executor.reported[b]
    BY <2>1
  <2>3. \A a, b \in executor.buffer : a = b
    BY DEF ExecutorInv, BufferOwned
  <2>4. /\ \A b \in Commands : child'[b] \in Unfinished => b # c /\ child[b] = child'[b]
        /\ executor'.buffer = executor.buffer /\ executor'.current = null
    BY <1>2, <1>3 DEF Settles, Unfinished
  <2>5. \A d \in Commands : \A a, b \in executor'.reported[d] : a = b /\ d <= a
    BY <2>1, <2>2, <2>3 DEF ReportInv, OutputInv
  <2>. QED
    BY <2>2, <2>4, <2>5 DEF ReportInv, OutputInv
<1>. QED
  BY <1>4, <1>6, <1>7 DEF ReportInv, Settles

\* A new command whose process stays with the executor as its current one.
LEMMA AsyncReports == ExecutorInv /\ ReportInv /\ ExecuteAsync => ReportInv'
<1>. SUFFICES ASSUME ExecutorInv, ReportInv, ExecuteAsync PROVE ReportInv'
  OBVIOUS
<1> DEFINE x == Supersede(executor)
<1>1. /\ issued \in Nat /\ issued + 1 \in Commands /\ issued' = issued + 1
      /\ executor.current \in 0..issued /\ executor.alive
  BY ExecutorAssumption DEF ExecutorInv, Types, AllKept, ExecuteAsync, Commands
<1>2. /\ x \in ExecutorStates /\ KillCurrent \in [Commands -> ChildStates]
      /\ x.completed = executor.completed /\ x.reported = executor.reported
      /\ \A c \in Commands : c \in x.doomed => c = executor.current \/ c \in executor.doomed
  BY SupersedeKeeps DEF Supersede, ExecutorInv, Types, ExecutorStates
<1>3. /\ executor' = [x EXCEPT !.current = issued + 1, !.buffer = {}, !.timer = TRUE]
      /\ child' = [KillCurrent EXCEPT ![issued + 1] = "running"]
  BY DEF ExecuteAsync
<1> HIDE DEF x
<1>4. /\ executor'.completed = executor.completed /\ executor'.doomed = x.doomed
      /\ executor'.reported = executor.reported
      /\ executor'.current = issued + 1 /\ executor'.buffer = {}
  BY <1>2, <1>3 DEF ExecutorStates
<1>5. /\ child'[issued + 1] = "running"
      /\ \A c \in Commands : c # issued + 1 =>
           child'[c] = child[c] \/ (child[c] = "running" /\ child'[c] = "crashed")
  BY <1>1, <1>2, <1>3 DEF KillCurrent, Killed
<1>6. child[issued + 1] = "none" /\ executor.completed[issued + 1] = 0
  BY <1>1 DEF ReportInv, ReportsFollowEnds
<1>7. ReportsFollowEnds'
  BY <1>1, <1>4, <1>5, <1>6 DEF ReportInv, ReportsFollowEnds
<1>8. \A c \in Commands : c > issued + 1 => c > issued /\ c # issued + 1 /\ c # executor.current
  BY <1>1 DEF Commands
<1>9. \A c \in Commands : c > issued' => child'[c] = "none" /\ c \notin executor'.doomed
  BY <1>1, <1>2, <1>4, <1>5, <1>8 DEF ReportInv
<1>10. OutputInv'
  <2>1. \A c \in Commands : child'[c] \in Unfinished => child[c] \in Unfinished
    BY <1>5, <1>6 DEF Unfinished
  <2>2. \A c \in Commands : c <= issued' => c <= executor'.current
    BY <1>1, <1>4
  <2>. QED
    BY <1>1, <1>4, <2>1, <2>2 DEF ReportInv, OutputInv
<1>. QED
  BY <1>4, <1>5, <1>7, <1>9, <1>10 DEF ReportInv, Unfinished

\* A command that cannot be started: the program faults, and nothing is reported.
LEMMA FailsReports == ExecutorInv /\ ReportInv /\ ExecuteAsyncFailsToStart => ReportInv'
<1>. SUFFICES ASSUME ExecutorInv, ReportInv, ExecuteAsyncFailsToStart PROVE ReportInv'
  OBVIOUS
<1> DEFINE x == [Supersede(executor) EXCEPT !.current = issued + 1]
<1>1. issued + 1 \in Commands
  BY ExecutorAssumption DEF ExecutorInv, Types, ExecuteAsyncFailsToStart, Commands
<1>2. /\ x \in ExecutorStates /\ x.completed = executor.completed
      /\ x.reported = executor.reported
  BY <1>1, SupersedeKeeps DEF Supersede, ExecutorInv, Types, ExecutorStates
<1>3. PICK y \in onProcessError(x) : executor' = [y EXCEPT !.alive = y.current # null]
  BY DEF ExecuteAsyncFailsToStart
<1> HIDE DEF x
<1>4. Settles(x, y) /\ y.completed = executor.completed /\ y.reported = executor.reported
  BY <1>2, <1>3, ErrorSettles, ErrorReportsNothing
<1>5. /\ ~executor'.alive /\ executor'.completed = executor.completed
      /\ executor'.reported = executor.reported
  BY <1>3, <1>4 DEF Settles, ExecutorStates
<1>. QED
  BY <1>5 DEF ReportInv, ReportsFollowEnds, OutputInv

LEMMA WaitReports == ExecutorInv /\ ReportInv /\ ExecuteAndWait => ReportInv'
<1>. SUFFICES ASSUME ExecutorInv, ReportInv, ExecuteAndWait PROVE ReportInv'
  OBVIOUS
<1>1. /\ issued \in Nat /\ issued + 1 \in Commands /\ issued' = issued + 1
      /\ executor.current \in 0..issued /\ executor.current # issued + 1
      /\ executor' = executor
  BY ExecutorAssumption DEF ExecutorInv, Types, AllKept, ExecuteAndWait, Commands
<1>2. /\ child'[issued + 1] = "deleted"
      /\ \A c \in Commands : c # issued + 1 => child'[c] = child[c]
  BY <1>1 DEF ExecuteAndWait, ExecutorInv, Types
<1>3. ReportsFollowEnds'
  BY <1>1, <1>2 DEF ReportInv, ReportsFollowEnds
<1>4. \A c \in Commands : c > issued + 1 => c > issued /\ c # issued + 1
  BY <1>1 DEF Commands
<1>5. executor.current # null => executor.current \in Commands
  BY DEF ExecutorInv, Types, ExecutorStates
<1>6. OutputInv'
  <2>1. \A c \in Commands : child'[c] \in Unfinished => child[c] = child'[c] /\ c # issued + 1
    BY <1>2 DEF Unfinished
  <2>2. \A c \in Commands : c <= issued' /\ c # issued + 1 => c <= issued
    BY <1>1 DEF Commands
  <2>. QED
    BY <1>1, <2>1, <2>2 DEF ReportInv, OutputInv
<1>. QED
  BY <1>1, <1>2, <1>3, <1>4, <1>5, <1>6 DEF ReportInv

LEMMA TimeoutReports == ExecutorInv /\ ReportInv /\ onExecutionTimeout => ReportInv'
<1>. SUFFICES ASSUME ExecutorInv, ReportInv, onExecutionTimeout PROVE ReportInv'
  OBVIOUS
<1> DEFINE c == executor.current
           x == [executor EXCEPT !.timer = FALSE]
<1>1. /\ x \in ExecutorStates /\ x.current = c /\ x.buffer = executor.buffer
      /\ x.doomed = executor.doomed /\ x.alive = executor.alive /\ ~x.timer
      /\ x.completed = executor.completed /\ x.reported = executor.reported
  BY DEF ExecutorInv, Types, ExecutorStates
<1>2. c # null /\ c \in Commands /\ executor.alive /\ c <= issued
  BY ExecutorAssumption
  DEF onExecutionTimeout, ExecutorInv, TimerGuardsCommand, Types, ExecutorStates, AllKept, Commands
<1>3. /\ executor' \in UNION {IF y.alive THEN Drop(Complete(y, c)) ELSE {y} :
                                y \in KillAndReap(x, c)}
      /\ child' = [child EXCEPT ![c] = "reaped"]
      /\ UNCHANGED issued
  BY <1>2 DEF onExecutionTimeout
<1>4. child[c] \in Unfinished
  BY <1>2 DEF ReportInv
<1> HIDE DEF c, x
<1>5. PICK y \in KillAndReap(x, c) :
        executor' \in IF y.alive THEN Drop(Complete(y, c)) ELSE {y}
  BY <1>3
<1>6. /\ Settles(x, y) /\ y.completed = [executor.completed EXCEPT ![c] = @ + 1]
      /\ y.reported = [executor.reported EXCEPT ![c] = @ \cup executor.buffer]
  <2>1. PICK crashed \in BOOLEAN : y \in Reap(x, c, crashed)
    BY <1>5 DEF KillAndReap
  <2>2. Settles(x, y)
    BY <1>1, <1>2, <2>1, ReapSettles
  <2>3. /\ y.completed = [x.completed EXCEPT ![c] = @ + 1]
        /\ y.reported = [x.reported EXCEPT ![c] = @ \cup x.buffer]
    BY <1>1, <1>2, <2>1, ReapReports
  <2>. QED
    BY <1>1, <2>2, <2>3
<1>7. /\ executor.completed \in [Commands -> Nat] /\ y \in ExecutorStates
      /\ executor.reported \in [Commands -> SUBSET Commands]
      /\ y.buffer = executor.buffer
  BY <1>1, <1>6 DEF ExecutorInv, Types, ExecutorStates, Settles
<1>8. CASE y.alive
  <2>1. /\ Complete(y, c) \in ExecutorStates /\ ~Complete(y, c).timer
        /\ Settles(x, Complete(y, c))
    BY <1>2, <1>6, CompleteKeeps DEF Settles
  <2>2. Settles(Complete(y, c), executor')
    BY <1>5, <1>8, <2>1, DropSettles
  <2>3. Settles(executor, executor')
    BY <1>1, <2>1, <2>2, SettlesOn DEF Settles, c
  <2>4. /\ executor'.completed = [y.completed EXCEPT ![c] = @ + 1]
        /\ executor'.reported = [y.reported EXCEPT ![c] = @ \cup y.buffer]
    BY <1>2, <1>5, <1>7, <1>8, <2>1, DropReportsNothing, CompleteReportsOne
  <2>5. executor'.completed = [executor.completed EXCEPT ![c] = @ + 2]
    BY <1>2, <1>6, <1>7, <2>4
  <2>6. executor'.reported = [executor.reported EXCEPT ![c] = @ \cup executor.buffer]
    BY <1>2, <1>6, <1>7, <2>4
  <2>. QED
    BY <1>2, <1>3, <1>4, <2>3, <2>5, <2>6, EndReported
<1>9. CASE ~y.alive
  <2>1. executor' = y
    BY <1>5, <1>9
  <2>2. Settles(executor, executor')
    BY <1>1, <1>6, <2>1 DEF Settles, c
  <2>. QED
    BY <1>2, <1>3, <1>4, <1>6, <2>1, <2>2, EndReported
<1>. QED
  BY <1>8, <1>9

LEMMA ChildReports ==
  ASSUME NEW c \in Commands, ExecutorInv, ReportInv, NotifyEnd(c) \/ DeferredDelete(c)
  PROVE  ReportInv'
<1>1. executor \in ExecutorStates /\ executor.alive /\ UNCHANGED issued /\ issued \in Nat
  BY ExecutorAssumption DEF ExecutorInv, Types, NotifyEnd, DeferredDelete
<1>2. c <= issued
  BY <1>1 DEF Commands, ReportInv, NotifyEnd, DeferredDelete
<1>3. ASSUME NEW crashed \in BOOLEAN, executor' \in Reap(executor, c, crashed),
             child[c] \in Unfinished,
             \/ child' = [child EXCEPT ![c] = "reaped"]
             \/ child' = [child EXCEPT ![c] = "deleted"]
      PROVE  ReportInv'
  <2>1. Settles(executor, executor')
    BY <1>1, <1>3, ReapSettles
  <2>2. /\ executor'.completed = [executor.completed EXCEPT ![c] = @ + 1]
        /\ executor'.reported = [executor.reported EXCEPT ![c] = @ \cup executor.buffer]
    BY <1>1, <1>3, ReapReports
  <2>. QED
    BY <1>1, <1>2, <1>3, <2>1, <2>2, EndReported
<1>4. CASE NotifyEnd(c)
  BY <1>3, <1>4 DEF NotifyEnd, Unfinished
<1>5. CASE DeferredDelete(c) /\ child[c] # "reaped"
  <2>1. child[c] \in Unfinished
    BY <1>5 DEF DeferredDelete, ExecutorInv, Types, ChildStates, Unfinished
  <2>. QED
    BY <1>3, <1>5, <2>1 DEF DeferredDelete, KillAndReap
<1>6. CASE DeferredDelete(c) /\ child[c] = "reaped"
  <2>1. /\ UNCHANGED executor /\ child'[c] = "deleted"
        /\ \A b \in Commands : b # c => child'[b] = child[b]
    BY <1>6 DEF DeferredDelete, ExecutorInv, Types
  <2>2. executor.current # null => executor.current \in Commands /\ executor.current # c
    BY <1>1, <1>6 DEF ExecutorStates, ReportInv, Unfinished
  <2>3. ReportsFollowEnds'
    BY <2>1 DEF ReportInv, ReportsFollowEnds
  <2>4. OutputInv'
    BY <1>1, <2>1 DEF ReportInv, OutputInv, Unfinished
  <2>. QED
    BY <1>1, <1>6, <2>1, <2>2, <2>3, <2>4 DEF ReportInv
<1>. QED
  BY <1>4, <1>5, <1>6

LEMMA ChildEndsReports ==
  ASSUME NEW c \in Commands, ExecutorInv, ReportInv, ChildEnds(c) PROVE ReportInv'
<1>1. /\ UNCHANGED <<issued, executor>> /\ child[c] = "running"
      /\ child'[c] \in {"exited", "crashed"}
      /\ \A b \in Commands : b # c => child'[b] = child[b]
  BY DEF ChildEnds, ExecutorInv, Types
<1>2. executor.current # null => executor.current \in Commands
  BY DEF ExecutorInv, Types, ExecutorStates
<1>3. ReportsFollowEnds'
  BY <1>1 DEF ReportInv, ReportsFollowEnds
<1>4. OutputInv'
  BY <1>1 DEF ReportInv, OutputInv, Unfinished
<1>. QED
  BY <1>1, <1>2, <1>3, <1>4 DEF ReportInv, Unfinished

LEMMA OutputReports ==
  ASSUME NEW c \in Commands, ExecutorInv, ReportInv, OutputReady(c) PROVE ReportInv'
<1>1. /\ UNCHANGED <<issued, child>> /\ executor'.completed = executor.completed
      /\ executor'.current = executor.current /\ executor'.doomed = executor.doomed
      /\ executor'.alive = executor.alive /\ executor'.reported = executor.reported
      /\ executor'.buffer = executor.buffer \cup {executor.current}
      /\ executor.current # null
  BY DEF OutputReady, ExecutorInv, Types, ExecutorStates
<1>2. OutputInv'
  BY <1>1 DEF ReportInv, OutputInv
<1>. QED
  BY <1>1, <1>2 DEF ReportInv, ReportsFollowEnds

LEMMA NextReports == ExecutorInv /\ ReportInv /\ [ExecutorNext]_executorVars => ReportInv'
<1>1. ReportInv /\ UNCHANGED executorVars => ReportInv'
  BY DEF executorVars, ReportInv, ReportsFollowEnds, OutputInv
<1>. QED
  BY <1>1, AsyncReports, FailsReports, WaitReports, TimeoutReports, ChildReports,
     ChildEndsReports, OutputReports
  DEF ExecutorNext

LEMMA InitReports == ExecutorInit => ReportInv
<1>. SUFFICES ASSUME ExecutorInit PROVE ReportInv
  OBVIOUS
<1>1. /\ executor.current = null /\ executor.doomed = {}
      /\ \A c \in Commands :
           executor.completed[c] = 0 /\ executor.reported[c] = {} /\ child[c] = "none"
      /\ executor.buffer = {}
  BY DEF ExecutorInit
<1>. QED
  BY <1>1 DEF ReportInv, ReportsFollowEnds, OutputInv

\* The invariant about reports holds in every reachable state.
THEOREM ReportInvariant == ExecutorSpec => []ReportInv
<1>. QED
  BY InitReports, NextReports, ExecutorInvariant, PTL DEF ExecutorSpec

\* While the program runs, a command is reported exactly when the end of its
\* process was seen, and in no case more than twice.
THEOREM ReportsAreOfEnds == ExecutorSpec => []ReportsFollowEnds
<1>1. ReportInv => ReportsFollowEnds
  BY DEF ReportInv
<1>. QED
  BY <1>1, ReportInvariant, PTL

\* A report carries the output of one command at most, and never an earlier one's.
THEOREM ReportsAreNotStale == ExecutorSpec => []OutputIsNotStale
<1>1. ExecutorInv /\ ReportInv => OutputIsNotStale
  <2>. SUFFICES ASSUME ExecutorInv, ReportInv, NEW c \in Commands
                PROVE  /\ executor.reported[c] \subseteq c..MaxCommands
                       /\ Cardinality(executor.reported[c]) <= 1
    BY DEF OutputIsNotStale
  <2>1. executor.reported[c] \subseteq Commands /\ c \in Nat
    BY ExecutorAssumption DEF ExecutorInv, Types, ExecutorStates, Commands
  <2>2. \A a, b \in executor.reported[c] : a = b /\ c <= a
    BY DEF ReportInv, OutputInv
  <2>3. executor.reported[c] \subseteq c..MaxCommands
    BY <2>1, <2>2, ExecutorAssumption DEF Commands
  <2>4. CASE executor.reported[c] = {}
    BY <2>3, <2>4, FS_EmptySet
  <2>5. CASE executor.reported[c] # {}
    <3>1. PICK a : executor.reported[c] = {a}
      BY <2>2, <2>5
    <3>. QED
      BY <2>3, <3>1, FS_Singleton
  <2>. QED
    BY <2>4, <2>5
<1>. QED
  BY <1>1, ExecutorInvariant, ReportInvariant, PTL
=============================================================================

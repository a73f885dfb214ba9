--------------------------- MODULE SchedulerProofs ---------------------------
(***************************************************************************)
(* Theorems about Scheduler for any number of threads and tasks, any       *)
(* delays and any width of the identifier.                                 *)
(*                                                                         *)
(* None of the safety invariants of Scheduler is inductive by itself.      *)
(* IInv adds what connects the heap, the identifiers, the worker's place   *)
(* in its loop and Shutdown's place in its own.                            *)
(***************************************************************************)
EXTENDS Scheduler, TLAPS

\* Only tasks that were issued an identifier are anywhere in the system.
IssuedOnly ==
  /\ mTasks \cup freed \cup started \cup disarmed \subseteq Issued
  /\ \A th \in Thread : added[th] # NoTask => added[th] \in Issued
  /\ \A th \in Thread : pc[th] # "idle" => added[th] # NoTask

\* A queued task was neither run nor deleted.
QueuedIsFresh ==
  /\ mTasks \cap freed = {}
  /\ mTasks \cap started = {}

\* The task in the worker's hands is out of the heap, alive and due.
HeldTask ==
  wpc \in {"popped", "running"} =>
    /\ wtask \in Issued
    /\ wtask \notin mTasks
    /\ wtask \notin disarmed
    /\ wtask \notin freed
    /\ wpc = "popped" => wtask \notin started
    /\ due[wtask] <= clock

\* A cancelled task in the heap has a dead identifier.
DisarmedIsDead ==
  \A t \in mTasks \cap disarmed : id[t] \notin mTaskIds

\* A worker that timed out, or may time out, has a task to take that is due no
\* later than the deadline it waited for, until Shutdown empties the heap.
DeadlineHasTask ==
  \/ wpc = "blocked" /\ timed
  \/ wpc = "relock" /\ wret = "timeout"
  => \/ shut \in {"notify", "join", "returned"}
     \/ \E t \in mTasks : due[t] <= wdue

TimedOutIsPast ==
  wpc = "relock" /\ wret = "timeout" => wdue <= clock

\* How far Shutdown has come, and what the worker may still do then.
ShutdownPhase ==
  /\ (mState = 0) <=> (shut = "none")
  /\ mState = 0 => late = {}
  /\ late # {} => wpc \in {"running", "check", "done"}
  /\ shut = "returned" => wpc = "done"
  /\ wpc = "done" => mState # 0

IInv ==
  /\ TypeOK
  /\ IssuedOnly
  /\ QueuedIsFresh
  /\ HeldTask
  /\ DisarmedIsDead
  /\ DeadlineHasTask
  /\ TimedOutIsPast
  /\ ShutdownPhase
  /\ LiveIdsAreQueued
  /\ NoSilentDrop
  /\ HeldIdIsExact
  /\ OneLateStart
  /\ StaysEmpty
  /\ SleepsNoLonger

----------------------------------------------------------------------------
USE DEF TaskId, Issued, CallerPC, WorkerPC, ShutPC

LEMMA InitIInv == Init => IInv
<1> SUFFICES ASSUME Init PROVE IInv
  OBVIOUS
<1>1. TypeOK
  <2>1. timed \in BOOLEAN
    BY DEF Init
  <2>2. MaxId \in Nat /\ 0 \in 0..MaxId
    BY SchedulerAssumption
  <2> QED
    BY <2>1, <2>2 DEF Init, TypeOK
<1>2. IssuedOnly /\ QueuedIsFresh /\ HeldTask /\ DisarmedIsDead /\ DeadlineHasTask
  BY DEF Init, IssuedOnly, QueuedIsFresh, HeldTask, DisarmedIsDead, DeadlineHasTask
<1>3. TimedOutIsPast /\ ShutdownPhase /\ LiveIdsAreQueued /\ NoSilentDrop
  BY DEF Init, TimedOutIsPast, ShutdownPhase, LiveIdsAreQueued, NoSilentDrop
<1>4. HeldIdIsExact /\ OneLateStart /\ StaysEmpty /\ SleepsNoLonger
  BY DEF Init, HeldIdIsExact, OneLateStart, StaysEmpty, SleepsNoLonger
<1> QED BY <1>1, <1>2, <1>3, <1>4 DEF IInv

LEMMA TickInv ==
  ASSUME IInv, Tick
  PROVE  IInv'
<1>1. (IssuedOnly /\ QueuedIsFresh /\ DisarmedIsDead /\ DeadlineHasTask /\
        ShutdownPhase /\ LiveIdsAreQueued /\ NoSilentDrop /\ HeldIdIsExact /\
        OneLateStart /\ StaysEmpty /\ SleepsNoLonger)'
  BY DEF IInv, IssuedOnly, QueuedIsFresh, DisarmedIsDead, DeadlineHasTask,
    ShutdownPhase, LiveIdsAreQueued, NoSilentDrop, HeldIdIsExact,
    OneLateStart, StaysEmpty, SleepsNoLonger, Tick, queueVars, callerVars,
    workerVars, historyVars
<1>2. TypeOK'
  BY SchedulerAssumption DEF IInv, TypeOK, Tick, queueVars, callerVars,
    workerVars, historyVars
<1>3. (HeldTask /\ TimedOutIsPast)'
  BY SchedulerAssumption DEF IInv, HeldTask, TimedOutIsPast, TypeOK, Tick,
    queueVars, callerVars, workerVars, historyVars
<1> QED BY <1>1, <1>2, <1>3 DEF IInv

LEMMA AddTaskInv ==
  ASSUME IInv, NEW th \in Thread, NEW t \in Task, NEW d \in Delay,
    AddTask(th, t, d)
  PROVE  IInv'
<1>1. (TimedOutIsPast /\ ShutdownPhase /\ OneLateStart)'
  BY DEF IInv, TimedOutIsPast, ShutdownPhase, OneLateStart, AddTask, NextId,
    NewTop, queueVars, callerVars, workerVars, historyVars
<1>2. HeldTask'
  BY SchedulerAssumption DEF IInv, HeldTask, AddTask, NextId, NewTop,
    queueVars, callerVars, workerVars, historyVars
<1>3. (IssuedOnly /\ LiveIdsAreQueued /\ SleepsNoLonger)'
  BY SchedulerAssumption DEF IInv, IssuedOnly, LiveIdsAreQueued,
    SleepsNoLonger, TypeOK, AddTask, NextId, NewTop, queueVars, callerVars,
    workerVars, historyVars
<1>4. (QueuedIsFresh /\ DisarmedIsDead /\ DeadlineHasTask /\ NoSilentDrop)'
  BY SchedulerAssumption DEF IInv, QueuedIsFresh, DisarmedIsDead,
    DeadlineHasTask, NoSilentDrop, TypeOK, IssuedOnly, AddTask, NextId,
    NewTop, queueVars, callerVars, workerVars, historyVars
<1>5. StaysEmpty'
  BY SchedulerAssumption DEF IInv, StaysEmpty, TypeOK, ShutdownPhase, AddTask,
    NextId, NewTop, queueVars, callerVars, workerVars, historyVars
<1>6. TypeOK'
  <2>1. NextId(th) \in TaskId
    BY SchedulerAssumption DEF IInv, TypeOK, NextId
  <2>2. clock + d \in Nat
    BY SchedulerAssumption DEF IInv, TypeOK
  <2>3. id' \in [Task -> 0..MaxId] /\ due' \in [Task -> Nat]
    BY <2>1, <2>2 DEF IInv, TypeOK, AddTask
  <2>4. mTasks' \subseteq Task /\ mTaskIds' \subseteq TaskId /\ disarmed' \subseteq Task
    BY <2>1 DEF IInv, TypeOK, AddTask
  <2>5. taskId' \in [Thread -> 0..MaxId]
    BY <2>1, SchedulerAssumption DEF IInv, TypeOK, AddTask
  <2>6. pc' \in [Thread -> CallerPC] /\ added' \in [Thread -> Task \cup {NoTask}]
    BY DEF IInv, TypeOK, AddTask
  <2> QED
    BY <2>3, <2>4, <2>5, <2>6 DEF IInv, TypeOK, AddTask, workerVars
<1>7. HeldIdIsExact'
  <2>1. pc'[th] # "idle" /\ added' = [added EXCEPT ![th] = t]
    BY DEF IInv, TypeOK, AddTask
  <2> SUFFICES ASSUME NEW u \in Thread, pc'[u] = "idle", added'[u] \in mTasks'
               PROVE  result'[u] = id'[added'[u]]
    BY DEF HeldIdIsExact
  <2>2. u # th /\ pc[u] = "idle" /\ added'[u] = added[u]
    BY <2>1 DEF IInv, TypeOK, AddTask
  <2>3. added[u] # t
    BY <2>2, SchedulerAssumption DEF IInv, IssuedOnly, AddTask
  <2>4. added[u] \in mTasks /\ id'[added[u]] = id[added[u]]
    BY <2>2, <2>3 DEF IInv, TypeOK, AddTask
  <2> QED
    BY <2>2, <2>4 DEF IInv, HeldIdIsExact, AddTask
<1> QED BY <1>1, <1>2, <1>3, <1>4, <1>5, <1>6, <1>7 DEF IInv

LEMMA RejectTaskInv ==
  ASSUME IInv, NEW th \in Thread, RejectTask(th)
  PROVE  IInv'
<1>1. (QueuedIsFresh /\ HeldTask /\ DisarmedIsDead /\ DeadlineHasTask /\
        TimedOutIsPast /\ ShutdownPhase /\ LiveIdsAreQueued /\ NoSilentDrop /\
        OneLateStart /\ StaysEmpty /\ SleepsNoLonger)'
  BY DEF IInv, QueuedIsFresh, HeldTask, DisarmedIsDead, DeadlineHasTask,
    TimedOutIsPast, ShutdownPhase, LiveIdsAreQueued, NoSilentDrop,
    OneLateStart, StaysEmpty, SleepsNoLonger, RejectTask, queueVars,
    callerVars, workerVars, historyVars
<1>2. (TypeOK /\ IssuedOnly)'
  BY SchedulerAssumption DEF IInv, TypeOK, IssuedOnly, RejectTask, queueVars,
    callerVars, workerVars, historyVars
<1>3. HeldIdIsExact'
  BY SchedulerAssumption DEF IInv, HeldIdIsExact, TypeOK, RejectTask,
    queueVars, callerVars, workerVars, historyVars
<1> QED BY <1>1, <1>2, <1>3 DEF IInv

LEMMA NotifyTaskInv ==
  ASSUME IInv, NEW th \in Thread, NotifyTask(th)
  PROVE  IInv'
<1>1. (QueuedIsFresh /\ DisarmedIsDead /\ LiveIdsAreQueued /\ NoSilentDrop /\
        OneLateStart /\ StaysEmpty)'
  BY DEF IInv, QueuedIsFresh, DisarmedIsDead, LiveIdsAreQueued, NoSilentDrop,
    OneLateStart, StaysEmpty, NotifyTask, NotifyOne, queueVars, callerVars,
    workerVars, historyVars
<1>2. (TypeOK /\ IssuedOnly /\ HeldTask /\ DeadlineHasTask /\ TimedOutIsPast
        /\ ShutdownPhase /\ HeldIdIsExact /\ SleepsNoLonger)'
  BY SchedulerAssumption DEF IInv, TypeOK, IssuedOnly, HeldTask,
    DeadlineHasTask, TimedOutIsPast, ShutdownPhase, HeldIdIsExact,
    SleepsNoLonger, NotifyTask, NotifyOne, queueVars, callerVars, workerVars,
    historyVars
<1> QED BY <1>1, <1>2 DEF IInv

LEMMA ReturnIdInv ==
  ASSUME IInv, NEW th \in Thread, ReturnId(th)
  PROVE  IInv'
<1>1. (QueuedIsFresh /\ HeldTask /\ DisarmedIsDead /\ DeadlineHasTask /\
        TimedOutIsPast /\ ShutdownPhase /\ LiveIdsAreQueued /\ NoSilentDrop /\
        OneLateStart /\ StaysEmpty)'
  BY DEF IInv, QueuedIsFresh, HeldTask, DisarmedIsDead, DeadlineHasTask,
    TimedOutIsPast, ShutdownPhase, LiveIdsAreQueued, NoSilentDrop,
    OneLateStart, StaysEmpty, ReturnId, ReadableId, queueVars, callerVars,
    workerVars, historyVars
<1>2. (TypeOK /\ IssuedOnly /\ SleepsNoLonger)'
  BY SchedulerAssumption DEF IInv, TypeOK, IssuedOnly, SleepsNoLonger,
    ReturnId, ReadableId, queueVars, callerVars, workerVars, historyVars
<1>3. HeldIdIsExact'
  BY SchedulerAssumption DEF IInv, HeldIdIsExact, TypeOK, QueuedIsFresh,
    ReturnId, ReadableId, queueVars, callerVars, workerVars, historyVars
<1> QED BY <1>1, <1>2, <1>3 DEF IInv

LEMMA CancelTaskInv ==
  ASSUME IInv, NEW th \in Thread, NEW i \in 0..MaxId, CancelTask(th, i)
  PROVE  IInv'
<1>1. (QueuedIsFresh /\ DeadlineHasTask /\ TimedOutIsPast /\ ShutdownPhase /\
        HeldIdIsExact /\ OneLateStart /\ SleepsNoLonger)'
  BY DEF IInv, QueuedIsFresh, DeadlineHasTask, TimedOutIsPast, ShutdownPhase,
    HeldIdIsExact, OneLateStart, SleepsNoLonger, CancelTask, queueVars,
    callerVars, workerVars, historyVars
<1>2. (TypeOK /\ IssuedOnly /\ HeldTask /\ DisarmedIsDead /\ LiveIdsAreQueued
        /\ NoSilentDrop /\ StaysEmpty)'
  BY SchedulerAssumption DEF IInv, TypeOK, IssuedOnly, HeldTask,
    DisarmedIsDead, LiveIdsAreQueued, NoSilentDrop, StaysEmpty, CancelTask,
    queueVars, callerVars, workerVars, historyVars
<1> QED BY <1>1, <1>2 DEF IInv

LEMMA CheckStateInv ==
  ASSUME IInv, CheckState
  PROVE  IInv'
<1>1. (IssuedOnly /\ QueuedIsFresh /\ DisarmedIsDead /\ LiveIdsAreQueued /\
        NoSilentDrop /\ HeldIdIsExact /\ OneLateStart /\ StaysEmpty)'
  BY DEF IInv, IssuedOnly, QueuedIsFresh, DisarmedIsDead, LiveIdsAreQueued,
    NoSilentDrop, HeldIdIsExact, OneLateStart, StaysEmpty, CheckState, GoesOn,
    queueVars, callerVars, workerVars, historyVars
<1>2. (TypeOK /\ HeldTask /\ DeadlineHasTask /\ TimedOutIsPast /\
        ShutdownPhase /\ SleepsNoLonger)'
  BY SchedulerAssumption DEF IInv, TypeOK, HeldTask, DeadlineHasTask,
    TimedOutIsPast, ShutdownPhase, SleepsNoLonger, CheckState, GoesOn,
    queueVars, callerVars, workerVars, historyVars
<1> QED BY <1>1, <1>2 DEF IInv

LEMMA WaitForTaskInv ==
  ASSUME IInv, WaitForTask
  PROVE  IInv'
<1>1. (IssuedOnly /\ QueuedIsFresh /\ DisarmedIsDead /\ LiveIdsAreQueued /\
        NoSilentDrop /\ HeldIdIsExact /\ OneLateStart /\ StaysEmpty)'
  BY DEF IInv, IssuedOnly, QueuedIsFresh, DisarmedIsDead, LiveIdsAreQueued,
    NoSilentDrop, HeldIdIsExact, OneLateStart, StaysEmpty, WaitForTask,
    queueVars, callerVars, workerVars, historyVars
<1>2. (HeldTask /\ DeadlineHasTask /\ TimedOutIsPast /\ ShutdownPhase /\
        SleepsNoLonger)'
  BY SchedulerAssumption DEF IInv, HeldTask, DeadlineHasTask, TimedOutIsPast,
    ShutdownPhase, SleepsNoLonger, WaitForTask, queueVars, callerVars,
    workerVars, historyVars
<1>3. TypeOK'
  BY DEF IInv, TypeOK, WaitForTask, queueVars, callerVars, historyVars
<1> QED BY <1>1, <1>2, <1>3 DEF IInv

LEMMA WaitUntilDueInv ==
  ASSUME IInv, WaitUntilDue
  PROVE  IInv'
<1>1. (IssuedOnly /\ QueuedIsFresh /\ DisarmedIsDead /\ LiveIdsAreQueued /\
        NoSilentDrop /\ HeldIdIsExact /\ OneLateStart /\ StaysEmpty)'
  BY DEF IInv, IssuedOnly, QueuedIsFresh, DisarmedIsDead, LiveIdsAreQueued,
    NoSilentDrop, HeldIdIsExact, OneLateStart, StaysEmpty, WaitUntilDue,
    IsTop, queueVars, callerVars, workerVars, historyVars
<1>2. (TypeOK /\ HeldTask /\ DeadlineHasTask /\ TimedOutIsPast /\
        ShutdownPhase /\ SleepsNoLonger)'
  BY SchedulerAssumption DEF IInv, TypeOK, HeldTask, DeadlineHasTask,
    TimedOutIsPast, ShutdownPhase, SleepsNoLonger, WaitUntilDue, IsTop,
    queueVars, callerVars, workerVars, historyVars
<1> QED BY <1>1, <1>2 DEF IInv

LEMMA TimeOutInv ==
  ASSUME IInv, TimeOut
  PROVE  IInv'
<1>1. (IssuedOnly /\ QueuedIsFresh /\ DisarmedIsDead /\ LiveIdsAreQueued /\
        NoSilentDrop /\ HeldIdIsExact /\ OneLateStart /\ StaysEmpty)'
  BY DEF IInv, IssuedOnly, QueuedIsFresh, DisarmedIsDead, LiveIdsAreQueued,
    NoSilentDrop, HeldIdIsExact, OneLateStart, StaysEmpty, TimeOut, queueVars,
    callerVars, workerVars, historyVars
<1>2. (TypeOK /\ HeldTask /\ DeadlineHasTask /\ TimedOutIsPast /\
        ShutdownPhase /\ SleepsNoLonger)'
  BY SchedulerAssumption DEF IInv, TypeOK, HeldTask, DeadlineHasTask,
    TimedOutIsPast, ShutdownPhase, SleepsNoLonger, TimeOut, queueVars,
    callerVars, workerVars, historyVars
<1> QED BY <1>1, <1>2 DEF IInv

LEMMA SpuriousWakeInv ==
  ASSUME IInv, SpuriousWake
  PROVE  IInv'
<1>1. (IssuedOnly /\ QueuedIsFresh /\ DisarmedIsDead /\ LiveIdsAreQueued /\
        NoSilentDrop /\ HeldIdIsExact /\ OneLateStart /\ StaysEmpty)'
  BY DEF IInv, IssuedOnly, QueuedIsFresh, DisarmedIsDead, LiveIdsAreQueued,
    NoSilentDrop, HeldIdIsExact, OneLateStart, StaysEmpty, SpuriousWake,
    queueVars, callerVars, workerVars, historyVars
<1>2. (TypeOK /\ HeldTask /\ DeadlineHasTask /\ TimedOutIsPast /\
        ShutdownPhase /\ SleepsNoLonger)'
  BY SchedulerAssumption DEF IInv, TypeOK, HeldTask, DeadlineHasTask,
    TimedOutIsPast, ShutdownPhase, SleepsNoLonger, SpuriousWake, queueVars,
    callerVars, workerVars, historyVars
<1> QED BY <1>1, <1>2 DEF IInv

LEMMA WokenInv ==
  ASSUME IInv, Woken
  PROVE  IInv'
<1>1. (IssuedOnly /\ QueuedIsFresh /\ DisarmedIsDead /\ LiveIdsAreQueued /\
        NoSilentDrop /\ HeldIdIsExact /\ OneLateStart /\ StaysEmpty)'
  BY DEF IInv, IssuedOnly, QueuedIsFresh, DisarmedIsDead, LiveIdsAreQueued,
    NoSilentDrop, HeldIdIsExact, OneLateStart, StaysEmpty, Woken, TimedOut,
    queueVars, callerVars, workerVars, historyVars
<1>2. (TypeOK /\ HeldTask /\ DeadlineHasTask /\ TimedOutIsPast /\
        ShutdownPhase /\ SleepsNoLonger)'
  BY SchedulerAssumption DEF IInv, TypeOK, HeldTask, DeadlineHasTask,
    TimedOutIsPast, ShutdownPhase, SleepsNoLonger, Woken, TimedOut, queueVars,
    callerVars, workerVars, historyVars
<1> QED BY <1>1, <1>2 DEF IInv

LEMMA PopLiveInv ==
  ASSUME IInv, PopLive
  PROVE  IInv'
<1>1. OneLateStart'
  BY DEF IInv, OneLateStart, PopLive, IsTop, TimedOut, IsLive, IdsWithout,
    HeapWithout, queueVars, callerVars, workerVars, historyVars
<1>2. (IssuedOnly /\ QueuedIsFresh /\ DisarmedIsDead /\ DeadlineHasTask /\
        TimedOutIsPast /\ ShutdownPhase /\ LiveIdsAreQueued /\ HeldIdIsExact
        /\ StaysEmpty /\ SleepsNoLonger)'
  BY SchedulerAssumption DEF IInv, IssuedOnly, QueuedIsFresh, DisarmedIsDead,
    DeadlineHasTask, TimedOutIsPast, ShutdownPhase, LiveIdsAreQueued,
    HeldIdIsExact, StaysEmpty, SleepsNoLonger, PopLive, IsTop, TimedOut,
    IsLive, IdsWithout, HeapWithout, queueVars, callerVars, workerVars,
    historyVars
<1>3. NoSilentDrop'
  BY SchedulerAssumption DEF IInv, NoSilentDrop, TypeOK, PopLive, IsTop,
    TimedOut, IsLive, IdsWithout, HeapWithout, queueVars, callerVars,
    workerVars, historyVars
<1>4. HeldTask'
  BY SchedulerAssumption DEF IInv, HeldTask, TypeOK, QueuedIsFresh,
    DisarmedIsDead, DeadlineHasTask, TimedOutIsPast, StaysEmpty, PopLive,
    IsTop, TimedOut, IsLive, IdsWithout, HeapWithout, queueVars, callerVars,
    workerVars, historyVars
<1>5. TypeOK'
  <2>1. mTasks' \subseteq Task /\ mTaskIds' \subseteq TaskId /\ wtask' \in Task
    BY DEF IInv, TypeOK, PopLive, HeapWithout, IdsWithout
  <2> QED
    BY <2>1 DEF IInv, TypeOK, PopLive, callerVars, historyVars
<1> QED BY <1>1, <1>2, <1>3, <1>4, <1>5 DEF IInv

LEMMA PopDeadInv ==
  ASSUME IInv, PopDead
  PROVE  IInv'
<1>1. OneLateStart'
  BY DEF IInv, OneLateStart, PopDead, IsTop, TimedOut, IsLive, HeapWithout,
    queueVars, callerVars, workerVars, historyVars
<1>2. (TypeOK /\ IssuedOnly /\ QueuedIsFresh /\ HeldTask /\ DisarmedIsDead /\
        DeadlineHasTask /\ TimedOutIsPast /\ ShutdownPhase /\ LiveIdsAreQueued
        /\ NoSilentDrop /\ HeldIdIsExact /\ StaysEmpty /\ SleepsNoLonger)'
  BY SchedulerAssumption DEF IInv, TypeOK, IssuedOnly, QueuedIsFresh,
    HeldTask, DisarmedIsDead, DeadlineHasTask, TimedOutIsPast, ShutdownPhase,
    LiveIdsAreQueued, NoSilentDrop, HeldIdIsExact, StaysEmpty, SleepsNoLonger,
    PopDead, IsTop, TimedOut, IsLive, HeapWithout, queueVars, callerVars,
    workerVars, historyVars
<1> QED BY <1>1, <1>2 DEF IInv

LEMMA PopEmptyInv ==
  ASSUME IInv, PopEmpty
  PROVE  IInv'
<1>1. (IssuedOnly /\ QueuedIsFresh /\ DisarmedIsDead /\ LiveIdsAreQueued /\
        NoSilentDrop /\ HeldIdIsExact /\ OneLateStart /\ StaysEmpty)'
  BY DEF IInv, IssuedOnly, QueuedIsFresh, DisarmedIsDead, LiveIdsAreQueued,
    NoSilentDrop, HeldIdIsExact, OneLateStart, StaysEmpty, PopEmpty, TimedOut,
    queueVars, callerVars, workerVars, historyVars
<1>2. (TypeOK /\ HeldTask /\ DeadlineHasTask /\ TimedOutIsPast /\
        ShutdownPhase /\ SleepsNoLonger)'
  BY SchedulerAssumption DEF IInv, TypeOK, HeldTask, DeadlineHasTask,
    TimedOutIsPast, ShutdownPhase, SleepsNoLonger, PopEmpty, TimedOut,
    queueVars, callerVars, workerVars, historyVars
<1> QED BY <1>1, <1>2 DEF IInv

LEMMA RunTaskInv ==
  ASSUME IInv, RunTask
  PROVE  IInv'
<1>1. (DisarmedIsDead /\ LiveIdsAreQueued /\ NoSilentDrop /\ HeldIdIsExact /\
        StaysEmpty)'
  BY DEF IInv, DisarmedIsDead, LiveIdsAreQueued, NoSilentDrop, HeldIdIsExact,
    StaysEmpty, RunTask, queueVars, callerVars, workerVars, historyVars
<1>2. (HeldTask /\ DeadlineHasTask /\ TimedOutIsPast /\ ShutdownPhase /\
        SleepsNoLonger)'
  BY SchedulerAssumption DEF IInv, HeldTask, DeadlineHasTask, TimedOutIsPast,
    ShutdownPhase, SleepsNoLonger, RunTask, queueVars, callerVars, workerVars,
    historyVars
<1>3. TypeOK'
  BY SchedulerAssumption DEF IInv, TypeOK, HeldTask, RunTask, queueVars,
    callerVars, workerVars, historyVars
<1>4. (IssuedOnly /\ QueuedIsFresh)'
  BY SchedulerAssumption DEF IInv, IssuedOnly, QueuedIsFresh, TypeOK,
    HeldTask, RunTask, queueVars, callerVars, workerVars, historyVars
<1>5. OneLateStart'
  BY SchedulerAssumption DEF IInv, OneLateStart, TypeOK, ShutdownPhase,
    RunTask, queueVars, callerVars, workerVars, historyVars
<1> QED BY <1>1, <1>2, <1>3, <1>4, <1>5 DEF IInv

LEMMA DeleteTaskInv ==
  ASSUME IInv, DeleteTask
  PROVE  IInv'
<1>1. (DisarmedIsDead /\ LiveIdsAreQueued /\ NoSilentDrop /\ HeldIdIsExact /\
        OneLateStart /\ StaysEmpty)'
  BY DEF IInv, DisarmedIsDead, LiveIdsAreQueued, NoSilentDrop, HeldIdIsExact,
    OneLateStart, StaysEmpty, DeleteTask, queueVars, callerVars, workerVars,
    historyVars
<1>2. (HeldTask /\ DeadlineHasTask /\ TimedOutIsPast /\ ShutdownPhase /\
        SleepsNoLonger)'
  BY SchedulerAssumption DEF IInv, HeldTask, DeadlineHasTask, TimedOutIsPast,
    ShutdownPhase, SleepsNoLonger, DeleteTask, queueVars, callerVars,
    workerVars, historyVars
<1>3. TypeOK'
  BY SchedulerAssumption DEF IInv, TypeOK, HeldTask, DeleteTask, queueVars,
    callerVars, workerVars, historyVars
<1>4. (IssuedOnly /\ QueuedIsFresh)'
  BY SchedulerAssumption DEF IInv, IssuedOnly, QueuedIsFresh, TypeOK,
    HeldTask, DeleteTask, queueVars, callerVars, workerVars, historyVars
<1> QED BY <1>1, <1>2, <1>3, <1>4 DEF IInv

LEMMA StoreStateInv ==
  ASSUME IInv, StoreState
  PROVE  IInv'
<1>1. (IssuedOnly /\ QueuedIsFresh /\ HeldTask /\ DisarmedIsDead /\
        TimedOutIsPast /\ LiveIdsAreQueued /\ NoSilentDrop /\ HeldIdIsExact /\
        OneLateStart /\ SleepsNoLonger)'
  BY DEF IInv, IssuedOnly, QueuedIsFresh, HeldTask, DisarmedIsDead,
    TimedOutIsPast, LiveIdsAreQueued, NoSilentDrop, HeldIdIsExact,
    OneLateStart, SleepsNoLonger, StoreState, queueVars, callerVars,
    workerVars, historyVars
<1>2. (TypeOK /\ DeadlineHasTask /\ ShutdownPhase /\ StaysEmpty)'
  BY SchedulerAssumption DEF IInv, TypeOK, DeadlineHasTask, ShutdownPhase,
    StaysEmpty, StoreState, queueVars, callerVars, workerVars, historyVars
<1> QED BY <1>1, <1>2 DEF IInv

LEMMA ClearTasksInv ==
  ASSUME IInv, ClearTasks
  PROVE  IInv'
<1>1. (TimedOutIsPast /\ OneLateStart)'
  BY DEF IInv, TimedOutIsPast, OneLateStart, ClearTasks, queueVars,
    callerVars, workerVars, historyVars
<1>2. (TypeOK /\ IssuedOnly /\ QueuedIsFresh /\ HeldTask /\ DisarmedIsDead /\
        DeadlineHasTask /\ ShutdownPhase /\ LiveIdsAreQueued /\ NoSilentDrop
        /\ HeldIdIsExact /\ StaysEmpty /\ SleepsNoLonger)'
  BY SchedulerAssumption DEF IInv, TypeOK, IssuedOnly, QueuedIsFresh,
    HeldTask, DisarmedIsDead, DeadlineHasTask, ShutdownPhase,
    LiveIdsAreQueued, NoSilentDrop, HeldIdIsExact, StaysEmpty, SleepsNoLonger,
    ClearTasks, queueVars, callerVars, workerVars, historyVars
<1> QED BY <1>1, <1>2 DEF IInv

LEMMA NotifyShutdownInv ==
  ASSUME IInv, NotifyShutdown
  PROVE  IInv'
<1>1. (IssuedOnly /\ QueuedIsFresh /\ DisarmedIsDead /\ LiveIdsAreQueued /\
        NoSilentDrop /\ HeldIdIsExact /\ OneLateStart)'
  BY DEF IInv, IssuedOnly, QueuedIsFresh, DisarmedIsDead, LiveIdsAreQueued,
    NoSilentDrop, HeldIdIsExact, OneLateStart, NotifyShutdown, NotifyOne,
    queueVars, callerVars, workerVars, historyVars
<1>2. (TypeOK /\ HeldTask /\ DeadlineHasTask /\ TimedOutIsPast /\
        ShutdownPhase /\ StaysEmpty /\ SleepsNoLonger)'
  BY SchedulerAssumption DEF IInv, TypeOK, HeldTask, DeadlineHasTask,
    TimedOutIsPast, ShutdownPhase, StaysEmpty, SleepsNoLonger, NotifyShutdown,
    NotifyOne, queueVars, callerVars, workerVars, historyVars
<1> QED BY <1>1, <1>2 DEF IInv

LEMMA JoinInv ==
  ASSUME IInv, Join
  PROVE  IInv'
<1>1. (IssuedOnly /\ QueuedIsFresh /\ HeldTask /\ DisarmedIsDead /\
        TimedOutIsPast /\ LiveIdsAreQueued /\ NoSilentDrop /\ HeldIdIsExact /\
        OneLateStart /\ SleepsNoLonger)'
  BY DEF IInv, IssuedOnly, QueuedIsFresh, HeldTask, DisarmedIsDead,
    TimedOutIsPast, LiveIdsAreQueued, NoSilentDrop, HeldIdIsExact,
    OneLateStart, SleepsNoLonger, Join, queueVars, callerVars, workerVars,
    historyVars
<1>2. (TypeOK /\ DeadlineHasTask /\ ShutdownPhase /\ StaysEmpty)'
  BY SchedulerAssumption DEF IInv, TypeOK, DeadlineHasTask, ShutdownPhase,
    StaysEmpty, Join, queueVars, callerVars, workerVars, historyVars
<1> QED BY <1>1, <1>2 DEF IInv

----------------------------------------------------------------------------
LEMMA StutterInv == ASSUME IInv, UNCHANGED vars PROVE IInv'
BY DEF IInv, vars, queueVars, callerVars, workerVars, historyVars, TypeOK,
       IssuedOnly, QueuedIsFresh, HeldTask, DisarmedIsDead, DeadlineHasTask,
       TimedOutIsPast, ShutdownPhase, LiveIdsAreQueued, NoSilentDrop,
       HeldIdIsExact, OneLateStart, StaysEmpty, SleepsNoLonger

LEMMA StepIInv == IInv /\ [Next]_vars => IInv'
<1> SUFFICES ASSUME IInv, [Next]_vars PROVE IInv'
  OBVIOUS
<1>1. CASE Tick
  BY <1>1, TickInv
<1>2. ASSUME NEW th \in Thread, Caller(th) PROVE IInv'
  BY <1>2, AddTaskInv, RejectTaskInv, NotifyTaskInv, ReturnIdInv, CancelTaskInv DEF Caller
<1>3. CASE Worker
  BY <1>3, CheckStateInv, WaitForTaskInv, WaitUntilDueInv, TimeOutInv, WokenInv,
     PopLiveInv, PopDeadInv, PopEmptyInv, RunTaskInv, DeleteTaskInv DEF Worker
<1>4. CASE SpuriousWake
  BY <1>4, SpuriousWakeInv
<1>5. CASE Shutdown
  BY <1>5, StoreStateInv, ClearTasksInv, NotifyShutdownInv, JoinInv DEF Shutdown
<1>6. CASE UNCHANGED vars
  BY <1>6, StutterInv
<1> QED
  BY <1>1, <1>2, <1>3, <1>4, <1>5, <1>6 DEF Next

\* The strengthened invariant holds in every behaviour.
THEOREM Inductive == Spec => []IInv
BY InitIInv, StepIInv, PTL DEF Spec

\* Every variable keeps its type, whatever the width of the identifier.
THEOREM TypeCorrect == Spec => []TypeOK
<1>1. IInv => TypeOK
  BY DEF IInv
<1> QED BY <1>1, Inductive, PTL

\* What was cancelled in the heap, and not issued again, is never run
\* (scheduler.cpp, the worker's loop against CancelTask).
THEOREM CancellationIsSound == Spec => []CancelledNeverRuns
<1>1. IInv => CancelledNeverRuns
  BY DEF IInv, HeldTask, CancelledNeverRuns
<1> QED BY <1>1, Inductive, PTL

\* What the worker will drop was cancelled or shares its identifier (the test of
\* mTaskIds against AddTask, whose identifiers wrap around).
THEOREM NothingIsDropped == Spec => []NoSilentDrop
<1>1. IInv => NoSilentDrop
  BY DEF IInv
<1> QED BY <1>1, Inductive, PTL

\* However the wait ended, the task the worker takes is due.
THEOREM NothingIsEarly == Spec => []NeverEarly
<1>1. IInv => NeverEarly
  BY DEF IInv, HeldTask, NeverEarly
<1> QED BY <1>1, Inductive, PTL

\* The worker's deadline is never later than a queued task, but for the moment
\* between AddTask's push and its notification.
THEOREM NothingIsSleptThrough == Spec => []SleepsNoLonger
<1>1. IInv => SleepsNoLonger
  BY DEF IInv
<1> QED BY <1>1, Inductive, PTL

\* The identifier that AddTask reads outside the lock, from a task that may be
\* freed, is exact for as long as it matters.
THEOREM IdentifiersAreExact == Spec => []HeldIdIsExact
<1>1. IInv => HeldIdIsExact
  BY DEF IInv
<1> QED BY <1>1, Inductive, PTL

\* mTaskIds does not outgrow the heap, and both stay empty once Shutdown cleared
\* them.
THEOREM NothingLingers == Spec => [](LiveIdsAreQueued /\ StaysEmpty)
<1>1. IInv => LiveIdsAreQueued /\ StaysEmpty
  BY DEF IInv
<1> QED BY <1>1, Inductive, PTL

\* Shutdown lets at most one more task start.
THEOREM ShutdownIsFinal == Spec => []OneLateStart
<1>1. IInv => OneLateStart
  BY DEF IInv
<1> QED BY <1>1, Inductive, PTL

\* No task's function is called twice, or after Shutdown returned.
THEOREM RunsAtMostOnce == Spec => StartsOnce
<1>1. IInv /\ [Next]_vars =>
        [wpc = "popped" /\ wpc' = "running" => wtask \notin started /\ shut # "returned"]_vars
  BY DEF IInv, HeldTask, ShutdownPhase
<1> QED BY <1>1, Inductive, PTL DEF Spec, StartsOnce

----------------------------------------------------------------------------
(* Scheduler implements TimerService: adding, cancelling, taking a live     *)
(* task, taking a dead one, and the two halves of Shutdown are its steps;   *)
(* everything the worker does to sleep and wake up is a stutter.            *)

LEMMA InitRefines == Init => Service!Init
BY DEF Init, Service!Init, Taken

LEMMA AddRefines ==
  ASSUME IInv, NEW th \in Thread, NEW t \in Task, NEW d \in Delay, AddTask(th, t, d)
  PROVE  Service!Next
<1>1. NextId(th) \in TaskId
  BY SchedulerAssumption DEF IInv, TypeOK, NextId
<1>2. Taken' = Taken /\ (mState = 0)' = (mState = 0) /\ mState = 0
  BY DEF AddTask, Taken, workerVars
<1>3. Service!Add(t, NextId(th))
  BY <1>2 DEF AddTask, Service!Add
<1> QED BY <1>1, <1>3 DEF Service!Next, Service!TimerId

LEMMA CancelRefines ==
  ASSUME IInv, NEW th \in Thread, NEW i \in 0..MaxId, CancelTask(th, i)
  PROVE  Service!Next
<1>1. i \in TaskId
  BY SchedulerAssumption DEF CancelTask
<1>2. Taken' = Taken /\ (mState = 0)' = (mState = 0)
  BY DEF CancelTask, Taken, workerVars
<1>3. Service!Cancel(i)
  BY <1>2 DEF CancelTask, Service!Cancel
<1> QED BY <1>1, <1>3 DEF Service!Next, Service!TimerId

LEMMA PopLiveRefines ==
  ASSUME IInv, PopLive
  PROVE  Service!Next
<1>1. PICK t \in mTasks :
        /\ id[t] \in mTaskIds
        /\ mTasks' = mTasks \ {t}
        /\ mTaskIds' = mTaskIds \ {id[t]}
        /\ wtask' = t
  BY DEF PopLive, IsLive, HeapWithout, IdsWithout
<1>2. Taken' = Taken \cup {t} /\ id' = id /\ (mState = 0)' = (mState = 0)
  BY <1>1 DEF PopLive, Taken, historyVars
<1>3. t \in Task
  BY <1>1 DEF IInv, TypeOK
<1>4. Service!Fire(t)
  BY <1>1, <1>2 DEF Service!Fire, Service!Armed
<1> QED BY <1>3, <1>4 DEF Service!Next

LEMMA PopDeadRefines ==
  ASSUME IInv, PopDead
  PROVE  Service!Next
<1>1. PICK t \in mTasks : id[t] \notin mTaskIds /\ mTasks' = mTasks \ {t}
  BY DEF PopDead, IsLive, HeapWithout
<1>2. Taken' = Taken /\ id' = id /\ mTaskIds' = mTaskIds /\ (mState = 0)' = (mState = 0)
  BY DEF PopDead, Taken, historyVars
<1>3. t \in Task
  BY <1>1 DEF IInv, TypeOK
<1>4. Service!Drop(t)
  BY <1>1, <1>2 DEF Service!Drop, Service!Armed
<1> QED BY <1>3, <1>4 DEF Service!Next

LEMMA ShutdownRefines ==
  ASSUME IInv, StoreState \/ ClearTasks
  PROVE  Service!Next
<1>1. Taken' = Taken /\ id' = id
  BY DEF StoreState, ClearTasks, Taken, workerVars, historyVars
<1>2. CASE StoreState
  BY <1>1, <1>2 DEF StoreState, Service!Close, Service!Next
<1>3. CASE ClearTasks
  <2>1. ~(mState = 0) /\ (mState = 0)' = (mState = 0)
    BY <1>3 DEF IInv, ShutdownPhase, ClearTasks
  <2>2. Service!Clear
    BY <1>1, <1>3, <2>1 DEF ClearTasks, Service!Clear
  <2> QED BY <2>2 DEF Service!Next
<1> QED BY <1>2, <1>3

\* Everything else leaves the service as it is.
LEMMA OthersStutter ==
  ASSUME IInv,
         \/ Tick \/ SpuriousWake
         \/ \E th \in Thread : RejectTask(th) \/ NotifyTask(th) \/ ReturnId(th)
         \/ CheckState \/ WaitForTask \/ WaitUntilDue \/ TimeOut \/ Woken
         \/ PopEmpty \/ RunTask \/ DeleteTask
         \/ NotifyShutdown \/ Join
         \/ UNCHANGED vars
  PROVE  UNCHANGED Service!timerVars
<1>1. mTasks' = mTasks /\ mTaskIds' = mTaskIds /\ id' = id /\ mState' = mState
  BY DEF Tick, SpuriousWake, RejectTask, NotifyTask, ReturnId, CheckState, WaitForTask,
     WaitUntilDue, TimeOut, Woken, PopEmpty, RunTask, DeleteTask, NotifyShutdown, Join,
     vars, queueVars
<1>2. Taken' = Taken
  BY DEF Tick, SpuriousWake, RejectTask, NotifyTask, ReturnId, CheckState, WaitForTask,
     WaitUntilDue, TimeOut, Woken, PopEmpty, RunTask, DeleteTask, NotifyShutdown, Join,
     vars, workerVars, historyVars, NotifyOne, Taken
<1> QED BY <1>1, <1>2 DEF Service!timerVars

LEMMA StepRefines == IInv /\ [Next]_vars => [Service!Next]_(Service!timerVars)
<1> SUFFICES ASSUME IInv, [Next]_vars
             PROVE  Service!Next \/ UNCHANGED Service!timerVars
  OBVIOUS
<1>1. CASE Tick \/ SpuriousWake \/ UNCHANGED vars
  BY <1>1, OthersStutter
<1>2. ASSUME NEW th \in Thread, Caller(th)
      PROVE  Service!Next \/ UNCHANGED Service!timerVars
  BY <1>2, AddRefines, CancelRefines, OthersStutter DEF Caller
<1>3. CASE Worker
  BY <1>3, PopLiveRefines, PopDeadRefines, OthersStutter DEF Worker
<1>4. CASE Shutdown
  BY <1>4, ShutdownRefines, OthersStutter DEF Shutdown
<1> QED BY <1>1, <1>2, <1>3, <1>4 DEF Next

\* scheduler.cpp keeps the promise of scheduler.h: with all its threads, waits
\* and notifications it is a TimerService.
THEOREM SchedulerImplementsService == Spec => ImplementsService
BY InitRefines, StepRefines, Inductive, PTL DEF Spec, ImplementsService, Service!Spec
=============================================================================

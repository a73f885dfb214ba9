------------------------------ MODULE Scheduler ------------------------------
(***************************************************************************)
(* scheduler.cpp: one worker thread sleeps on a condition variable until   *)
(* the earliest task of a heap is due and runs it outside the lock; any    *)
(* number of threads add and cancel tasks; one thread shuts it down.       *)
(*                                                                         *)
(* A section of the code that holds mLock is one action, because nothing   *)
(* in it blocks; wait and wait_until release the lock, so the worker's     *)
(* loop is cut at every point where another thread can get in.  Time is    *)
(* the value of system_clock in milliseconds.                              *)
(***************************************************************************)
EXTENDS Naturals

CONSTANTS
  Thread,    \* the threads that call AddTask and CancelTask
  Task,      \* the Task objects that may ever be allocated
  Delay,     \* the delays callers pass to AddTask
  MaxId,     \* the largest uint32_t: the counter wraps after it
  NoTask,    \* a null Task*
  MaxClock   \* bound of the model: no execution point lies beyond it

ASSUME SchedulerAssumption ==
  /\ MaxId \in Nat \ {0}
  /\ Delay \subseteq Nat
  /\ MaxClock \in Nat
  /\ NoTask \notin Task

VARIABLES
  clock,     \* system_clock::now()
  mState,    \* 0 while the scheduler works, 1 once Shutdown was called
  mTasks,    \* the heap of queued tasks
  mTaskIds,  \* identifiers neither cancelled nor fired
  id,        \* Task::mId, 0 before AddTask sets it
  due,       \* Task::mExecutionPoint
  freed,     \* tasks that were deleted
  taskId,    \* the thread_local counter of AddTask
  pc,        \* where each calling thread is in AddTask
  added,     \* the last task each thread added
  result,    \* what the last AddTask of each thread returned
  shut,      \* where the main thread is in Shutdown
  wpc,       \* where the worker is in its loop
  wdue,      \* the deadline of the wait_until the worker is in
  timed,     \* TRUE when the worker's wait has a deadline
  wret,      \* the cv_status of the worker's last wait
  wtask,     \* the task the worker popped
  started,   \* history: tasks whose function was called
  disarmed,  \* history: queued tasks cancelled since their id was last issued
  late       \* history: tasks whose function was called after Shutdown began

queueVars  == <<mState, mTasks, mTaskIds, id, due, freed>>
callerVars == <<taskId, pc, added, result>>
workerVars == <<wpc, wdue, timed, wret, wtask>>
historyVars == <<started, disarmed, late>>
vars == <<clock, queueVars, callerVars, shut, workerVars, historyVars>>

TaskId == 1..MaxId
Issued == {t \in Task : id[t] # 0}

CallerPC == {"idle", "notify", "return"}
WorkerPC == {"check", "lock", "blocked", "relock", "popped", "running", "done", "ub"}
ShutPC   == {"none", "clear", "notify", "join", "returned"}

TypeOK ==
  /\ clock \in Nat
  /\ mState \in {0, 1}
  /\ mTasks \subseteq Task
  /\ mTaskIds \subseteq TaskId
  /\ id \in [Task -> 0..MaxId]
  /\ due \in [Task -> Nat]
  /\ freed \subseteq Task
  /\ taskId \in [Thread -> 0..MaxId]
  /\ pc \in [Thread -> CallerPC]
  /\ added \in [Thread -> Task \cup {NoTask}]
  /\ result \in [Thread -> 0..MaxId]
  /\ shut \in ShutPC
  /\ wpc \in WorkerPC
  /\ wdue \in Nat
  /\ timed \in BOOLEAN
  /\ wret \in {"timeout", "no_timeout"}
  /\ wtask \in Task \cup {NoTask}
  /\ started \subseteq Task
  /\ disarmed \subseteq Task
  /\ late \subseteq Task

Init ==
  /\ clock = 0
  /\ mState = 0
  /\ mTasks = {}
  /\ mTaskIds = {}
  /\ id = [t \in Task |-> 0]
  /\ due = [t \in Task |-> 0]
  /\ freed = {}
  /\ taskId = [th \in Thread |-> 0]
  /\ pc = [th \in Thread |-> "idle"]
  /\ added = [th \in Thread |-> NoTask]
  /\ result = [th \in Thread |-> 0]
  /\ shut = "none"
  /\ wpc = "check"
  /\ wdue = 0
  /\ timed = FALSE
  /\ wret = "no_timeout"
  /\ wtask = NoTask
  /\ started = {}
  /\ disarmed = {}
  /\ late = {}

\* Time passes.
Tick ==
  /\ clock < MaxClock
  /\ clock' = clock + 1
  /\ UNCHANGED <<queueVars, callerVars, shut, workerVars, historyVars>>

\* t is at the top of a heap that holds the tasks of q.  TaskComparator
\* compares execution points only, so any of several equally early tasks.
IsTop(t, q) == t \in q /\ \A u \in q : due[t] <= due[u]

\* Mutant: nobody is notified.
NotifyNone == UNCHANGED workerVars

\* notify_one: the worker is the only thread that waits on mSignal.  A
\* notification that finds it anywhere else is lost.
NotifyOne ==
  IF wpc = "blocked"
    THEN /\ wpc' = "relock"
         /\ wret' = "no_timeout"
         /\ UNCHANGED <<wdue, timed, wtask>>
    ELSE UNCHANGED workerVars

----------------------------------------------------------------------------
\* The callers.

\* ++taskId, skipping the value 0 that means "no task".
NextId(th) == IF taskId[th] = MaxId THEN 1 ELSE taskId[th] + 1

\* Mutant: the worker is notified only when it may be waiting without a deadline.
NewTopIfEmpty(d) == mTasks = {}

\* notify = task == mTasks.top(): a pushed task moves to the top of the heap only
\* when it is strictly earlier than every other one.
NewTop(d) == \A u \in mTasks : clock + d < due[u]

\* AddTask up to mLock.unlock().
AddTask(th, t, d) ==
  /\ pc[th] = "idle"
  /\ mState = 0
  /\ t \notin Issued
  /\ clock + d <= MaxClock
  /\ taskId' = [taskId EXCEPT ![th] = NextId(th)]
  /\ id' = [id EXCEPT ![t] = NextId(th)]
  /\ due' = [due EXCEPT ![t] = clock + d]
  /\ mTaskIds' = mTaskIds \cup {NextId(th)}
  /\ mTasks' = mTasks \cup {t}
  /\ pc' = [pc EXCEPT ![th] = IF NewTop(d) THEN "notify" ELSE "return"]
  /\ added' = [added EXCEPT ![th] = t]
  /\ disarmed' = disarmed \ {u \in Task : id[u] = NextId(th)}
  /\ UNCHANGED <<clock, mState, freed, result, shut, workerVars, started, late>>

\* AddTask after Shutdown began: nothing is queued and 0 is returned.
RejectTask(th) ==
  /\ pc[th] = "idle"
  /\ mState # 0
  /\ added' = [added EXCEPT ![th] = NoTask]
  /\ result' = [result EXCEPT ![th] = 0]
  /\ UNCHANGED <<clock, queueVars, taskId, pc, shut, workerVars, historyVars>>

\* mSignal.notify_one() of AddTask, outside the lock.
NotifyTask(th) ==
  /\ pc[th] = "notify"
  /\ pc' = [pc EXCEPT ![th] = "return"]
  /\ NotifyOne
  /\ UNCHANGED <<clock, queueVars, taskId, added, result, shut, historyVars>>

\* Mutant: the identifier is read before SetId has set it.
ReadableIdUnset(t) == {0}

\* task->GetId(), outside the lock: when the worker has deleted the task in the
\* meantime the value read from the freed memory is arbitrary.
ReadableId(t) == IF t \in freed THEN 0..MaxId ELSE {id[t]}

\* return task->GetId().
ReturnId(th) ==
  /\ pc[th] = "return"
  /\ pc' = [pc EXCEPT ![th] = "idle"]
  /\ \E i \in ReadableId(added[th]) : result' = [result EXCEPT ![th] = i]
  /\ UNCHANGED <<clock, queueVars, taskId, added, shut, workerVars, historyVars>>

\* CancelTask(i): forgets the identifier, leaves the task in the heap.
CancelTask(th, i) ==
  /\ pc[th] = "idle"
  /\ i # 0
  /\ mTaskIds' = mTaskIds \ {i}
  /\ disarmed' = disarmed \cup {t \in mTasks : id[t] = i}
  /\ UNCHANGED <<clock, mState, mTasks, id, due, freed, callerVars, shut,
                 workerVars, started, late>>

----------------------------------------------------------------------------
\* The worker thread.

\* Mutant: the loop goes on while tasks are left.
GoesOnWithTasks == mState = 0 \/ mTasks # {}

GoesOn == mState = 0

\* while (mState.load() == 0), read without the lock.
CheckState ==
  /\ wpc = "check"
  /\ wpc' = IF GoesOn THEN "lock" ELSE "done"
  /\ UNCHANGED <<clock, queueVars, callerVars, shut, wdue, timed, wret, wtask, historyVars>>

\* lock(), then wait() on an empty heap.
WaitForTask ==
  /\ wpc = "lock"
  /\ mTasks = {}
  /\ wpc' = "blocked"
  /\ timed' = FALSE
  /\ UNCHANGED <<clock, queueVars, callerVars, shut, wdue, wret, wtask, historyVars>>

\* lock(), then wait_until() the execution point of the top.  It reports a
\* timeout without blocking when that point has passed already.
WaitUntilDue ==
  /\ wpc = "lock"
  /\ \E t \in mTasks :
       /\ IsTop(t, mTasks)
       /\ wdue' = due[t]
       /\ timed' = TRUE
       /\ IF due[t] <= clock
            THEN wpc' = "relock" /\ wret' = "timeout"
            ELSE wpc' = "blocked" /\ UNCHANGED wret
  /\ UNCHANGED <<clock, queueVars, callerVars, shut, wtask, historyVars>>

\* The deadline of wait_until passes.
TimeOut ==
  /\ wpc = "blocked"
  /\ timed
  /\ wdue <= clock
  /\ wpc' = "relock"
  /\ wret' = "timeout"
  /\ UNCHANGED <<clock, queueVars, callerVars, shut, wdue, timed, wtask, historyVars>>

\* wait and wait_until may return without a notification.
SpuriousWake ==
  /\ wpc = "blocked"
  /\ wpc' = "relock"
  /\ wret' = "no_timeout"
  /\ UNCHANGED <<clock, queueVars, callerVars, shut, wdue, timed, wtask, historyVars>>

\* Mutant: the result of the wait is not looked at.
TimedOutAlways == TRUE

TimedOut == wret = "timeout"

\* Mutant: the identifier is not looked up.
IsLiveAlways(t) == TRUE

\* mTaskIds.find(task->GetId()) != mTaskIds.end()
IsLive(t) == id[t] \in mTaskIds

\* Mutant: all identifiers are erased.
IdsWithoutAny(t) == {}

IdsWithout(t) == mTaskIds \ {id[t]}

HeapWithout(t) == mTasks \ {t}

\* Back from the wait with the lock held: anything but a timeout loops.
Woken ==
  /\ wpc = "relock"
  /\ ~TimedOut
  /\ wpc' = "check"
  /\ UNCHANGED <<clock, queueVars, callerVars, shut, wdue, timed, wret, wtask, historyVars>>

\* After a timeout the top is read again, from the heap as it is now.
PopLive ==
  /\ wpc = "relock"
  /\ TimedOut
  /\ \E t \in mTasks :
       /\ IsTop(t, mTasks)
       /\ IsLive(t)
       /\ mTasks' = HeapWithout(t)
       /\ mTaskIds' = IdsWithout(t)
       /\ wtask' = t
  /\ wpc' = "popped"
  /\ UNCHANGED <<clock, mState, id, due, freed, callerVars, shut, wdue, timed,
                 wret, historyVars>>

\* A task whose identifier was forgotten is deleted without being run.
PopDead ==
  /\ wpc = "relock"
  /\ TimedOut
  /\ \E t \in mTasks :
       /\ IsTop(t, mTasks)
       /\ ~IsLive(t)
       /\ mTasks' = HeapWithout(t)
       /\ freed' = freed \cup {t}
  /\ wpc' = "check"
  /\ UNCHANGED <<clock, mState, mTaskIds, id, due, callerVars, shut, wdue, timed,
                 wret, wtask, historyVars>>

\* A timeout with a heap that Shutdown emptied during the wait: top() and pop()
\* of an empty queue are undefined, and nothing is said of what follows.
PopEmpty ==
  /\ wpc = "relock"
  /\ TimedOut
  /\ mTasks = {}
  /\ wpc' = "ub"
  /\ UNCHANGED <<clock, queueVars, callerVars, shut, wdue, timed, wret, wtask, historyVars>>

\* (*task)(), without the lock.
RunTask ==
  /\ wpc = "popped"
  /\ wpc' = "running"
  /\ started' = started \cup {wtask}
  /\ late' = IF mState = 0 THEN late ELSE late \cup {wtask}
  /\ UNCHANGED <<clock, queueVars, callerVars, shut, wdue, timed, wret, wtask, disarmed>>

\* The task's function returns and the task is deleted.
DeleteTask ==
  /\ wpc = "running"
  /\ wpc' = "check"
  /\ freed' = freed \cup {wtask}
  /\ wtask' = NoTask
  /\ UNCHANGED <<clock, mState, mTasks, mTaskIds, id, due, callerVars, shut,
                 wdue, timed, wret, historyVars>>

----------------------------------------------------------------------------
\* Shutdown, called once by the main thread.

StoreState ==
  /\ shut = "none"
  /\ shut' = "clear"
  /\ mState' = 1
  /\ UNCHANGED <<clock, mTasks, mTaskIds, id, due, freed, callerVars, workerVars, historyVars>>

ClearTasks ==
  /\ shut = "clear"
  /\ shut' = "notify"
  /\ freed' = freed \cup mTasks
  /\ mTasks' = {}
  /\ mTaskIds' = {}
  /\ UNCHANGED <<clock, mState, id, due, callerVars, workerVars, historyVars>>

NotifyShutdown ==
  /\ shut = "notify"
  /\ shut' = "join"
  /\ NotifyOne
  /\ UNCHANGED <<clock, queueVars, callerVars, historyVars>>

Join ==
  /\ shut = "join"
  /\ wpc = "done"
  /\ shut' = "returned"
  /\ UNCHANGED <<clock, queueVars, callerVars, workerVars, historyVars>>

----------------------------------------------------------------------------
Worker ==
  \/ CheckState \/ WaitForTask \/ WaitUntilDue \/ TimeOut
  \/ Woken \/ PopLive \/ PopDead \/ PopEmpty \/ RunTask \/ DeleteTask

Caller(th) ==
  \/ \E t \in Task, d \in Delay : AddTask(th, t, d)
  \/ RejectTask(th)
  \/ NotifyTask(th)
  \/ ReturnId(th)
  \/ \E i \in 0..MaxId : CancelTask(th, i)

Shutdown == StoreState \/ ClearTasks \/ NotifyShutdown \/ Join

Next ==
  \/ Tick
  \/ \E th \in Thread : Caller(th)
  \/ Worker
  \/ SpuriousWake
  \/ Shutdown

Spec == Init /\ [][Next]_vars

\* The operating system runs every thread, a task's function returns, and the
\* clock does not stop.  Nobody is obliged to add, to cancel or to shut down.
Fairness ==
  /\ WF_vars(Tick)
  /\ WF_vars(Worker)
  /\ \A th \in Thread : WF_vars(NotifyTask(th) \/ ReturnId(th))
  /\ WF_vars(ClearTasks \/ NotifyShutdown \/ Join)

FairSpec == Spec /\ Fairness

----------------------------------------------------------------------------
\* Properties.

\* An identifier that is still live always names a task that is still in the
\* heap, so mTaskIds cannot grow beyond what is queued.
LiveIdsAreQueued ==
  \A i \in mTaskIds : \E t \in mTasks : id[t] = i

\* A task is never taken before its execution point, although the top of the
\* heap is read a second time after the wait and may be another task by then.
NeverEarly ==
  wpc \in {"popped", "running"} => due[wtask] <= clock

\* A task whose cancellation reached it in the heap is not run, unless its
\* identifier was issued again in the meantime.
CancelledNeverRuns ==
  wpc \in {"popped", "running"} => wtask \notin disarmed

\* A queued task is only ever going to be dropped because it was cancelled or
\* because another task was issued the same identifier.
NoSilentDrop ==
  \A t \in mTasks :
    \/ id[t] \in mTaskIds
    \/ t \in disarmed
    \/ \E u \in Task \ {t} : id[u] = id[t]

\* While the last task a thread added is still queued, the identifier that
\* AddTask returned to it is that task's, although it is read without the lock
\* from an object the worker may delete.
HeldIdIsExact ==
  \A th \in Thread :
    pc[th] = "idle" /\ added[th] \in mTasks => result[th] = id[added[th]]

\* At most one task starts after Shutdown has begun: the one the worker was
\* about to take when mState was stored.
OneLateStart ==
  \A t, u \in late : t = u

\* Nothing is queued any more once Shutdown has emptied the heap.
StaysEmpty ==
  shut \in {"notify", "join", "returned"} => mTasks = {} /\ mTaskIds = {}

\* No task's function is called twice, and none is called again once Shutdown
\* has returned.
StartsOnce ==
  [][wpc = "popped" /\ wpc' = "running" => wtask \notin started /\ shut # "returned"]_vars

\* The worker sleeps no longer than until the earliest execution point in the
\* heap, unless a thread that added an earlier task is just about to notify it.
SleepsNoLonger ==
  wpc = "blocked" =>
    \/ \A t \in mTasks : timed /\ wdue <= due[t]
    \/ \E th \in Thread : pc[th] = "notify"

\* A queued task does not stay queued: no notification is lost that would leave
\* the worker asleep past its execution point.
Drains == \A t \in Task : t \in mTasks ~> t \notin mTasks

\* Shutdown ends the worker, unless mState was stored while the worker stood
\* between its test of mState and the lock: then the notification finds it
\* awake, and it goes to sleep on an empty heap for good.
ShutdownEndsWorker ==
  (shut = "clear" /\ wpc # "lock") ~> wpc \in {"done", "ub"}

\* The service that scheduler.h promises.
Taken == started \cup (IF wpc = "popped" THEN {wtask} ELSE {})

Service == INSTANCE TimerService WITH
  queued <- mTasks, live <- mTaskIds, idOf <- id, fired <- Taken, open <- (mState = 0)

ImplementsService == Service!Spec
=============================================================================

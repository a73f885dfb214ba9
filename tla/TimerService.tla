---------------------------- MODULE TimerService ----------------------------
(***************************************************************************)
(* What scheduler.h promises to its callers, without threads, locks,       *)
(* waiting or time.  A task is handed in under an identifier and is queued *)
(* until it is taken.  Taking a task whose identifier is live fires it and *)
(* spends the identifier; taking a task whose identifier is not live drops *)
(* it.  Cancelling makes an identifier dead and touches no task.           *)
(*                                                                         *)
(* Identifiers, not tasks, are what is live: two queued tasks that were    *)
(* given one identifier live and die together.  The scheduler hands out    *)
(* identifiers from one counter per calling thread, so this does happen.   *)
(***************************************************************************)
EXTENDS Naturals

CONSTANTS
  Task,     \* the Task objects that may ever be allocated
  MaxId     \* the largest value of the uint32_t task identifier

VARIABLES
  queued,   \* tasks handed in and not yet taken
  live,     \* identifiers that were handed in and neither fired nor cancelled
  idOf,     \* the identifier of each task, 0 before it is handed in
  fired,    \* tasks taken in order to be run
  open      \* FALSE once the service was told to shut down

timerVars == <<queued, live, idOf, fired, open>>

TimerId == 1..MaxId

Sharing(i) == {t \in Task : idOf[t] = i}

Armed == {t \in queued : idOf[t] \in live}

Init ==
  /\ queued = {}
  /\ live = {}
  /\ idOf = [t \in Task |-> 0]
  /\ fired = {}
  /\ open = TRUE

\* AddTask before shutdown: t is queued under identifier i, which becomes live.
Add(t, i) ==
  /\ open
  /\ idOf[t] = 0
  /\ idOf' = [idOf EXCEPT ![t] = i]
  /\ queued' = queued \cup {t}
  /\ live' = live \cup {i}
  /\ UNCHANGED <<fired, open>>

\* CancelTask: identifier i is no longer live, whatever it names.
Cancel(i) ==
  /\ live' = live \ {i}
  /\ UNCHANGED <<queued, idOf, fired, open>>

\* A due task with a live identifier is taken to be run.
Fire(t) ==
  /\ t \in Armed
  /\ queued' = queued \ {t}
  /\ live' = live \ {idOf[t]}
  /\ fired' = fired \cup {t}
  /\ UNCHANGED <<idOf, open>>

\* A due task with a dead identifier is taken and deleted.
Drop(t) ==
  /\ t \in queued \ Armed
  /\ queued' = queued \ {t}
  /\ UNCHANGED <<live, idOf, fired, open>>

\* Shutdown is announced, and some time later everything queued is deleted.
Close ==
  /\ open' = FALSE
  /\ UNCHANGED <<queued, live, idOf, fired>>

Clear ==
  /\ ~open
  /\ queued' = {}
  /\ live' = {}
  /\ UNCHANGED <<idOf, fired, open>>

Next ==
  \/ \E t \in Task, i \in TimerId : Add(t, i)
  \/ \E i \in TimerId : Cancel(i)
  \/ \E t \in Task : Fire(t) \/ Drop(t)
  \/ Close
  \/ Clear

Spec == Init /\ [][Next]_timerVars
=============================================================================

----------------------------- MODULE GameEvents -----------------------------
(***************************************************************************)
(* A Lua event travels through three threads.  AddEvent, on the RakNet     *)
(* thread of a game, hands a task to the scheduler and then notes its      *)
(* identifier in Instance::mEvents; the scheduler's thread takes the task  *)
(* when it is due and posts a callback into the queue of the game's        *)
(* RakNet::Server; the RakNet thread forgets the identifier and calls Lua. *)
(* The main thread restarts a game at any moment: it goes through mEvents  *)
(* and cancels, clears it, stops and joins the RakNet thread and builds    *)
(* everything anew.                                                        *)
(*                                                                         *)
(* No lock guards mEvents.  When the RakNet thread updates the set while   *)
(* the main thread goes through it or clears it, the loop may miss any of  *)
(* what is left and the clear may leave anything behind; that the set's    *)
(* memory breaks and the program with it ends such a behaviour.  mServer   *)
(* is null while the main thread replaces it: posting to it then is down.  *)
(*                                                                         *)
(* The scheduler is TimerService, which Scheduler implements.  A RakNet    *)
(* thread is a new thread after every start, so the thread_local counter   *)
(* of Scheduler::AddTask begins at zero in each.                           *)
(***************************************************************************)
EXTENDS Naturals, SequencesExt

CONSTANTS
  Game,      \* the game instances
  Task,      \* the Task objects that events may ever allocate
  MaxId,     \* the largest uint32_t identifier
  MaxStart,  \* bound of the model: how often each game is started
  NoGame,    \* no game
  NoTask,    \* no event
  LuaInit    \* the first server task: mLua->Initialize()

ASSUME GameEventsAssumption ==
  /\ MaxId \in Nat \ {0}
  /\ MaxStart \in [Game -> Nat]
  /\ NoGame \notin Game
  /\ LuaInit \notin Task
  /\ NoTask \notin Task

VARIABLES
  queued, live, idOf, fired, open,  \* the scheduler
  taskId,    \* AddTask's thread_local counter in each game's RakNet thread
  owner,     \* the game whose Lua added the event
  era,       \* how often that game had been cancelled by then
  starts,    \* how often each game's mEvents were cleared by a start
  restarting,\* the game the main thread is in Instance::Start of
  step,      \* how far Instance::Start has come
  mRunning,  \* Server::mRunning
  rak,       \* where each game's RakNet thread is
  todo,      \* the identifiers that the loop of Instance::Stop has yet to reach
  mEvents,   \* Instance::mEvents
  inHand,    \* the event between AddTask and mEvents.insert in each game
  erasing,   \* the identifier between CancelTask and mEvents.erase, or zero
  mTasks,    \* Server::mTasks
  firing,    \* the task in the hands of the scheduler's thread
  down,      \* the program crashed
  called,    \* history: events whose callback was called
  lost,      \* history: events whose callback went with a server destroyed
  quiet,     \* history: events cancelled before they fired, id not issued again
  torn       \* history: events that could fire when both threads used mEvents

timer == <<queued, live, idOf, fired, open>>
mainVars == <<starts, restarting, step, todo>>
serverVars == <<mRunning, rak, mTasks>>
eventVars == <<mEvents, inHand, erasing>>
history == <<called, lost, quiet, torn>>
vars == <<timer, taskId, owner, era, mainVars, serverVars, eventVars, firing, down, history>>

Timer == INSTANCE TimerService

TaskId == 1..MaxId

\* "none": no thread; "loop": packets and Instance::Update; "tasks": running
\* server tasks with mTaskMutex held.
RakPlace == {"none", "loop", "tasks"}
StartStep == {"idle", "cancel", "stop", "join", "build", "init"}

TypeOK ==
  /\ queued \subseteq Task /\ fired \subseteq Task /\ live \subseteq TaskId
  /\ idOf \in [Task -> 0..MaxId]
  /\ taskId \in [Game -> 0..MaxId]
  /\ owner \in [Task -> Game \cup {NoGame}]
  /\ era \in [Task -> Nat]
  /\ starts \in [Game -> Nat]
  /\ restarting \in Game \cup {NoGame}
  /\ step \in StartStep
  /\ mRunning \in [Game -> BOOLEAN]
  /\ rak \in [Game -> RakPlace]
  /\ todo \subseteq 0..MaxId
  /\ mEvents \in [Game -> SUBSET (0..MaxId)]
  /\ inHand \in [Game -> Task \cup {NoTask}]
  /\ erasing \in [Game -> 0..MaxId]
  /\ mTasks \in [Game -> Seq(Task \cup {LuaInit})]
  /\ firing \subseteq Task
  /\ down \in BOOLEAN
  /\ called \subseteq Task /\ lost \subseteq Task
  /\ quiet \subseteq Task /\ torn \subseteq Task

Init ==
  /\ Timer!Init
  /\ taskId = [g \in Game |-> 0]
  /\ owner = [t \in Task |-> NoGame]
  /\ era = [t \in Task |-> 0]
  /\ starts = [g \in Game |-> 0]
  /\ restarting = NoGame
  /\ step = "idle"
  /\ mRunning = [g \in Game |-> FALSE]
  /\ rak = [g \in Game |-> "none"]
  /\ todo = {}
  /\ mEvents = [g \in Game |-> {}]
  /\ inHand = [g \in Game |-> NoTask]
  /\ erasing = [g \in Game |-> 0]
  /\ mTasks = [g \in Game |-> <<>>]
  /\ firing = {}
  /\ down = FALSE
  /\ called = {}
  /\ lost = {}
  /\ quiet = {}
  /\ torn = {}

Updating(g) == inHand[g] # NoTask \/ erasing[g] # 0

\* The main thread is between the first look Stop takes at mEvents and the end
\* of its clear().
Walking(g) == restarting = g /\ step = "cancel"

Tears(g) == {t \in Timer!Armed : owner[t] = g}

\* Lua has registered its functions once the task LuaInit has run.
LuaReady(g) ==
  /\ rak[g] # "none"
  /\ ~Updating(g)
  /\ ~(restarting = g /\ step = "init")
  /\ LuaInit \notin ToSet(mTasks[g])

----------------------------------------------------------------------------
\* The RakNet thread of game g.

NextId(g) == IF taskId[g] = MaxId THEN 1 ELSE taskId[g] + 1

\* The object that new Task returns: the tasks not yet allocated are alike.
NewTask == CHOOSE t \in Task : idOf[t] = 0

\* Lua's AddEvent with a delay, Instance::AddTask: the scheduler has the task,
\* which may fire at once, and mEvents does not name it yet.
AddEvent(g, t) ==
  /\ LuaReady(g)
  /\ Timer!Add(t, NextId(g))
  /\ t = NewTask
  /\ taskId' = [taskId EXCEPT ![g] = NextId(g)]
  /\ owner' = [owner EXCEPT ![t] = g]
  /\ era' = [era EXCEPT ![t] = starts[g]]
  /\ inHand' = [inHand EXCEPT ![g] = t]
  /\ quiet' = {u \in quiet : idOf[u] # NextId(g)}
  /\ UNCHANGED <<mainVars, serverVars, mEvents, erasing, firing, down, called, lost, torn>>

\* What a change of mEvents does to a loop that goes through the set: what comes
\* or goes may take others with it.
MeetsStop(g, new) ==
  IF Walking(g)
  THEN todo' \in SUBSET (todo \cup new) /\ torn' = torn \cup Tears(g)
  ELSE UNCHANGED <<todo, torn>>

\* Mutant: AddTask does not note the identifier.
NotedWithout(g, i) == mEvents[g]

Noted(g, i) == mEvents[g] \cup {i}

\* mEvents.insert(id).
NoteEvent(g) ==
  /\ inHand[g] # NoTask
  /\ mEvents' = [mEvents EXCEPT ![g] = Noted(g, idOf[inHand[g]])]
  /\ MeetsStop(g, {idOf[inHand[g]]})
  /\ inHand' = [inHand EXCEPT ![g] = NoTask]
  /\ UNCHANGED <<timer, taskId, owner, era, starts, restarting, step, serverVars,
                 erasing, firing, down, called, lost, quiet>>

Named(i) == {t \in queued : idOf[t] = i}

\* Lua's StopEvent: Instance::CancelTask.  With an identifier that is neither
\* live nor noted it changes nothing.
StopEvent(g, i) ==
  /\ LuaReady(g)
  /\ i \in live \cup mEvents[g]
  /\ Timer!Cancel(i)
  /\ erasing' = [erasing EXCEPT ![g] = i]
  /\ quiet' = quiet \cup Named(i)
  /\ UNCHANGED <<taskId, owner, era, mainVars, serverVars, mEvents, inHand, firing,
                 down, called, lost, torn>>

\* mEvents.erase(id); the loop may stand on the element that goes.
EraseEvent(g) ==
  /\ erasing[g] # 0
  /\ mEvents' = [mEvents EXCEPT ![g] = @ \ {erasing[g]}]
  /\ IF erasing[g] \in mEvents[g] THEN MeetsStop(g, {}) ELSE UNCHANGED <<todo, torn>>
  /\ erasing' = [erasing EXCEPT ![g] = 0]
  /\ UNCHANGED <<timer, taskId, owner, era, starts, restarting, step, serverVars,
                 inHand, firing, down, called, lost, quiet>>

LockTasks(g) ==
  /\ rak[g] = "loop"
  /\ mRunning[g]
  /\ ~Updating(g)
  /\ rak' = [rak EXCEPT ![g] = "tasks"]
  /\ UNCHANGED <<timer, taskId, owner, era, mainVars, mRunning, mTasks, eventVars,
                 firing, down, history>>

\* The task Instance::Start posts: it creates the Lua functions.
CallInit(g) ==
  /\ rak[g] = "tasks"
  /\ ~Updating(g)
  /\ mTasks[g] # <<>>
  /\ Head(mTasks[g]) = LuaInit
  /\ mTasks' = [mTasks EXCEPT ![g] = Tail(@)]
  /\ UNCHANGED <<timer, taskId, owner, era, mainVars, mRunning, rak, eventVars,
                 firing, down, history>>

\* The callback of an event: game.CancelTask(id), then the Lua function.  The
\* identifier was spent when the event fired; cancelling it again reaches
\* whatever task was issued it since.
CallEvent(g) ==
  /\ rak[g] = "tasks"
  /\ ~Updating(g)
  /\ mTasks[g] # <<>>
  /\ Head(mTasks[g]) # LuaInit
  /\ LET t == Head(mTasks[g]) IN
       /\ Timer!Cancel(idOf[t])
       /\ erasing' = [erasing EXCEPT ![g] = idOf[t]]
       /\ quiet' = quiet \cup Named(idOf[t])
       /\ called' = called \cup {t}
  /\ mTasks' = [mTasks EXCEPT ![g] = Tail(@)]
  /\ UNCHANGED <<taskId, owner, era, mainVars, mRunning, rak, mEvents, inHand, firing,
                 down, lost, torn>>

UnlockTasks(g) ==
  /\ rak[g] = "tasks"
  /\ ~Updating(g)
  /\ mTasks[g] = <<>>
  /\ rak' = [rak EXCEPT ![g] = "loop"]
  /\ UNCHANGED <<timer, taskId, owner, era, mainVars, mRunning, mTasks, eventVars,
                 firing, down, history>>

\* is_running() is false: the thread ends.
Leave(g) ==
  /\ rak[g] = "loop"
  /\ ~mRunning[g]
  /\ ~Updating(g)
  /\ rak' = [rak EXCEPT ![g] = "none"]
  /\ UNCHANGED <<timer, taskId, owner, era, mainVars, mRunning, mTasks, eventVars,
                 firing, down, history>>

----------------------------------------------------------------------------
\* The scheduler's thread, which handles one due task at a time.

FireEvent(t) ==
  /\ firing = {}
  /\ Timer!Fire(t)
  /\ firing' = {t}
  /\ UNCHANGED <<taskId, owner, era, mainVars, serverVars, eventVars, down, history>>

DropEvent(t) ==
  /\ firing = {}
  /\ Timer!Drop(t)
  /\ UNCHANGED <<taskId, owner, era, mainVars, serverVars, eventVars, firing, down, history>>

\* Mutant: the callback is put into a copy of the queue.
PostedToCopy(t, q) == q

PostedBack(t, q) == Append(q, t)

NoServer(g) == restarting = g /\ step = "build"

\* The task's function: game.AddServerTask, which waits for mTaskMutex.
PostEvent(t) ==
  /\ t \in firing
  /\ ~NoServer(owner[t])
  /\ rak[owner[t]] # "tasks"
  /\ mTasks' = [mTasks EXCEPT ![owner[t]] = PostedBack(t, @)]
  /\ firing' = {}
  /\ UNCHANGED <<timer, taskId, owner, era, mainVars, mRunning, rak, eventVars, down, history>>

\* AddServerTask while mServer is null locks a mutex that is not there.
PostToNull(t) ==
  /\ t \in firing
  /\ NoServer(owner[t])
  /\ down' = TRUE
  /\ UNCHANGED <<timer, taskId, owner, era, mainVars, serverVars, eventVars, firing, history>>

----------------------------------------------------------------------------
\* Instance::Start on the main thread: Stop, then everything anew.

\* Stop begins to go through mEvents.
StartGame(g) ==
  /\ restarting = NoGame
  /\ starts[g] < MaxStart[g]
  /\ restarting' = g
  /\ step' = "cancel"
  /\ todo' = mEvents[g]
  /\ UNCHANGED <<timer, taskId, owner, era, starts, serverVars, eventVars, firing, down, history>>

\* Mutant: the loop does not cancel what it reaches.
CancelledNone(i) == {}

CancelledId(i) == {i}

\* One round of the loop, which takes the identifiers in order.
CancelEvent(g, i) ==
  /\ Walking(g)
  /\ i \in todo /\ \A j \in todo : i <= j
  /\ live' = live \ CancelledId(i)
  /\ quiet' = quiet \cup Named(i)
  /\ todo' = todo \ {i}
  /\ UNCHANGED <<queued, idOf, fired, open, taskId, owner, era, starts, restarting, step,
                 serverVars, eventVars, firing, down, called, lost, torn>>

\* mEvents.clear(), which an update in progress may tear.
ClearEvents(g) ==
  /\ Walking(g)
  /\ todo = {}
  /\ IF Updating(g)
     THEN /\ \E left \in SUBSET mEvents[g] : mEvents' = [mEvents EXCEPT ![g] = left]
          /\ torn' = torn \cup Tears(g)
     ELSE mEvents' = [mEvents EXCEPT ![g] = {}] /\ UNCHANGED torn
  /\ starts' = [starts EXCEPT ![g] = @ + 1]
  /\ step' = "stop"
  /\ UNCHANGED <<timer, taskId, owner, era, restarting, todo, serverVars, inHand, erasing,
                 firing, down, called, lost, quiet>>

\* Mutant: mRunning is left set.
StoppedNot(g) == mRunning[g]

Stopped(g) == FALSE

StopServer(g) ==
  /\ restarting = g
  /\ step = "stop"
  /\ mRunning' = [mRunning EXCEPT ![g] = Stopped(g)]
  /\ step' = "join"
  /\ UNCHANGED <<timer, taskId, owner, era, starts, restarting, todo, rak, mTasks, eventVars,
                 firing, down, history>>

\* The RakNet thread has ended; server, Lua and objects are destroyed.  When the
\* scheduler's thread has read mServer and is about to post, its post is lost
\* with the server's memory or breaks it.
JoinServer(g) ==
  /\ restarting = g
  /\ step = "join"
  /\ rak[g] = "none"
  /\ mTasks' = [mTasks EXCEPT ![g] = <<>>]
  /\ step' = "build"
  /\ \/ UNCHANGED <<firing, down>>
     \/ /\ \E t \in firing : owner[t] = g
        /\ firing' = {}
        /\ down' \in BOOLEAN
  /\ lost' = lost \cup ((ToSet(mTasks[g]) \cup firing) \ ({LuaInit} \cup firing'))
  /\ UNCHANGED <<timer, taskId, owner, era, starts, restarting, todo, mRunning, rak, eventVars,
                 called, quiet, torn>>

\* The thread ends at once when RakNet cannot open its port.
BuildServer(g) ==
  /\ restarting = g
  /\ step = "build"
  /\ mRunning' = [mRunning EXCEPT ![g] = TRUE]
  /\ \E place \in {"loop", "none"} : rak' = [rak EXCEPT ![g] = place]
  /\ taskId' = [taskId EXCEPT ![g] = 0]
  /\ step' = "init"
  /\ UNCHANGED <<timer, owner, era, starts, restarting, todo, mTasks, eventVars, firing, down,
                 history>>

\* The new thread runs already when the main thread posts LuaInit.
PostInit(g) ==
  /\ restarting = g
  /\ step = "init"
  /\ rak[g] # "tasks"
  /\ mTasks' = [mTasks EXCEPT ![g] = Append(@, LuaInit)]
  /\ restarting' = NoGame
  /\ step' = "idle"
  /\ UNCHANGED <<timer, taskId, owner, era, starts, todo, mRunning, rak, eventVars,
                 firing, down, history>>

----------------------------------------------------------------------------
RakNetThread(g) ==
  LockTasks(g) \/ CallInit(g) \/ CallEvent(g) \/ UnlockTasks(g) \/ Leave(g)

Update(g) == NoteEvent(g) \/ EraseEvent(g)

Lua(g) ==
  \/ \E t \in Task : AddEvent(g, t)
  \/ \E i \in TaskId : StopEvent(g, i)

SchedulerThread ==
  \E t \in Task : FireEvent(t) \/ DropEvent(t) \/ PostEvent(t) \/ PostToNull(t)

MainThread(g) ==
  \/ \E i \in TaskId : CancelEvent(g, i)
  \/ ClearEvents(g) \/ StopServer(g) \/ JoinServer(g)
  \/ BuildServer(g) \/ PostInit(g)

Next ==
  /\ ~down
  /\ \/ \E g \in Game : RakNetThread(g) \/ Update(g) \/ Lua(g) \/ StartGame(g) \/ MainThread(g)
     \/ SchedulerThread

Spec == Init /\ [][Next]_vars

(***************************************************************************)
(* Every thread keeps running, and a Lua function returns after finitely   *)
(* many calls of StopEvent.  The RakNet thread sleeps a millisecond in     *)
(* each round with mTaskMutex free, so the scheduler's and the main thread *)
(* get it when they wait for it: fairness is strong but for what a thread  *)
(* does in any case, its own update of mEvents.                            *)
(***************************************************************************)
FairSpec ==
  /\ Spec
  /\ \A g \in Game :
       /\ WF_vars(~down /\ Update(g))
       /\ SF_vars(~down /\ RakNetThread(g))
  /\ SF_vars(~down /\ \E g \in Game : MainThread(g))
  /\ SF_vars(~down /\ SchedulerThread)

----------------------------------------------------------------------------
Posted == {t \in Task : owner[t] # NoGame /\ t \in ToSet(mTasks[owner[t]])}

\* No other event was ever given t's identifier.
Alone(t) == \A u \in Task : idOf[u] = idOf[t] => u = t

\* An event that StopEvent or Instance::Stop cancelled while it was queued is
\* never fired, posted or called, unless its identifier is issued again before
\* it is due: a cancelled identifier stays dead, in whatever thread it was made.
QuietStaysQuiet == quiet \cap (firing \cup Posted \cup called) = {}

InHand(t) == inHand[owner[t]] = t

\* Instance::Start silences the game's earlier events: one that can still fire
\* was added after Stop had cleared mEvents, or shares its identifier with
\* another, or could fire at a moment when both threads used mEvents.
StopSilences ==
  \A t \in Timer!Armed : Alone(t) /\ t \notin torn => era[t] = starts[owner[t]]

\* An event that can still fire is in the mEvents of its game, where the next
\* Instance::Stop finds it, or AddTask is about to note it; also the one added
\* while the game was stopping.  The same events are exempt.
EventsTracked ==
  \A t \in Timer!Armed : Alone(t) /\ t \notin torn =>
    InHand(t) \/ idOf[t] \in mEvents[owner[t]]

\* Every event that fires has its callback called by the RakNet thread, unless
\* the callback goes with a server that Start destroys, the game has no such
\* thread, or the start of some game brings the program down.
FiredIsCalled ==
  []<>(down \/ \A t \in fired : t \in called \cup lost \/ rak[owner[t]] = "none")

\* Instance::Start returns: the loop over mEvents ends and the RakNet thread it
\* joins runs out of server tasks and sees mRunning, while the scheduler goes on
\* posting to it; or a post to the server it replaces brings the program down.
StartCompletes == []<>(restarting = NoGame \/ down)
=============================================================================

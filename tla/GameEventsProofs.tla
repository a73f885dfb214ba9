-------------------------- MODULE GameEventsProofs ---------------------------
(***************************************************************************)
(* Theorems about GameEvents for any number of games and events, any width *)
(* of the identifier and any number of restarts.                           *)
(*                                                                         *)
(* An event passes from the scheduler's queue to its thread, to the server *)
(* tasks of its game and to Lua, and never back.  IInv says where an event *)
(* can be at all, that a cancelled one keeps a dead identifier, and of one *)
(* that can still fire where its identifier is: noted, about to be noted,  *)
(* not about to be erased, and ahead of the loop of Instance::Stop.        *)
(***************************************************************************)
EXTENDS GameEvents, SequenceLemmas

ServerTasks(g) == ToSet(mTasks[g])

\* An event has an identifier and a game as soon as it was added.
EventsAreOwned == \A t \in Task : idOf[t] # 0 <=> owner[t] # NoGame

\* What is queued was not fired, and what was posted or called was.
OneWay ==
  /\ \A t \in queued \cup fired \cup quiet : idOf[t] # 0
  /\ queued \cap fired = {}
  /\ firing \cup called \subseteq fired

\* An event is posted to the server of the game that added it.
PostedAtHome ==
  \A g \in Game : \A t \in ServerTasks(g) \ {LuaInit} : t \in fired /\ owner[t] = g

QuietIsDead == \A t \in quiet : idOf[t] \notin live

\* Of an event that can still fire, shares its identifier with no other and did
\* not see both threads use mEvents.
SoundEvent(t) ==
  /\ era[t] = starts[owner[t]]
  /\ InHand(t) \/ idOf[t] \in mEvents[owner[t]]
  /\ idOf[t] # erasing[owner[t]]
  /\ Walking(owner[t]) => InHand(t) \/ idOf[t] \in todo

EventsAreSound == \A t \in Timer!Armed : Alone(t) /\ t \notin torn => SoundEvent(t)

IInv ==
  /\ TypeOK
  /\ EventsAreOwned
  /\ OneWay
  /\ PostedAtHome
  /\ QuietIsDead
  /\ QuietStaysQuiet
  /\ EventsAreSound

----------------------------------------------------------------------------
USE DEF TaskId, timer, mainVars, serverVars, eventVars, history

LEMMA InitIInv == Init => IInv
<1> SUFFICES ASSUME Init PROVE IInv
  OBVIOUS
<1>1. queued = {} /\ live = {} /\ fired = {} /\ idOf = [t \in Task |-> 0]
  BY DEF Init, Timer!Init
<1>2. mRunning \in [Game -> BOOLEAN]
  BY DEF Init
<1>3. mTasks \in [Game -> Seq(Task \cup {LuaInit})] /\ \A g \in Game : ServerTasks(g) = {}
  BY DEF Init, ServerTasks, ToSet
<1>4. 0 \in 0..MaxId
  BY GameEventsAssumption
<1>5. TypeOK
  BY <1>1, <1>2, <1>3, <1>4 DEF Init, TypeOK, RakPlace, StartStep
<1>6. EventsAreOwned /\ OneWay /\ PostedAtHome /\ QuietIsDead
  BY <1>1, <1>3 DEF Init, EventsAreOwned, OneWay, PostedAtHome, QuietIsDead
<1>7. QuietStaysQuiet /\ EventsAreSound
  BY <1>1 DEF Init, QuietStaysQuiet, EventsAreSound, Timer!Armed
<1> QED BY <1>5, <1>6, <1>7 DEF IInv

\* What is in the hands of a thread was fired, and is nobody's that is quiet.
LEMMA PostedIsFired ==
  ASSUME IInv
  PROVE  /\ Posted \subseteq fired
         /\ \A g \in Game : ServerTasks(g) \cap Task \subseteq Posted \cup {LuaInit}
<1>1. \A t \in Task : t # LuaInit
  BY GameEventsAssumption
<1>2. \A t \in Task : owner[t] # NoGame => owner[t] \in Game
  BY DEF IInv, TypeOK
<1>3. \A g \in Game : \A t \in ServerTasks(g) \ {LuaInit} : t \in fired /\ owner[t] = g
  BY DEF IInv, PostedAtHome
<1>4. Posted = {t \in Task : owner[t] # NoGame /\ t \in ServerTasks(owner[t])}
  BY DEF Posted, ServerTasks
<1> QED BY <1>1, <1>2, <1>3, <1>4, GameEventsAssumption

\* A step that moves no event keeps the sound ones sound when it keeps what is
\* said of each.
LEMMA SoundFrame ==
  ASSUME IInv, UNCHANGED <<idOf, owner>>, Timer!Armed' \subseteq Timer!Armed, torn \subseteq torn',
         \A t \in Timer!Armed' \ torn' :
           owner[t] \in Game /\ idOf[t] # 0 /\ SoundEvent(t) => SoundEvent(t)'
  PROVE  EventsAreSound'
<1> SUFFICES ASSUME NEW t \in Timer!Armed', Alone(t)', t \notin torn'
             PROVE  SoundEvent(t)'
  BY Zenon DEF EventsAreSound
<1>1. t \in Timer!Armed /\ t \notin torn
  OBVIOUS
<1>2. Alone(t)
  BY DEF Alone
<1>3. SoundEvent(t)
  BY <1>1, <1>2, Zenon DEF IInv, EventsAreSound
<1>4. owner[t] \in Game /\ idOf[t] # 0
  BY <1>1 DEF IInv, TypeOK, OneWay, EventsAreOwned, Timer!Armed
<1> QED BY <1>3, <1>4

\* What SoundFrame asks of a step that only takes events away from the scheduler.
LEMMA SameEvents ==
  ASSUME IInv, UNCHANGED <<idOf, owner, era, starts, restarting, step, todo, eventVars, torn>>,
         Timer!Armed' \subseteq Timer!Armed
  PROVE  EventsAreSound'
<1>1. \A t : SoundEvent(t) => SoundEvent(t)'
  BY DEF SoundEvent, InHand, Walking
<1> QED BY <1>1, SoundFrame

\* Taking events off a server's tasks, or posting LuaInit, moves no event on.
LEMMA TasksInv ==
  ASSUME IInv, TypeOK', UNCHANGED <<timer, owner, called, quiet>>, EventsAreSound',
         firing' \subseteq firing,
         \A g \in Game : ServerTasks(g)' \subseteq ServerTasks(g) \cup {LuaInit}
  PROVE  IInv'
<1>1. (EventsAreOwned /\ OneWay /\ QuietIsDead)'
  BY DEF IInv, EventsAreOwned, OneWay, QuietIsDead
<1>2. PostedAtHome'
  BY DEF IInv, PostedAtHome
<1>3. QuietStaysQuiet'
  <2>1. Posted = {t \in Task : owner[t] # NoGame /\ t \in ServerTasks(owner[t])}
        /\ Posted' = {t \in Task : owner[t] # NoGame /\ t \in ServerTasks(owner[t])'}
    BY DEF Posted, ServerTasks
  <2>2. Posted' \subseteq Posted
    BY <2>1, GameEventsAssumption DEF IInv, TypeOK
  <2> QED BY <2>2 DEF IInv, QuietStaysQuiet
<1> QED BY <1>1, <1>2, <1>3 DEF IInv

LEMMA LockTasksInv ==
  ASSUME IInv, NEW g \in Game, LockTasks(g)
  PROVE  IInv'
<1>1. TypeOK'
  BY DEF IInv, TypeOK, LockTasks, RakPlace
<1>2. EventsAreSound'
  BY SameEvents DEF LockTasks, Timer!Armed
<1> QED BY <1>1, <1>2, TasksInv DEF LockTasks, ServerTasks

LEMMA UnlockTasksInv ==
  ASSUME IInv, NEW g \in Game, UnlockTasks(g)
  PROVE  IInv'
<1>1. TypeOK'
  BY DEF IInv, TypeOK, UnlockTasks, RakPlace
<1>2. EventsAreSound'
  BY SameEvents DEF UnlockTasks, Timer!Armed
<1> QED BY <1>1, <1>2, TasksInv DEF UnlockTasks, ServerTasks

LEMMA LeaveInv ==
  ASSUME IInv, NEW g \in Game, Leave(g)
  PROVE  IInv'
<1>1. TypeOK'
  BY DEF IInv, TypeOK, Leave, RakPlace
<1>2. EventsAreSound'
  BY SameEvents DEF Leave, Timer!Armed
<1> QED BY <1>1, <1>2, TasksInv DEF Leave, ServerTasks

LEMMA StartGameInv ==
  ASSUME IInv, NEW g \in Game, StartGame(g)
  PROVE  IInv'
<1>1. TypeOK'
  BY DEF IInv, TypeOK, StartGame, StartStep
<1>2. EventsAreSound'
  <2>1. \A t \in Timer!Armed' \ torn' : SoundEvent(t) => SoundEvent(t)'
    BY DEF StartGame, SoundEvent, InHand, Walking
  <2> QED BY <2>1, SoundFrame DEF StartGame, Timer!Armed
<1> QED BY <1>1, <1>2, TasksInv DEF StartGame, ServerTasks

\* Past the loop of Stop, a step of Start moves no event.
LEMMA LaterSteps ==
  ASSUME IInv, UNCHANGED <<timer, owner, era, starts, eventVars, torn>>, step' # "cancel"
  PROVE  EventsAreSound'
<1>1. \A t : SoundEvent(t) => SoundEvent(t)'
  BY DEF SoundEvent, InHand, Walking
<1> QED BY <1>1, SoundFrame DEF Timer!Armed

LEMMA StopServerInv ==
  ASSUME IInv, NEW g \in Game, StopServer(g)
  PROVE  IInv'
<1>1. mRunning' \in [Game -> BOOLEAN]
  BY Zenon DEF IInv, TypeOK, StopServer, Stopped
<1>2. TypeOK'
  BY <1>1 DEF IInv, TypeOK, StopServer, StartStep
<1>3. EventsAreSound'
  BY LaterSteps DEF StopServer
<1> QED BY <1>2, <1>3, TasksInv DEF StopServer, ServerTasks

LEMMA BuildServerInv ==
  ASSUME IInv, NEW g \in Game, BuildServer(g)
  PROVE  IInv'
<1>1. mRunning' \in [Game -> BOOLEAN]
  BY Zenon DEF IInv, TypeOK, BuildServer
<1>2. TypeOK'
  BY <1>1, GameEventsAssumption DEF IInv, TypeOK, BuildServer, StartStep, RakPlace
<1>3. EventsAreSound'
  BY LaterSteps DEF BuildServer
<1> QED BY <1>2, <1>3, TasksInv DEF BuildServer, ServerTasks

LEMMA JoinServerInv ==
  ASSUME IInv, NEW g \in Game, JoinServer(g)
  PROVE  IInv'
<1>1. mTasks' = [mTasks EXCEPT ![g] = <<>>] /\ mTasks \in [Game -> Seq(Task \cup {LuaInit})]
  BY DEF IInv, TypeOK, JoinServer
<1>2. \A h \in Game : ServerTasks(h)' \subseteq ServerTasks(h)
  BY <1>1 DEF ServerTasks, ToSet
<1>3. firing' \subseteq firing /\ down' \in BOOLEAN
  BY Zenon DEF IInv, TypeOK, JoinServer
<1>4. TypeOK'
  <2>1. ToSet(mTasks[g]) \subseteq Task \cup {LuaInit}
    BY <1>1 DEF ToSet
  <2>2. lost' \subseteq Task
    BY <2>1 DEF IInv, TypeOK, JoinServer
  <2> QED BY <1>1, <1>3, <2>2 DEF IInv, TypeOK, JoinServer, StartStep
<1>5. EventsAreSound'
  BY LaterSteps DEF JoinServer
<1> QED BY <1>2, <1>3, <1>4, <1>5, TasksInv DEF JoinServer

LEMMA PostInitInv ==
  ASSUME IInv, NEW g \in Game, PostInit(g)
  PROVE  IInv'
<1>1. /\ mTasks' = [mTasks EXCEPT ![g] = Append(mTasks[g], LuaInit)]
      /\ mTasks \in [Game -> Seq(Task \cup {LuaInit})]
  BY DEF IInv, TypeOK, PostInit
<1>2. ToSet(Append(mTasks[g], LuaInit)) = ServerTasks(g) \cup {LuaInit}
  BY <1>1, AppendSet DEF ServerTasks
<1>3. \A h \in Game : ServerTasks(h)' \subseteq ServerTasks(h) \cup {LuaInit}
  BY <1>1, <1>2 DEF ServerTasks
<1>4. mTasks' \in [Game -> Seq(Task \cup {LuaInit})]
  BY <1>1
<1>5. TypeOK'
  BY <1>4 DEF IInv, TypeOK, PostInit, StartStep
<1>6. EventsAreSound'
  BY LaterSteps DEF PostInit
<1> QED BY <1>3, <1>5, <1>6, TasksInv DEF PostInit

LEMMA CallInitInv ==
  ASSUME IInv, NEW g \in Game, CallInit(g)
  PROVE  IInv'
<1>1. /\ mTasks' = [mTasks EXCEPT ![g] = Tail(mTasks[g])] /\ mTasks[g] # <<>>
      /\ mTasks \in [Game -> Seq(Task \cup {LuaInit})]
  BY DEF IInv, TypeOK, CallInit
<1>2. ToSet(Tail(mTasks[g])) \subseteq ServerTasks(g) /\ Tail(mTasks[g]) \in Seq(Task \cup {LuaInit})
  BY <1>1, TailSet DEF ServerTasks
<1>3. \A h \in Game : ServerTasks(h)' \subseteq ServerTasks(h) \cup {LuaInit}
  BY <1>1, <1>2 DEF ServerTasks
<1>4. TypeOK'
  BY <1>1, <1>2 DEF IInv, TypeOK, CallInit
<1>5. EventsAreSound'
  BY SameEvents DEF CallInit, Timer!Armed
<1> QED BY <1>3, <1>4, <1>5, TasksInv DEF CallInit

\* Cancelling one identifier in the scheduler, on the way to erasing it.
LEMMA CancelOne ==
  ASSUME IInv, NEW g \in Game, NEW i \in 0..MaxId, live' = live \ {i},
         erasing' = [erasing EXCEPT ![g] = i], quiet' = quiet \cup Named(i),
         UNCHANGED <<queued, idOf, fired, owner, era, starts, restarting, step, todo,
                     mEvents, inHand, torn>>
  PROVE  /\ QuietIsDead' /\ EventsAreSound'
         /\ \A t \in quiet' : idOf[t] # 0
         /\ live' \subseteq TaskId /\ erasing' \in [Game -> 0..MaxId]
         /\ quiet' \subseteq Task /\ quiet' \subseteq quiet \cup queued
<1>1. QuietIsDead'
  BY DEF IInv, QuietIsDead, Named
<1>2. Timer!Armed' \subseteq Timer!Armed \ {t \in queued : idOf[t] = i}
  BY DEF Timer!Armed
<1>3. erasing' \in [Game -> 0..MaxId] /\ \A h \in Game : erasing'[h] = erasing[h] \/ erasing'[h] = i
  BY DEF IInv, TypeOK
<1>4. EventsAreSound'
  <2>1. ASSUME NEW t \in Timer!Armed' \ torn', owner[t] \in Game, SoundEvent(t)
        PROVE  SoundEvent(t)'
    <3>1. idOf'[t] # erasing'[owner'[t]]
      BY <1>2, <1>3, <2>1 DEF SoundEvent, Timer!Armed
    <3> QED BY <2>1, <3>1 DEF SoundEvent, InHand, Walking
  <2> QED BY <1>2, <2>1, SoundFrame
<1>5. (\A t \in quiet' : idOf[t] # 0) /\ quiet' \subseteq Task /\ quiet' \subseteq quiet \cup queued
  BY DEF IInv, TypeOK, OneWay, Named
<1>6. live' \subseteq TaskId
  BY DEF IInv, TypeOK
<1> QED BY <1>1, <1>3, <1>4, <1>5, <1>6

LEMMA StopEventInv ==
  ASSUME IInv, NEW g \in Game, NEW i \in TaskId, StopEvent(g, i)
  PROVE  IInv'
<1>1. /\ live' = live \ {i} /\ erasing' = [erasing EXCEPT ![g] = i]
      /\ quiet' = quiet \cup Named(i)
      /\ UNCHANGED <<queued, idOf, fired, owner, era, starts, restarting, step, todo,
                     mEvents, inHand, torn>>
      /\ UNCHANGED <<taskId, mRunning, rak, mTasks, firing, down, called, lost>>
  BY DEF StopEvent, Timer!Cancel
<1>2. i \in 0..MaxId
  BY GameEventsAssumption
<1>3. /\ QuietIsDead' /\ EventsAreSound'
      /\ \A t \in quiet' : idOf[t] # 0
      /\ live' \subseteq TaskId /\ erasing' \in [Game -> 0..MaxId]
      /\ quiet' \subseteq Task /\ quiet' \subseteq quiet \cup queued
  BY <1>1, <1>2, CancelOne
<1>4. TypeOK'
  BY <1>1, <1>3 DEF IInv, TypeOK
<1>5. (EventsAreOwned /\ OneWay /\ PostedAtHome)'
  BY <1>1, <1>3 DEF IInv, EventsAreOwned, OneWay, PostedAtHome, ServerTasks
<1>6. QuietStaysQuiet'
  <2>1. Posted' = Posted
    BY <1>1 DEF Posted
  <2> QED BY <1>1, <1>3, <2>1, PostedIsFired DEF IInv, OneWay, QuietStaysQuiet
<1> QED BY <1>3, <1>4, <1>5, <1>6 DEF IInv

LEMMA CallEventInv ==
  ASSUME IInv, NEW g \in Game, CallEvent(g)
  PROVE  IInv'
<1> DEFINE t == Head(mTasks[g])
           i == idOf[t]
<1>1. /\ live' = live \ {i} /\ erasing' = [erasing EXCEPT ![g] = i]
      /\ quiet' = quiet \cup Named(i)
      /\ UNCHANGED <<queued, idOf, fired, owner, era, starts, restarting, step, todo,
                     mEvents, inHand, torn>>
      /\ UNCHANGED <<taskId, mRunning, rak, firing, down, lost>>
  BY DEF CallEvent, Timer!Cancel
<1>2. /\ mTasks' = [mTasks EXCEPT ![g] = Tail(mTasks[g])]
      /\ mTasks[g] # <<>> /\ t # LuaInit /\ called' = called \cup {t}
  BY DEF CallEvent
<1>3. /\ mTasks \in [Game -> Seq(Task \cup {LuaInit})]
      /\ Tail(mTasks[g]) \in Seq(Task \cup {LuaInit})
      /\ ServerTasks(g) = {t} \cup ToSet(Tail(mTasks[g])) /\ t \in Task
  BY <1>2, TailSet DEF IInv, TypeOK, ServerTasks
<1>4. \A h \in Game : ServerTasks(h)' \subseteq ServerTasks(h)
  BY <1>2, <1>3 DEF ServerTasks
<1>5. t \in fired /\ owner[t] = g
  BY <1>2, <1>3 DEF IInv, PostedAtHome
<1>6. t \in Posted
  BY <1>3, <1>5, GameEventsAssumption DEF Posted, ServerTasks
<1>7. i \in 0..MaxId
  BY <1>3 DEF IInv, TypeOK
<1> HIDE DEF i, t
<1>8. /\ QuietIsDead' /\ EventsAreSound'
      /\ \A u \in quiet' : idOf[u] # 0
      /\ live' \subseteq TaskId /\ erasing' \in [Game -> 0..MaxId]
      /\ quiet' \subseteq Task /\ quiet' \subseteq quiet \cup queued
  BY <1>1, <1>7, CancelOne
<1>9. TypeOK'
  BY <1>1, <1>2, <1>3, <1>8 DEF IInv, TypeOK
<1>10. (EventsAreOwned /\ OneWay /\ PostedAtHome)'
  BY <1>1, <1>2, <1>4, <1>5, <1>8 DEF IInv, EventsAreOwned, OneWay, PostedAtHome
<1>11. QuietStaysQuiet'
  <2>1. /\ Posted = {u \in Task : owner[u] # NoGame /\ u \in ServerTasks(owner[u])}
        /\ Posted' = {u \in Task : owner[u] # NoGame /\ u \in ServerTasks(owner[u])'}
    BY <1>1 DEF Posted, ServerTasks
  <2>2. \A u \in Task : owner[u] # NoGame => owner[u] \in Game
    BY DEF IInv, TypeOK
  <2>3. ASSUME NEW u \in Posted' PROVE u \in Posted
    <3>1. u \in Task /\ owner[u] # NoGame /\ u \in ServerTasks(owner[u])'
      BY <2>1
    <3>2. u \in ServerTasks(owner[u])
      BY <1>1, <1>4, <2>2, <3>1
    <3> QED BY <2>1, <3>1, <3>2
  <2> QED BY <1>1, <1>2, <1>6, <1>8, <2>3, PostedIsFired DEF IInv, OneWay, QuietStaysQuiet
<1> QED BY <1>8, <1>9, <1>10, <1>11 DEF IInv

LEMMA AddEventInv ==
  ASSUME IInv, NEW g \in Game, NEW t \in Task, AddEvent(g, t)
  PROVE  IInv'
<1> DEFINE i == NextId(g)
<1>1. /\ idOf[t] = 0 /\ idOf' = [idOf EXCEPT ![t] = i] /\ queued' = queued \cup {t}
      /\ live' = live \cup {i} /\ taskId' = [taskId EXCEPT ![g] = i]
      /\ owner' = [owner EXCEPT ![t] = g] /\ era' = [era EXCEPT ![t] = starts[g]]
      /\ inHand' = [inHand EXCEPT ![g] = t] /\ inHand[g] = NoTask /\ erasing[g] = 0
      /\ quiet' = {u \in quiet : idOf[u] # i}
      /\ UNCHANGED <<fired, starts, restarting, step, todo, mRunning, rak, mTasks, mEvents,
                     erasing, firing, down, called, lost, torn>>
  BY DEF AddEvent, Timer!Add, LuaReady, Updating
<1>2. /\ i \in TaskId /\ i # 0 /\ i \in 0..MaxId
      /\ idOf \in [Task -> 0..MaxId] /\ owner \in [Task -> Game \cup {NoGame}]
      /\ era \in [Task -> Nat] /\ starts \in [Game -> Nat]
      /\ inHand \in [Game -> Task \cup {NoTask}]
  <2>1. taskId[g] \in 0..MaxId
    BY DEF IInv, TypeOK
  <2>2. i \in TaskId /\ i # 0 /\ i \in 0..MaxId
    BY <2>1, GameEventsAssumption DEF NextId
  <2> HIDE DEF i
  <2> QED BY <2>2 DEF IInv, TypeOK
<1> HIDE DEF i
<1>3. t \notin queued /\ t \notin fired /\ t \notin quiet /\ owner[t] = NoGame
  BY <1>1 DEF IInv, OneWay, EventsAreOwned
<1>4. TypeOK'
  BY <1>1, <1>2 DEF IInv, TypeOK
<1>5. (EventsAreOwned /\ OneWay)'
  BY <1>1, <1>2, <1>3, GameEventsAssumption DEF IInv, EventsAreOwned, OneWay
<1>6. PostedAtHome'
  BY <1>1, <1>2, <1>3 DEF IInv, PostedAtHome, ServerTasks
<1>7. QuietIsDead'
  BY <1>1, <1>2, <1>3 DEF IInv, TypeOK, QuietIsDead
<1>8. QuietStaysQuiet'
  <2>1. Posted' \subseteq Posted \cup {t}
    BY <1>1, <1>2 DEF Posted
  <2> QED BY <1>1, <1>3, <2>1 DEF IInv, QuietStaysQuiet
<1>9. EventsAreSound'
  <2> SUFFICES ASSUME NEW u \in Timer!Armed', Alone(u)', u \notin torn'
               PROVE  SoundEvent(u)'
    BY Zenon DEF EventsAreSound
  <2>1. CASE u = t
    BY <1>1, <1>2, <2>1, GameEventsAssumption DEF SoundEvent, InHand
  <2>2. CASE u # t
    <3>1. u \in queued /\ idOf'[u] = idOf[u] /\ u \in Task /\ idOf[u] # 0 /\ idOf'[u] \in live'
      BY <1>1, <1>2, <2>2 DEF Timer!Armed, IInv, TypeOK, OneWay
    <3>2. idOf[u] # i
      BY <1>1, <1>2, <2>2, <3>1 DEF Alone
    <3>3. u \in Timer!Armed
      BY <1>1, <3>1, <3>2 DEF Timer!Armed
    <3>4. Alone(u)
      BY <1>1, <1>2, <2>2, <3>1 DEF Alone
    <3>5. SoundEvent(u)
      BY <1>1, <3>3, <3>4, Zenon DEF IInv, EventsAreSound
    <3>6. owner[u] \in Game
      BY <1>2, <3>1 DEF IInv, EventsAreOwned
    <3>7. era'[u] = era[u] /\ owner'[u] = owner[u]
      BY <1>1, <1>2, <2>2, <3>1
    <3>8. InHand(u) => InHand(u)'
      BY <1>1, <1>2, <3>1, <3>6, <3>7, GameEventsAssumption DEF InHand
    <3> QED BY <1>1, <3>1, <3>5, <3>7, <3>8 DEF SoundEvent, Walking
  <2> QED BY <2>1, <2>2
<1> QED BY <1>4, <1>5, <1>6, <1>7, <1>8, <1>9 DEF IInv

\* A step that leaves alone all but mEvents, its loop and the events torn by it.
LEMMA NotesInv ==
  ASSUME IInv, TypeOK', EventsAreSound', live' \subseteq live,
         quiet' \subseteq quiet \cup {t \in queued : idOf[t] \notin live'},
         UNCHANGED <<queued, idOf, fired, owner, mTasks, firing, called>>
  PROVE  IInv'
<1>1. (EventsAreOwned /\ PostedAtHome)'
  BY DEF IInv, EventsAreOwned, PostedAtHome, ServerTasks
<1>2. (OneWay /\ QuietIsDead)'
  BY DEF IInv, OneWay, QuietIsDead
<1>3. QuietStaysQuiet'
  <2>1. Posted' = Posted
    BY DEF Posted
  <2> QED BY <2>1, PostedIsFired DEF IInv, OneWay, QuietStaysQuiet
<1> QED BY <1>1, <1>2, <1>3 DEF IInv

LEMMA NoteEventInv ==
  ASSUME IInv, NEW g \in Game, NoteEvent(g)
  PROVE  IInv'
<1> DEFINE i == idOf[inHand[g]]
<1>1. /\ inHand[g] \in Task /\ i \in 0..MaxId
      /\ mEvents' = [mEvents EXCEPT ![g] = mEvents[g] \cup {i}]
      /\ inHand' = [inHand EXCEPT ![g] = NoTask]
      /\ UNCHANGED <<timer, taskId, owner, era, starts, restarting, step, serverVars,
                     erasing, firing, down, called, lost, quiet>>
  BY DEF IInv, TypeOK, NoteEvent, Noted
<1>2. /\ todo' \subseteq todo \cup {i} /\ torn \subseteq torn' /\ torn' \subseteq torn \cup Tears(g)
      /\ ~Walking(g) => UNCHANGED <<todo, torn>>
      /\ Walking(g) => torn' = torn \cup Tears(g)
  BY DEF NoteEvent, MeetsStop
<1> HIDE DEF i
<1>3. TypeOK'
  BY <1>1, <1>2 DEF IInv, TypeOK, Tears, Timer!Armed
<1>4. EventsAreSound'
  <2>1. Timer!Armed' = Timer!Armed
    BY <1>1 DEF Timer!Armed
  <2>2. ASSUME NEW t \in Timer!Armed' \ torn', owner[t] \in Game, SoundEvent(t)
        PROVE  SoundEvent(t)'
    <3>1. CASE owner[t] = g
      <4>1. ~Walking(g)
        BY <1>2, <2>1, <2>2, <3>1 DEF Tears
      <4>2. idOf[t] \in mEvents'[g]
        BY <1>1, <2>2, <3>1 DEF SoundEvent, InHand, i, IInv, TypeOK
      <4> QED BY <1>1, <2>2, <3>1, <4>1, <4>2 DEF SoundEvent, Walking
    <3>2. CASE owner[t] # g
      <4>1. mEvents'[owner[t]] = mEvents[owner[t]] /\ inHand'[owner[t]] = inHand[owner[t]]
        BY <1>1, <2>2, <3>2 DEF IInv, TypeOK
      <4>2. Walking(owner[t]) => todo' = todo
        BY <1>2, <3>2 DEF Walking
      <4> QED BY <1>1, <2>2, <4>1, <4>2 DEF SoundEvent, InHand, Walking
    <3> QED BY <3>1, <3>2
  <2> QED BY <1>1, <1>2, <2>1, <2>2, SoundFrame
<1> QED BY <1>1, <1>3, <1>4, NotesInv

LEMMA EraseEventInv ==
  ASSUME IInv, NEW g \in Game, EraseEvent(g)
  PROVE  IInv'
<1>1. /\ mEvents' = [mEvents EXCEPT ![g] = mEvents[g] \ {erasing[g]}]
      /\ erasing' = [erasing EXCEPT ![g] = 0]
      /\ UNCHANGED <<timer, taskId, owner, era, starts, restarting, step, serverVars,
                     inHand, firing, down, called, lost, quiet>>
  BY DEF EraseEvent
<1>2. /\ todo' \subseteq todo /\ torn \subseteq torn' /\ torn' \subseteq torn \cup Tears(g)
      /\ ~Walking(g) => UNCHANGED <<todo, torn>>
      /\ UNCHANGED todo \/ torn' = torn \cup Tears(g)
  BY DEF EraseEvent, MeetsStop
<1>3. TypeOK'
  <2>1. torn' \subseteq Task
    BY <1>2 DEF IInv, TypeOK, Tears, Timer!Armed
  <2>2. erasing' \in [Game -> 0..MaxId] /\ mEvents' \in [Game -> SUBSET (0..MaxId)]
    BY <1>1, GameEventsAssumption DEF IInv, TypeOK
  <2> QED BY <1>1, <1>2, <2>1, <2>2 DEF IInv, TypeOK
<1>4. EventsAreSound'
  <2>1. Timer!Armed' = Timer!Armed
    BY <1>1 DEF Timer!Armed
  <2>2. ASSUME NEW t \in Timer!Armed' \ torn', owner[t] \in Game, idOf[t] # 0, SoundEvent(t)
        PROVE  SoundEvent(t)'
    <3>1. CASE owner[t] = g
      <4>1. UNCHANGED todo
        BY <1>2, <2>1, <2>2, <3>1 DEF Tears
      <4>2. idOf[t] # erasing'[g] /\ (idOf[t] \in mEvents[g] => idOf[t] \in mEvents'[g])
        BY <1>1, <2>2, <3>1 DEF SoundEvent, IInv, TypeOK
      <4> QED BY <1>1, <2>2, <3>1, <4>1, <4>2 DEF SoundEvent, InHand, Walking
    <3>2. CASE owner[t] # g
      <4>1. mEvents'[owner[t]] = mEvents[owner[t]] /\ erasing'[owner[t]] = erasing[owner[t]]
        BY <1>1, <2>2, <3>2 DEF IInv, TypeOK
      <4>2. Walking(owner[t]) => todo' = todo
        BY <1>2, <3>2 DEF Walking
      <4> QED BY <1>1, <2>2, <4>1, <4>2 DEF SoundEvent, InHand, Walking
    <3> QED BY <3>1, <3>2
  <2> QED BY <1>1, <1>2, <2>1, <2>2, SoundFrame
<1> QED BY <1>1, <1>3, <1>4, NotesInv

\* The loop of Stop leaves behind what can no longer fire.
LEMMA CancelEventInv ==
  ASSUME IInv, NEW g \in Game, NEW i \in TaskId, CancelEvent(g, i)
  PROVE  IInv'
<1>1. /\ live' = live \ {i} /\ quiet' = quiet \cup Named(i) /\ todo' = todo \ {i}
      /\ UNCHANGED <<queued, idOf, fired, open, taskId, owner, era, starts, restarting, step,
                     serverVars, eventVars, firing, down, called, lost, torn>>
  BY DEF CancelEvent, CancelledId
<1>2. TypeOK'
  BY <1>1 DEF IInv, TypeOK, Named
<1>3. EventsAreSound'
  <2>1. Timer!Armed' \subseteq Timer!Armed \ Named(i)
    BY <1>1 DEF Timer!Armed, Named
  <2>2. ASSUME NEW t \in Timer!Armed' \ torn', SoundEvent(t)
        PROVE  SoundEvent(t)'
    <3>1. idOf[t] # i
      BY <2>1, <2>2 DEF Named, Timer!Armed
    <3> QED BY <1>1, <2>2, <3>1 DEF SoundEvent, InHand, Walking
  <2> QED BY <1>1, <2>1, <2>2, SoundFrame
<1>4. quiet' \subseteq quiet \cup {t \in queued : idOf[t] \notin live'}
  BY <1>1 DEF Named
<1> QED BY <1>1, <1>2, <1>3, <1>4, NotesInv

\* When nothing is left to the loop and no update is under way, the game has no
\* event that can still fire; else every one that can saw the clear.
LEMMA ClearEventsInv ==
  ASSUME IInv, NEW g \in Game, ClearEvents(g)
  PROVE  IInv'
<1>1. /\ todo = {} /\ Walking(g) /\ step' = "stop"
      /\ starts' = [starts EXCEPT ![g] = @ + 1]
      /\ UNCHANGED <<timer, taskId, owner, era, restarting, todo, serverVars, inHand, erasing,
                     firing, down, called, lost, quiet>>
  BY DEF ClearEvents
<1>2. /\ \A h \in Game \ {g} : mEvents'[h] = mEvents[h]
      /\ mEvents' \in [Game -> SUBSET (0..MaxId)]
      /\ torn \subseteq torn' /\ torn' \subseteq torn \cup Tears(g)
      /\ Updating(g) => torn' = torn \cup Tears(g)
  BY DEF ClearEvents, IInv, TypeOK
<1>3. TypeOK'
  <2>1. starts' \in [Game -> Nat]
    BY <1>1 DEF IInv, TypeOK
  <2>2. torn' \subseteq Task
    BY <1>2 DEF IInv, TypeOK, Tears, Timer!Armed
  <2> QED BY <1>1, <1>2, <2>1, <2>2 DEF IInv, TypeOK, StartStep
<1>4. EventsAreSound'
  <2>1. Timer!Armed' = Timer!Armed
    BY <1>1 DEF Timer!Armed
  <2>2. ASSUME NEW t \in Timer!Armed' \ torn', owner[t] \in Game, SoundEvent(t)
        PROVE  SoundEvent(t)'
    <3>1. owner[t] # g
      <4>1. SUFFICES ASSUME owner[t] = g PROVE FALSE
        OBVIOUS
      <4>2. ~Updating(g)
        BY <1>2, <2>1, <2>2, <4>1 DEF Tears
      <4>3. inHand[g] = t
        BY <1>1, <2>2, <4>1 DEF SoundEvent, InHand
      <4>4. t # NoTask
        BY <2>1, <2>2, GameEventsAssumption DEF IInv, TypeOK, Timer!Armed
      <4> QED BY <4>2, <4>3, <4>4 DEF Updating
    <3>2. starts'[owner[t]] = starts[owner[t]] /\ mEvents'[owner[t]] = mEvents[owner[t]]
      BY <1>1, <1>2, <2>2, <3>1 DEF IInv, TypeOK
    <3> QED BY <1>1, <2>2, <3>2 DEF SoundEvent, InHand, Walking
  <2> QED BY <1>1, <1>2, <2>1, <2>2, SoundFrame
<1> QED BY <1>1, <1>3, <1>4, NotesInv

LEMMA FireEventInv ==
  ASSUME IInv, NEW t \in Task, FireEvent(t)
  PROVE  IInv'
<1>1. /\ t \in Timer!Armed /\ queued' = queued \ {t} /\ live' = live \ {idOf[t]}
      /\ fired' = fired \cup {t} /\ firing' = {t} /\ firing = {}
      /\ UNCHANGED <<idOf, taskId, owner, era, mainVars, serverVars, eventVars, down, history>>
  BY DEF FireEvent, Timer!Fire
<1>2. t \in queued /\ idOf[t] \in live
  BY <1>1 DEF Timer!Armed
<1>3. TypeOK'
  BY <1>1 DEF IInv, TypeOK
<1>4. (EventsAreOwned /\ OneWay)'
  BY <1>1, <1>2 DEF IInv, EventsAreOwned, OneWay
<1>5. PostedAtHome'
  BY <1>1 DEF IInv, PostedAtHome, ServerTasks
<1>6. QuietIsDead'
  BY <1>1 DEF IInv, QuietIsDead
<1>7. QuietStaysQuiet'
  <2>1. Posted' = Posted /\ t \notin quiet
    BY <1>1, <1>2 DEF Posted, IInv, QuietIsDead
  <2> QED BY <1>1, <2>1 DEF IInv, QuietStaysQuiet
<1>8. EventsAreSound'
  <2>1. Timer!Armed' \subseteq Timer!Armed
    BY <1>1 DEF Timer!Armed
  <2> QED BY <1>1, <2>1, SameEvents
<1> QED BY <1>3, <1>4, <1>5, <1>6, <1>7, <1>8 DEF IInv

LEMMA DropEventInv ==
  ASSUME IInv, NEW t \in Task, DropEvent(t)
  PROVE  IInv'
<1>1. /\ queued' = queued \ {t}
      /\ UNCHANGED <<live, idOf, fired, taskId, owner, era, mainVars, serverVars, eventVars,
                     firing, down, history>>
  BY DEF DropEvent, Timer!Drop
<1>2. TypeOK'
  BY <1>1 DEF IInv, TypeOK
<1>3. (EventsAreOwned /\ OneWay /\ PostedAtHome /\ QuietIsDead)'
  BY <1>1 DEF IInv, EventsAreOwned, OneWay, PostedAtHome, ServerTasks, QuietIsDead
<1>4. QuietStaysQuiet'
  BY <1>1 DEF IInv, QuietStaysQuiet, Posted
<1>5. EventsAreSound'
  <2>1. Timer!Armed' \subseteq Timer!Armed
    BY <1>1 DEF Timer!Armed
  <2> QED BY <1>1, <2>1, SameEvents
<1> QED BY <1>2, <1>3, <1>4, <1>5 DEF IInv

LEMMA PostEventInv ==
  ASSUME IInv, NEW t \in Task, PostEvent(t)
  PROVE  IInv'
<1> DEFINE g == owner[t]
<1>1. /\ t \in firing /\ firing' = {}
      /\ mTasks' = [mTasks EXCEPT ![g] = Append(mTasks[g], t)]
      /\ UNCHANGED <<timer, taskId, owner, era, mainVars, mRunning, rak, eventVars, down, history>>
  BY DEF PostEvent, PostedBack
<1>2. t \in fired /\ g \in Game /\ mTasks \in [Game -> Seq(Task \cup {LuaInit})]
  BY <1>1 DEF IInv, TypeOK, OneWay, EventsAreOwned
<1>3. /\ ToSet(Append(mTasks[g], t)) = ServerTasks(g) \cup {t}
      /\ Append(mTasks[g], t) \in Seq(Task \cup {LuaInit})
  BY <1>2, AppendSet DEF ServerTasks
<1>4. \A h \in Game : ServerTasks(h)' \subseteq ServerTasks(h) \cup {u \in {t} : h = owner[t]}
  BY <1>1, <1>2, <1>3 DEF ServerTasks
<1>5. TypeOK'
  BY <1>1, <1>2, <1>3 DEF IInv, TypeOK
<1>6. (EventsAreOwned /\ OneWay /\ QuietIsDead)'
  BY <1>1 DEF IInv, EventsAreOwned, OneWay, QuietIsDead
<1>7. PostedAtHome'
  BY <1>1, <1>2, <1>4 DEF IInv, PostedAtHome
<1>8. QuietStaysQuiet'
  <2>1. /\ Posted = {u \in Task : owner[u] # NoGame /\ u \in ServerTasks(owner[u])}
        /\ Posted' = {u \in Task : owner[u] # NoGame /\ u \in ServerTasks(owner[u])'}
    BY <1>1 DEF Posted, ServerTasks, ToSet
  <2>2. \A u \in Task : owner[u] # NoGame => owner[u] \in Game
    BY DEF IInv, TypeOK
  <2>3. Posted' \subseteq Posted \cup firing
    BY <1>1, <1>4, <2>1, <2>2
  <2> QED BY <1>1, <2>3 DEF IInv, QuietStaysQuiet
<1>9. EventsAreSound'
  BY <1>1, SameEvents DEF Timer!Armed
<1> QED BY <1>5, <1>6, <1>7, <1>8, <1>9 DEF IInv

LEMMA PostToNullInv ==
  ASSUME IInv, NEW t \in Task, PostToNull(t)
  PROVE  IInv'
<1>1. TypeOK'
  BY DEF IInv, TypeOK, PostToNull
<1>2. EventsAreSound'
  BY SameEvents DEF PostToNull, Timer!Armed
<1> QED BY <1>1, <1>2, TasksInv DEF PostToNull, ServerTasks

LEMMA StepIInv == IInv /\ [Next]_vars => IInv'
<1> SUFFICES ASSUME IInv, [Next]_vars PROVE IInv'
  OBVIOUS
<1>1. CASE UNCHANGED vars
  <2>1. UNCHANGED <<timer, owner, era, mainVars, serverVars, eventVars, firing, history>> /\ TypeOK'
    BY <1>1 DEF vars, IInv, TypeOK
  <2>2. EventsAreSound'
    BY <2>1, SameEvents DEF Timer!Armed
  <2> QED BY <2>1, <2>2, TasksInv DEF ServerTasks
<1>2. CASE \E g \in Game : RakNetThread(g) \/ Update(g)
  BY <1>2, LockTasksInv, CallInitInv, CallEventInv, UnlockTasksInv, LeaveInv, NoteEventInv,
    EraseEventInv DEF RakNetThread, Update
<1>3. CASE \E g \in Game : Lua(g)
  BY <1>3, AddEventInv, StopEventInv DEF Lua
<1>4. CASE \E g \in Game : StartGame(g) \/ MainThread(g)
  BY <1>4, StartGameInv, CancelEventInv, ClearEventsInv, StopServerInv, JoinServerInv,
    BuildServerInv, PostInitInv DEF MainThread
<1>5. CASE SchedulerThread
  BY <1>5, FireEventInv, DropEventInv, PostEventInv, PostToNullInv DEF SchedulerThread
<1> QED BY <1>1, <1>2, <1>3, <1>4, <1>5 DEF Next

----------------------------------------------------------------------------
\* Every state that the games' threads and the scheduler can reach satisfies the
\* inductive invariant.
THEOREM Inductive == Spec => []IInv
BY InitIInv, StepIInv, PTL DEF Spec

\* The state of the games' threads and of the scheduler always has its type.
THEOREM TypeCorrect == Spec => []TypeOK
<1>1. IInv => TypeOK
  BY DEF IInv
<1> QED BY <1>1, Inductive, PTL

\* An event cancelled by StopEvent or Instance::Stop while it was queued is
\* never fired, posted or called: cancelling is final in all three threads.
THEOREM CancellingIsFinal == Spec => []QuietStaysQuiet
<1>1. IInv => QuietStaysQuiet
  BY DEF IInv
<1> QED BY <1>1, Inductive, PTL

\* However an AddEvent, a callback or the scheduler's thread comes between the
\* steps of Instance::Start, the events of the game's earlier life are silent,
\* but for those that could fire while both threads used mEvents.
THEOREM RestartSilencesEvents == Spec => []StopSilences
<1>1. IInv => StopSilences
  BY DEF IInv, EventsAreSound, SoundEvent, StopSilences
<1> QED BY <1>1, Inductive, PTL

\* The next Instance::Stop finds every event that can still fire in mEvents, or
\* AddTask is about to note it, or both threads used mEvents when it could fire.
THEOREM EveryEventIsTracked == Spec => []EventsTracked
<1>1. IInv => EventsTracked
  BY DEF IInv, EventsAreSound, SoundEvent, EventsTracked
<1> QED BY <1>1, Inductive, PTL
=============================================================================

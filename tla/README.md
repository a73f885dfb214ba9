# A TLA+ verification of darkspore_server

`src/darkspore_server` is a server for the game Darkspore. One process serves the
launcher (HTTP), the lobby (the Blaze protocol over TCP) and the games themselves
(RakNet over UDP, with game logic in Lua). This directory holds specifications of its
core, the TLC instances that check them, and proofs.

All paths below are relative to `src/darkspore_server/source/`.

## 1. The system

### Threads

| Thread | Runs | Shares |
|---|---|---|
| main | one `io_context`: Blaze, HTTP and QoS servers; starts and stops games | users, rooms, games |
| scheduler | `Scheduler`'s worker: delayed tasks | its heap; the task queues of all games |
| RakNet, one per started game | packets, server tasks, `Instance::Update`, Lua | the game's objects, players, clients |

A delayed Lua event goes through all three: Lua hands it to the scheduler, the scheduler
posts it to the queue of the game, and the RakNet thread calls Lua. A restart of the game
(main thread) cancels it somewhere on the way.

### Components, their state, and what makes them correct

| Component | State | Operations | What is hard | Correct when | Module |
|---|---|---|---|---|---|
| `Scheduler` (`scheduler.cpp`) | heap, live identifiers, a counter per thread | `AddTask`, `CancelTask`, `Shutdown`, worker loop | lock and condition variable, identifiers that repeat, reads without the lock | nothing runs early, twice or after its cancellation; no wake-up is lost; `Shutdown` returns | `Scheduler`, `TimerService` |
| Game events (`game/instance.cpp`, `game/luafunctions.cpp`, `raknet/server.cpp`) | `mEvents`, queue of server tasks, run state of the RakNet thread | `AddEvent`, `StopEvent`, the callback, `Start`, `Stop`, `run_one` | three threads, `mEvents` used by two without a lock, restart, join, a mutex that is held while posting, a server that is not there | a cancelled event stays silent, a restart silences what came before, a fired event is called, `Start` returns | `GameEvents` |
| Objects and replication (`game/objectmanager.cpp`, `game/instance.cpp`) | active objects, marked objects, free identifiers, flags and data bits | create, change, mark, `Update`, send create/update/delete, a client starts or leaves | reuse of identifiers, wrap-around, bits reset for several clients at once | identifiers are exact, no client keeps a dead object, no change is forgotten | `Replication` |
| Octree and triggers (`game/octree.cpp`, `game/objectmanager.cpp`) | nodes, queue, trigger entries | enqueue, move, mark, `Update`, query, `OnTick` | recursion that changes the tree it walks, nodes that age, erasing while iterating | an object has one place, none when deleted, and the triggers it touches see it | `OctTree` |
| Sessions and players (`raknet/server.cpp`, `raknet/client.cpp`, `game/player.cpp`) | clients by address, game state of each, players of the game, catalysts | connect, disconnect, hello, prepare, status, drag, drop, pick up | any order of messages, two connections of one user, races for one object, slots that a grid does not have | nothing is copied, and lost only with its player or over the edge of the grid; no two clients act through one player | `Session`, `CatalystCustody` |
| Lua threads (`game/lua.cpp`) | pool, yielded threads, thread of each object | spawn, call, yield, resume, stop, return to the pool | an object that keeps a pooled thread, a map whose keys go stale, scripts that start scripts while `Update` walks the yielded ones | a thread is used by one script, a sleeping script wakes up | `LuaThreads` |
| Accounts (`sporenet/user.cpp`, `blaze/component/authcomponent.cpp`, `game/api.cpp`, `http/session.cpp`) | users by name, tokens, files | login, logout, save, load, every method of `/game/api` | connections and web sessions that keep an old user, saves that overwrite, requests that name ids | one current copy per name, no dna, upgrade or creature is had for nothing, squads hold creatures of the account | `Accounts` |
| Files of users (`sporenet/`, `utils/functions.h`) | one XML document per name | `Save`, `Load` | two tables of some seventy tags, conversions, ranges | who logs in is who logged out | `SaveFile` |
| Lobby (`blaze/`, `sporenet/room.cpp`, `game/gamemanager.cpp`) | connections, rooms, categories, games, reply buffers | accept, read, every command of every component | connections that break between two requests, several requests in one read, buffers that live across reads, users with stale rooms and games | answers match the requests of their read, what a change is told as is so | `Lobby` |
| Blaze format (`blaze/tdf.cpp`, `blaze/functions.cpp`, `databuffer.cpp`) | none | `Packet`, `Parser`, `Read` and `Write` of each structure | variable length, types given once for a list, labels written and read independently | what is written is read to its end and back into the same members | `Tdf`, `Messages`, `Replies` |
| Game format (`raknet/types.cpp`, `raknet/types.h`, `game/object.cpp`, `game/locomotion.cpp`, `game/attributes.cpp`, `game/player.cpp`, `game/serverevent.cpp`) | changed bits and update flags of every object and player | some hundred setters, updates, both forms of each structure | a mask without a length, offsets, two ways to note a change, two tables of attributes | the client reads what was written and is left with nothing old that is not noted | `Layouts`, `Wire` |

`PROJECT.json` lists the parts that are not modelled, each with the reason.

## 2. The modules

Modules are small enough to be read next to the code; `PROJECT.json` gives, for each
definition, the lines it stands for. Names of variables and actions are the code's where
it has one.

    TimerService  <-- implements --  Scheduler      CatalystCustody  <-- implements --  Session
         ^
         | INSTANCE
     GameEvents   Replication   OctTree   Accounts   Lobby   LuaThreads

     Layouts <- Wire                        }
     Tdf <- Messages <- Replies <- SaveFile }  <-- EXTENDS --  MCProtocols

     <Module>  <-- EXTENDS --  MC<Module>                        what TLC checks
     <Module>  <-- EXTENDS --  <Module>Proofs  -->  SequenceLemmas    what is proved

* **`TimerService`** says what `scheduler.h` promises, without threads, locks or time:
  identifiers are live or dead, a queued task is fired or dropped by what its identifier is
  at that moment. Two tasks can share an identifier, since `AddTask` counts in a
  `thread_local` variable.
* **`Scheduler`** is `scheduler.cpp`. A section under `mLock` is one action; `wait` and
  `wait_until` release the lock, so the worker has a program counter (`wpc`): testing
  `mState` (`check`), about to lock (`lock`), asleep (`blocked`), woken and waiting for the
  lock (`relock`), holding a task (`popped`, `running`). `AddTask` has three steps because
  it notifies outside the lock and reads the identifier from the task last of all. Spurious
  wake-ups and time-outs are actions of their own. `wpc = "ub"` is the state after `top()`
  and `pop()` of an empty heap (`PopEmpty`), which can be reached: `Shutdown` empties the heap
  while the worker waits with a deadline. The identifier has `MaxId` values and wraps.
* **`GameEvents`** composes `TimerService` with the queues of the games and the restart.
  The code is cut where another thread can get in. `AddEvent` has two steps, since the scheduler has
  the task before `mEvents` names it (`inHand`), and so have `StopEvent` and the callback (`erasing`).
  `Stop` goes through `mEvents` one identifier at a time (`todo`, `CancelEvent`) and then clears it
  (`ClearEvents`); `Start` goes on while it joins, while there is no server, and after the new one exists.
  No lock guards `mEvents`: an update that meets the loop may make it miss any of what is left, and one
  that meets `clear()` may leave anything behind. A callback that comes while `mServer` is null brings
  the program `down`. The mutex of a server's queue is a variable, since the RakNet thread holds
  it while Lua runs.
* **`Replication`** has the objects of one game and what each client would hold if every
  packet arrived (`net.knows`, `net.stale`). Everything is on the RakNet thread, so each
  handler is one action. A client is sent what is sent from when it is connected (`Connect`), and has a
  `Player` from its hello (`Hello`); an update that is sent between the two uses a null pointer and ends
  the program (`UsePlayer`), after which the next one begins.
* **`Session`** has the connections of one game: the game-state machine of a client, its
  `Player`, and the catalysts in the players' grids and on the ground. **`CatalystCustody`** is what a
  player is promised of the catalysts: each is nowhere, on the ground or in one slot, and goes from
  one to another by the rules of the game (into the first free slot, to another slot of the same grid, gone
  with its player, replaced by a hello, or overwritten by a drag to or from a slot that the grid does
  not have), one at a time but for the players that go and the hellos. `Places` maps the grids and
  objects of `Session` to it.
* **`OctTree`** is the tree in one dimension: a node has two children where the code has
  eight, which is enough for what the code asks of the geometry (which child, if any, holds
  a box; which boxes meet). A node is named by the path to it. `Insert`, `BuildTree` and
  `UpdateNode` are recursive operators that follow the code's recursion; the order in which
  children are updated, made and deleted is kept. `ObjectManager::Update` is three
  actions, because scripts may create, move and mark objects while objects tick.

* **`Accounts`** has the `User` objects, who points to them (the map by name, Blaze connections,
  web sessions) and the files. An object lives while something points to it, also after its name
  was logged out. Each Blaze command of `AuthComponent` and each method of `/game/api` is an action;
  those that change nothing share one, by the table `ReadOnly` of what they answer. An answer is
  its status and the keys it has.
* **`Lobby`** has the Blaze connections with their reply buffers, users by account, rooms,
  categories, views and games. A request is one action; the first of a read clears the buffers, the
  following ones of the same read append to them (`reading`, `asked`), and `Written` ends the read. Nothing
  else of the io_context runs in between, but `Hello` may, the step of a game's own thread that adds a player.
* **`LuaThreads`** has the coroutines of a game, their pool and the loop of `Lua::Update`. A stack
  of running scripts stands for the C++ stack, since a script can start another one. What `Update` has
  still to look at is `left`: a script that begins to wait meanwhile is inserted before or behind, and
  reorders the rest when the set's `buckets` must grow, which they do by a factor. A deleted thread that
  no object points to may be made again (`Fresh`), so there is no end of new threads. A condition is met or
  not while its script waits; of others it is not asked. Whether
  `mThreads` still finds a thread is `known`; `down` is undefined behaviour, after which
  nothing is said.
* **`Layouts`** lists, for each structure of the RakNet protocol, its members, its raw form
  (offsets) and its reflection (fields by index), for the server and, where the code has
  separate classes for what the client reads, for those too. **`Wire`** has the setters and what each one
  notes, the update that writes what was noted, the mask writer, and a client that reads by its
  own layout.
* **`Tdf`** is `Packet` and `Parser`; **`Messages`** are the structures of `blaze/functions` with their
  `Write` and `Read`, **`Replies`** the packets the components make of them. Every member has a
  value of its own, known by its path, so that a value that ends in the wrong member is seen.
* **`SaveFile`** is what `User::Save` writes and `User::Load` reads, tag by tag, with the conversions
  of `utils` (a number read by a narrower type, a flag in digits or as `Y`, the ranges of asset
  numbers).

`MC<Module>` gives each module's constants their small values and its symmetry. `MCProtocols`
puts the two protocols and the files side by side: a behaviour is of one of them.

### What was abstracted

Packets are lost in the code without notice (every send is unreliable and an
acknowledgement is ignored); `Replication` asks what was sent, and says nothing of what arrives.
In `Session` the slots that a grid does not have are all alike: what the
bonuses behind the last slot are read as is a catalyst that nobody gave, or none. `OctTree` leaves
out the radius queries (the same walk with another predicate), the owner of a trigger (nothing attaches one), the lifespan of the
root (nothing reads it) and the reuse of an object. When the tick of a trigger passes the end
of its map the behaviour is undefined; the model takes the outcomes that stop or
go round.

`Accounts` keeps of an account what a request can change: dna, rewards, levels of upgrades,
creatures, squads, parts. An index of a part beyond the end is undefined in the code; the model takes the
outcome that leaves the account as it is. In `Lobby` a room does not list its members: the
list is written to clients and decides nothing. In both, the last answer (and the buffers) are
no part of the state that TLC tells apart (`VIEW`); the properties about them are of steps. Nor is whether the
lobby still accepts: what can happen then can also happen when nobody comes. Of a second request
in one read TLC therefore sees what it appends to the answer of one first request among those that lead to the same
state; the theorem `AnswersMatch` is about all.

In `LuaThreads` the address of a new Lua state is never a key that `mThreads` still has, and the
conditions a script waits for start no scripts. That an insertion reorders an `unordered_set` only when its
buckets must grow, that they never shrink, and that 8 are followed by 64, is how the library of
Visual C++ does it, for which the project is built. `lua.cpp` from line 78 to 1596 is compiled out
(`UNUSED_STUFF`).

In `GameEvents` what breaks the memory of `mEvents`, or makes the loop over it go on for ever, ends the
behaviour, and so does what an earlier life's callback does to the Lua state it was made with, which is closed
by then: the callback is only said to be called. In `Replication`, a program that ended is
one that begins anew.

In `Tdf` an integer takes one byte, or eight, or as many as its type may need (`wide`): ten for one of 64
bits, or for a negative one. Of a number of more than eight bytes the parser leaves the rest, and what
it makes of that is not followed. Lists and maps count
their items in one byte, and 256 are never reached. Labels have one to four capitals, for
which their compression is one-to-one and never begins with a 0. The header of a message, text
inside labels, and the maps that are never filled are left out. In `Wire`, a field is stale, noted
and read as a whole; its value is no number. Setting an attribute to 0 that was never held and
then to another value erases an element that is not in the map: undefined, and taken as the end
of the behaviour. In `SaveFile`, what `std::to_string` cuts off a float and what Latin-1 cannot
hold are left out.

## 3. The runs

| Run | Instance | States | What it shows |
|---|---|---|---|
| `scheduler` | 2 threads, 2 tasks, delays 0 and 1, 2 identifiers | 0.3 M | no task runs early or after its cancellation, none is dropped without a reason, the identifier a thread gets back is right, one task at most starts after `Shutdown` began, the worker never oversleeps; tasks leave the heap, `Shutdown` ends the worker; `Scheduler` implements `TimerService` |
| `game_events` | 2 games, one of them started twice, 2 events, 2 identifiers | 0.3 M | cancelled events stay silent, a restart silences earlier events, events that can fire are in `mEvents`, or about to be; a fired event is called, `Start` returns |
| `replication` | 2 clients, 3 objects, 2 identifiers | 0.8 M | identifiers are exact and refused only when all are in use, clients hold no dead object, changes are not forgotten |
| `late_joiner` | the same | | *violated*: "Create all existing objects" |
| `session` | 2 addresses, 1 user, 3 players, 2 catalysts, 2 slots | 0.4 M | catalysts are conserved, players are not shared, updates to the owner are not lost, the dungeon needs a squad; `Session` implements `CatalystCustody` |
| `player_index` | the same | | *violated*: the "player id in game" identifies a player |
| `octree` | 2 objects, 1 trigger, 3 levels, 2 moves | 1.0 M | one place per object, none for deleted ones, triggers see what they touch |
| `octree_lost` | 3 objects, 1 trigger, 3 levels | | *violated*: a created object is added to the tree |
| `accounts` | 2 names, 1 connection, 1 web session, 2 user objects | 0.1 M | a login never continues from an account that was overwritten; no sequence of unlocks, saves and loads gives more worth, or more rewards and creatures, than there was; squads hold creatures of the account; what is reported as a failure changed nothing |
| `lobby` | 2 connections, 2 accounts, 2 user objects, 2 rooms, categories and games made, 2 requests in a read | 0.3 M | what is written after a read answers its requests in their order; rooms have categories and categories views; what a handler that changes who is in what tells of it is so |
| `protocols` | 25 structures and their setters, 61 messages with 0, 1 or 2 items and numbers of one byte, of eight, or as long as can be, users with 0, 1 or 2 of everything | 67 K | masks, offsets and widths agree on both sides, nothing old stays unnoted; packets are parsed to their end and back into their members; a saved user is loaded as it was |
| `lua_threads` | 3 threads, 2 objects, a pool of 2, one script started by a script per turn, 2 buckets | 1.1 M | the pool holds idle threads, once each; an object has one script; who waits for time is resumed |

Each property has a mutant in `PROJECT.json`: a one-line change of a mapped definition, of the
kind a bug would be, that the same run detects.

**Why the bounds are enough.** The hazards listed in `PROJECT.json` need two actors and at most
three tasks, objects or catalysts: one that is held, one that takes its identifier or place,
one that comes between. With `MaxId = 2` the counters wrap within a few steps, and both an
identifier in use and a free one are met on the way. Two starts of a game are the first and
a restart, and events of the first era are still around in the second. In `OctTree`
`FirstLife = 1` and `MaxLife = 1` let the lifespan run out, double, overflow and become zero
within one behaviour; `MaxMoves` bounds how often objects move. `MaxClock` bounds the
execution points; the clock goes on to the last of them and then nothing needs it. That a third
task changes nothing, and where the identifiers wrap, is covered by the theorems. In `session` two catalysts are
enough for two players to want one, for a move to trade two and for a hello to replace what it dealt before;
that a full grid leaves a third on the ground is met by the theorems only, which are about any grid.

A user object that is out of date needs one holder besides the map (a connection or a web session)
and one new login of the same name: two objects. `Upgrades` in `accounts` has one that is affordable, one
of the inventory (whose level is not saved) and one beyond the table. In `lobby` two connections
can have the same account, take over each other's user and break between any two requests;
room 1 is there from the start and others are made; two requests in a read show that the second finds
the answers of the first, and two games that one can be named while the user is in the other. In
`protocols` structures do not interact, so
one at a time is enough; two items in a list show that the second is found behind the first. In
`lua_threads` two threads fill the pool and a third exceeds it, is deleted at its end and made again, so
that newcomers come without end while one waits; one nested script reaches
every place where `Update` holds a pointer over a call. Two buckets are the smallest set that grows.

`CHECK_DEADLOCK FALSE` is set where the system may stop: after `Shutdown`, when every event
and every start of the bound is used up, in the lobby when all connections are gone and none is
accepted, and after undefined behaviour in `LuaThreads`. `TypeOK` of each module says what its
variables hold; it is a theorem of every module that has theorems, and is not among the properties of the runs.

**Violations.** (1) `SendObjectCreate` returns for objects whose flag `Created` is set; the flag
belongs to the object and not to the client, so a client that starts later is not sent what the
first was sent. (2) `AddClient` numbers a client by the size of the map, so after one left the next
gets a number that is in use. (3) A node of the octree that an insertion made is built at
its first update, and `BuildTree` assigns its children anew over those that later insertions
of the same update made; the objects in them are in no node any more.

**What the properties leave out.** Where a property would be refuted by a defect that no text of the repository speaks
about, it names what it exempts:

* `Intact`: `Objective` gives its size in bits where bytes are meant, and the vote of a `CompletedChain`
  writes summaries over each other and past the end (`raknet/types.cpp`).
* `NothingMissed`: the goals of a character that is not a player's raise the flag and note no field,
  so the update that follows carries nothing (`Locomotion`).
* `ParsedWhole`: of a list of object ids the parser reads nothing and skips nothing (`UserSessionExtendedData`,
  `UserData`, while they hold any).
* `Restored`: `UserData::Read` looks for `_Content` in a structure, which has none; `UserSessionExtendedData::Read` is
  empty; `CreateGameRequest` takes addresses by their place in `HNET`, where `Write` has them the other way round,
  inverts `NRES` and never writes `PGSC`. A file keeps neither `unlockInventory` (the count of identifications is written
  under both tags), nor `grantOnlineAccess` (its line is commented out), nor a creature's statistics and creator.
  Of numbers, one of more than 55 bits, which is one of 64 bits that is negative or at least 2^55, or a negative
  latency: `encode_tdf_integer` writes up to ten bytes and `decode_tdf_integer` reads eight (`databuffer.cpp:72-96`).
* `CatalystsConserved`: a drag to or from a slot that the grid does not have overwrites what is in the other
  slot (`raknet/server.cpp:929-963`, `game/player.cpp:337-354`). That it copies nothing is part of the property.
* `StopSilences`, `EventsTracked`: events that could fire at a moment when both threads used `mEvents` (`torn`), and events
  that share an identifier with another.
* `FiredIsCalled`: events that were posted to a server that `Start` then destroyed, or whose game has no RakNet thread, and
  everything after a callback found no server; `StartCompletes`: the latter.
* `ChangesAreTold`: handlers that change nothing. `CreateGame` and `DestroyGame` tell of a game that they neither make nor
  remove, `UpdateMeshConnection` of a player's removal that is none (`blaze/component/gamemanagercomponent.cpp:984-995, 1276-1287`).
* `FailureChangesNothing`: methods that answer "ok" whatever happens; `NothingForNothing` says that nothing is gained, not
  that nothing is lost: `unlockCreature` uses the reward up for a template there is not (`sporenet/user.cpp:220-226`).
* `Resumed`: a script on a thread that was stopped before, which `mThreads` does not find any more: it waits for ever.
* `NoGhosts`: a character that was never sent before it left the game.
* `DungeonHasSquad`: a client that says hello again after it chose its squad.
* `ShutdownEndsWorker`: one point of the worker's loop, see below.

**Fairness.** `Scheduler`: the operating system runs every thread, the function of a task returns and
the clock goes on; nobody has to add, cancel or shut down. `ShutdownEndsWorker` excludes one
point: `mState` is stored without the lock, and when that happens between the worker's test
and its wait, the notification is lost and the worker sleeps for good. `GameEvents`: every
thread keeps running, a Lua function returns after finitely many calls of `StopEvent`, and who waits for the
mutex of a queue gets it (strong fairness of the threads), because the RakNet thread sleeps a millisecond per
round with the mutex free. Weak fairness is enough for a thread that is in the midst of changing `mEvents`.
`LuaThreads`: a script that runs waits or ends (there is one thread, and a script that loops for ever stops
the game), the loop of `Update` goes on, and time goes on; `StartUpdate` is strongly fair because
`Instance::Update` calls it on every turn of the server, between scripts. With it `Resumed` holds although
new scripts may begin to wait whenever `Update` resumes one: they come behind the one that waits only as long
as the order of the set changes, and it changes no more once the set has as many buckets as it
will ever need. Nothing is assumed of
conditions that depend on the world. The other modules have no liveness properties: their steps are
reactions to packets and requests.

## 4. The proofs

The proofs are about the modules the runs check, with no constant fixed: any numbers of threads, tasks,
games, clients, objects, players, threads of Lua, names and rooms, any width of an identifier, any grid and any
files. Each module has one module of theorems, and `SequenceLemmas` has what they share about
sequences, sets and least elements.

| Module | Assumes of the constants | Theorem | Says |
|---|---|---|---|
| `SchedulerProofs` | `MaxId` is positive; delays and the end of the clock are numbers; the null task is no task | `TypeCorrect` | `TypeOK` |
| | | `CancellationIsSound` | `CancelledNeverRuns` |
| | | `NothingIsDropped` | `NoSilentDrop` |
| | | `NothingIsEarly`, `NothingIsSleptThrough` | `NeverEarly`, `SleepsNoLonger` |
| | | `IdentifiersAreExact` | `HeldIdIsExact` |
| | | `NothingLingers` | live identifiers name queued tasks; an emptied heap stays empty |
| | | `ShutdownIsFinal`, `RunsAtMostOnce` | `OneLateStart`, `StartsOnce` |
| | | `SchedulerImplementsService` | `Scheduler` implements `TimerService` |
| `GameEventsProofs` | `MaxId` is positive; each game has a number of starts; the task that starts Lua is no event | `TypeCorrect` | `TypeOK` |
| | | `CancellingIsFinal` | `QuietStaysQuiet` |
| | | `RestartSilencesEvents` | `StopSilences` |
| | | `EveryEventIsTracked` | `EventsTracked` |
| `ReplicationProofs` | `MaxId` is positive | `TypeCorrect` | `TypeOK` |
| | | `IdentifiersAreExact` | `IdsAreExact` |
| | | `NothingHaunts`, `NoChangeIsLost` | `NoGhosts`, `StaleIsPending` |
| `SessionProofs` | finitely many addresses, which are numbers, and at least one; a last slot | `TypeCorrect` | `TypeOK` |
| | | `CatalystsAreConserved` | `CatalystsConserved` |
| | | `PlayersAreOwn` | `PlayersAreNotShared` |
| | | `NothingIsForgotten`, `StartsWithSquad` | `OwnCopyPending`, `DungeonHasSquad` |
| | | `SessionImplementsCustody` | `Session` implements `CatalystCustody` |
| `LuaThreadsProofs` | the bound of nested scripts and the least number of buckets are numbers | `TypeCorrect` | `TypeOK` |
| | | `PooledThreadsAreIdle` | `PoolIsIdle` |
| | | `ObjectsHaveOneScript` | `OneScriptEach` |
| | | `UpdateFindsLiveThreads` | `Lua::Update` never comes to a deleted thread |
| `LobbyProofs` | the bounds are numbers; there is a room at the start; no connection is 0 | `TypeCorrect` | `TypeOK` |
| | | `RoomsStayPlaced` | `RoomsArePlaced` |
| | | `AnswersMatch`, `ChangesAreSo` | `Answered`, `ChangesAreTold` |
| `AccountsProofs` | names, templates and upgrades are numbers; the files of the start are such as the program writes: creatures have ascending ids, squads name creatures | `TypeCorrect` | `TypeOK` |
| | | `NewestIsRegistered` | `RegisteredIsCurrent` |
| | | `NothingIsFree` | `NothingForNothing` |
| | | `SquadsNameCreatures` | `SquadsResolve` |
| | | `FailuresAreSafe` | `FailureChangesNothing` |

That a null value (`NoTask`, `NoObject`, `NoGame`, `None`, `Nobody`) is none of the things it
stands beside is assumed as well, and by TLC checked: every assumption is evaluated in the run of its module.

**The argument.** Almost none of these is inductive, and every module of theorems begins with the `IInv`
that is. There is one lemma per action (in `LobbyProofs` and `AccountsProofs` one per handler, which proves
the action properties too), one that combines them, `Inductive`, and a theorem per property by PTL.
What each `IInv` adds, and what needs it:

* *Scheduler.* It ties the heap, the identifiers, the worker's place and `Shutdown`'s together: only issued tasks are
  anywhere (`IssuedOnly`), a queued task was neither run nor deleted (`QueuedIsFresh`), the task in the worker's
  hands is out of the heap, due and not cancelled (`HeldTask`), a cancelled task in the heap has a dead
  identifier (`DisarmedIsDead`), a worker that timed out has a task to take that is due by its deadline
  unless `Shutdown` emptied the heap (`DeadlineHasTask`, `TimedOutIsPast`), and `mState`, `shut` and `wpc`
  agree (`ShutdownPhase`). `DeadlineHasTask` is what makes the second look at the heap after the wait safe:
  whatever was added meanwhile, the top is due no later than what was waited for. The refinement has a lemma per
  action of `TimerService` and one for all steps that stutter.
* *GameEvents.* An event goes one way, from the heap to the scheduler's hands, to the tasks of a server, to Lua
  (`OneWay`), and is only ever posted to the game that added it (`PostedAtHome`); a cancelled one keeps a dead
  identifier (`QuietIsDead`). Of an event that can still fire, was not `torn` and has its identifier to itself,
  `EventsAreSound` says that `mEvents` names it or is about to, that nobody is about to erase it, and that the
  loop of `Stop`, when it is under way, has it ahead: so `clear()` comes when no such event is left, and
  one that is about to be noted then is torn.
* *Replication.* Identifiers are the free, the used and the never issued: the free ones are distinct and nobody's,
  none is 0, none is lost, and until the counter wraps those ever issued are the ones below it (`IdsInv`). From this
  follows that an object is refused only when every identifier is in use: a free one is found in the list or the
  counter has not come round. `MarkedOnce` is why no identifier is freed twice. What the clients hold
  (`net`) is `Coherent`: what is stale is known to the client and flagged. `HeroesRemembered` accounts for
  the characters that players refer to after they left the game.
* *Session.* An address without a client refers to no player (`StrangersAreBlank`) and a player without a reference
  carries nothing (`UnreferredIsEmpty`), so that a second hello discards exactly what is lost. A catalyst is in one slot
  of one player or on the ground (`CatalystsInv`). That makes the mapping to `CatalystCustody` a function: `Located`
  says of each catalyst which of the three it is, before and after a step (`Locations`), and what is not the
  request's stays (`StaysThere`). A lemma per action of `CatalystCustody` follows (`NewCatalystLays`, `PickupPicksUp`,
  `DropPutsDown`, `MoveTrades`, `DragOverwrites`, `RemoveVanishes`; both hellos by `Dealing`), and one for the steps
  that stutter.
* *LuaThreads.* It says where a thread can be: in the pool once and at rest (`PoolRests`), on the stack once and
  running (`StackRuns`), among the yielded and alive (`YieldedExist`). `UpdateLooksAhead` is about the loop of
  `Lua::Update`, which goes through a set that the scripts it resumes change: what it has still to look at is in the set,
  and it resumes from the bottom of the stack only. `OwnsLatest` ties a script to the thread its object took last.
* *Lobby.* Whatever refers to a user object refers to a living one (`PointersLive`), because an object is freed in
  the step that drops its last reference; a user is in a game that exists and in a room that was given a category
  (`GamesExist`, `RoomsExist`); every category has a view from the step that made it (`CategoriesHaveViews`). `BuffersOK`
  types what the handlers append. `ReadOK` has `InOrder` of the read under way: a handler appends one answer at
  most (`ComponentAnswers`), and by `AnswersGrow` answers to the requests so far, followed by those
  of the next, are answers to all of them.
* *Accounts.* Each method is a function from an account to one that is as good (`Good`) and worth no more (`Keeps`),
  and `Keeps` (of worth, and of rewards and creatures) is transitive: an account in memory or in a file is what the methods made of the first file of its name.
  Ids of creatures ascend, which is more than `SquadsResolve` asks, since `Creatures::Add` numbers after the last
  creature only. `ApiNext` enumerates a few requests, but the lemma of each method is about any id, list, index and
  status. A saved and loaded account is worth the same although the level of its inventory is lost, because it
  is counted by `unlockInventoryIdentify`.

Where an argument goes over a sequence (that flattening typed sequences gives one, that a search finds the first) it
is made with the least counterexample (`Least`), as the library's induction theorems take an
operator as a parameter, which the provers cannot instantiate.

**Proved only.** `RunsAtMostOnce` and `NothingLingers` of `Scheduler` and `UpdateFindsLiveThreads` of `LuaThreads` state
what no run lists.

**Model-checked only.** Liveness (`Drains`, `ShutdownEndsWorker`, `FiredIsCalled`, `StartCompletes`, `Resumed`), which
is beyond the prover; `FiledAtMostOnce`, `TreeHoldsNoDeleted` and `SettledIsSeen` of `OctTree` and the five properties of
`MCProtocols`, whose modules follow the recursion of the code with recursive operators, which the provers do not
take. Of these the tree is bounded by its depth and the protocols by the items in a list; what a structure's
fields are is not a bound but the code's own list.

## 5. Not modelled

* Combat, modifiers, effects, cooldowns, damage and agents (`game/object.cpp`, the sums in
  `game/attributes.cpp`), and the motion of objects (`game/locomotion.cpp`): arithmetic of floats
  and of the clock on one thread. What they change that a client sees is in `Wire`.
* Levels, nouns, markers, configuration (`game/level.cpp`, `game/noun.cpp`, `game/config.cpp`): read once
  and never changed.
* Most Lua bindings (`game/luafunctions.cpp`): each checks its arguments and forwards to an object.
* The launcher's pages, pictures, themes and patches (`game/api.cpp`), parsing of HTTP (`http/`), the QoS server:
  text in, text out, no state.
* `main.cpp`: construction and destruction in order, on the main thread.

Noticed on the way, and in no property:

* *Threads.* `Shutdown` empties the heap while the worker waits with a deadline, and a time-out then pops an empty
  heap (`PopEmpty`). Events that fired before a restart post to the new server, and call a function of the Lua
  state that was closed; between two servers they post through a null pointer (`PostToNull`). `mEvents` is used by the
  main and the RakNet thread without a lock. `mPlayers` is changed by the
  RakNet thread and by the Blaze thread without a lock.
* *Game.* Every packet is sent unreliably. A script that `OnTick` runs may insert into the map that is iterated. A deleted object stays
  in the entries of a trigger. A character replaced just after it took damage is not synced. Damage kills a dead
  object again; a resurrected one does not collide. A cooldown can be shortened by another, and one that ends now is given anew. `EffectList::Add`
  of an effect that is there loses its index. An attribute of index 111 or more is ignored; one set to 0 while
  absent and then to a value erases the end of a map. `GetCatalyst` is off by one and reads the bonuses as a catalyst;
  a drag to slot 9 or more loses one. A client that is connected and has said no hello makes the next update that is sent
  dereference its null `Player` (`game/instance.cpp:922-923`).
* *Lua.* When the limit of threads is exceeded a thread is deleted that an object may still point to; a script that
  failed stays among the yielded and keeps its object busy.
* *Lobby.* A connection that breaks deletes its client and logs nobody out, so the name is refused as logged in until a restart.
  After one failed accept no other is started. A user that logged out stays in the list of its room. `RemovePlayer` of one game makes the user
  forget another one that it is in, while it stays that game's player. Integers of 2^55 and more, and negative ones,
  are not read to their end by the parser.
* *Files.* A feed item of another type, or a template that is no longer there, is not kept (the latter
  ends the program at the next save); whoever holds a stale user and logs out saves it.

## 6. The plan

The system's components are modelled as far as is said above, and every safety property of the modules without
recursive operators is a theorem. What is left:

* an abstract specification of what `Replication` promises the clients (an object is created, changed and deleted
  at each of them in that order), which needs a model of what arrives;
* the deadlines of `LuaThreads` and of the scheduler's clients in one model, to say by when a script that waits
  for time is resumed;
* the recursion of `OctTree` as functions over the paths of the tree, which the provers could take.

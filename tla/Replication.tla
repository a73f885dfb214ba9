---------------------------- MODULE Replication -----------------------------
(***************************************************************************)
(* What the clients of one game are told about its objects.  The           *)
(* ObjectManager hands out 32-bit identifiers, reuses those of deleted     *)
(* objects, and deletes once per Update what was marked; the Instance      *)
(* tells every connected client of an object the first time it is sent     *)
(* after the game started (SendObjectCreate, guarded by the flag Created), *)
(* of its changes, and of its deletion.                                    *)
(*                                                                         *)
(* Everything here runs on the RakNet thread of the game, one handler at a *)
(* time.  net.knows and net.stale say what a client would hold if every    *)
(* packet arrived that was sent to it.  A player has three characters in   *)
(* the code and one hero here.                                             *)
(***************************************************************************)
EXTENDS Naturals, SequencesExt

CONSTANTS
  Client,   \* the connections
  Object,   \* the Object instances that may exist at one time
  MaxId,    \* the largest object identifier, 2^32 - 1 in the code
  NoObject  \* no object

ASSUME ReplicationAssumption ==
  /\ MaxId \in Nat \ {0}
  /\ NoObject \notin Object

VARIABLES
  active,        \* the objects in mObjects and mActiveObjects
  idOf,          \* Object::mId
  marked,        \* mMarkedObjects, in the order they were marked
  mOpenObjectIds,
  sNextId,
  mGameStarted,
  clients,       \* mClients
  players,       \* those of them that said hello and have a Player
  hero,          \* the character object that each client's player holds
  net,           \* what was sent, see NetType
  unsent         \* history: characters that were deleted before they were sent

idVars == <<idOf, mOpenObjectIds, sNextId>>
vars == <<active, marked, idVars, mGameStarted, clients, players, hero, net, unsent>>

\* "data" is mDataBits; "parts" are the flags of attributes, locomotion, loot...
Part == {"data", "parts"}
Parts(S) == S \X Part

NetType ==
  [created : SUBSET Object,                        \* the flag Created
   dirty : SUBSET (Object \X Part),                \* changed and not sent
   knows : [Client -> SUBSET Object],              \* created, not deleted
   stale : [Client -> SUBSET (Object \X Part)]]    \* changed since last told

TypeOK ==
  /\ active \subseteq Object
  /\ idOf \in [Object -> 0..MaxId]
  /\ marked \in Seq(Object)
  /\ mOpenObjectIds \in Seq(0..MaxId)
  /\ sNextId \in 0..MaxId
  /\ mGameStarted \in BOOLEAN
  /\ players \subseteq clients /\ clients \subseteq Client
  /\ hero \in [Client -> Object \cup {NoObject}]
  /\ net \in NetType
  /\ unsent \subseteq Object

Init ==
  /\ active = {}
  /\ idOf = [o \in Object |-> 0]
  /\ marked = <<>>
  /\ mOpenObjectIds = <<>>
  /\ sNextId = 1
  /\ mGameStarted = FALSE
  /\ clients = {} /\ players = {}
  /\ hero = [c \in Client |-> NoObject]
  /\ net = [created |-> {}, dirty |-> {},
            knows |-> [c \in Client |-> {}], stale |-> [c \in Client |-> {}]]
  /\ unsent = {}

Elements(s) == {s[i] : i \in DOMAIN s}

----------------------------------------------------------------------------
\* Object identifiers.

UsedIds == {idOf[o] : o \in active}

\* The identifier freed last, or else the counter, which wraps.
NextObjectId == IF mOpenObjectIds # <<>> THEN Last(mOpenObjectIds) ELSE sNextId

AfterId == (sNextId + 1) % (MaxId + 1)

TakeId ==
  IF mOpenObjectIds # <<>>
  THEN mOpenObjectIds' = Front(mOpenObjectIds) /\ UNCHANGED sNextId
  ELSE sNextId' = AfterId /\ UNCHANGED mOpenObjectIds

\* Create fails when the counter has wrapped to 0 or to an identifier in use.
Creatable == NextObjectId # 0 /\ NextObjectId \notin UsedIds

Construct(o) ==
  /\ o \notin active
  /\ \A c \in Client : hero[c] # o /\ o \notin net.knows[c]
  /\ Creatable
  /\ TakeId
  /\ idOf' = [idOf EXCEPT ![o] = NextObjectId]
  /\ active' = active \cup {o}
  /\ unsent' = unsent \ {o}

\* The identifier that was drawn is not given back.
CreateNothing ==
  /\ ~Creatable
  /\ TakeId
  /\ UNCHANGED <<idOf, active, marked, mGameStarted, clients, players, hero, net, unsent>>

----------------------------------------------------------------------------
\* What is sent, as operators on net; whatever is sent goes to every client.

\* A new object with its position set; Initialize gives some attributes.
Born(n, o, parts) ==
  [n EXCEPT !.created = @ \ {o}, !.dirty = (@ \ Parts({o})) \cup ({o} \X parts)]

\* A change to the given parts of o.
Changed(n, o, parts) ==
  [n EXCEPT !.dirty = @ \cup ({o} \X parts),
            !.stale = [c \in Client |->
              IF o \in n.knows[c] THEN @[c] \cup ({o} \X parts) ELSE @[c]]]

\* Mutant: the flag Created replaces the flags of parts that are still to be sent.
StillDirtyNone(dirty, new) == dirty \ Parts(new)

\* SendObjectCreate sets Created and resets the data bits, not the parts.
StillDirty(dirty, new) == dirty \ (new \X {"data"})

\* SendObjectCreate of each of S.
WithCreates(n, S, started) ==
  LET new == IF started THEN S \ n.created ELSE {} IN
    [created |-> n.created \cup new,
     dirty |-> StillDirty(n.dirty, new),
     knows |-> [c \in Client |->
       IF c \in clients THEN n.knows[c] \cup new ELSE n.knows[c]],
     stale |-> [c \in Client |->
       IF c \in clients
       THEN (n.stale[c] \ (new \X {"data"})) \cup {p \in n.dirty : p[1] \in new /\ p[2] = "parts"}
       ELSE n.stale[c]]]

\* SendObjectUpdate asks the Player of every client whether the object is its.
Answerable(S, started) == S # {} /\ started => clients \subseteq players

\* SendObjectUpdate of each of S: created first where need be, then the changed
\* data and parts.  The part flags are cleared in the loop over the clients.
WithUpdates(n, S, started) ==
  LET m == WithCreates(n, S, started) IN
    IF ~started THEN n
    ELSE [m EXCEPT
      !.dirty = @ \ IF clients = {} THEN S \X {"data"} ELSE Parts(S),
      !.stale = [c \in Client |-> IF c \in clients THEN @[c] \ Parts(S) ELSE @[c]]]

\* Mutant: the deletion is sent after the objects were forgotten.
DeletedNone(S) == {}

\* SendObjectDelete carries identifiers: a client drops what it holds under them.
DeletedIds(S) == {idOf[o] : o \in S}

WithDeletes(n, S) ==
  [n EXCEPT
    !.knows = [c \in Client |-> {o \in @[c] : idOf[o] \notin DeletedIds(S)}],
    !.stale = [c \in Client |-> {p \in @[c] : idOf[p[1]] \notin DeletedIds(S)}]]

----------------------------------------------------------------------------
\* OnNewIncomingConnection: the client is told of what is sent from now on.
Connect(c) ==
  /\ c \notin clients
  /\ clients' = clients \cup {c}
  /\ hero' = [hero EXCEPT ![c] = NoObject]
  /\ UNCHANGED <<active, marked, idVars, mGameStarted, players, net, unsent>>

\* A hello makes a new Player, without characters even when its user had some;
\* another hello of the client replaces it.
Hello(c) ==
  /\ c \in clients
  /\ players' = players \cup {c}
  /\ hero' = [hero EXCEPT ![c] = NoObject]
  /\ UNCHANGED <<active, marked, idVars, mGameStarted, clients, net, unsent>>

\* RemoveClient: its player and character stay in the game.
Leave(c) ==
  /\ c \in clients
  /\ clients' = clients \ {c} /\ players' = players \ {c}
  /\ net' = [net EXCEPT !.knows[c] = {}, !.stale[c] = {}]
  /\ UNCHANGED <<active, marked, idVars, mGameStarted, hero, unsent>>

\* PrepareGameStart: SetSquad creates the character; the one it replaces stays
\* in the game.
SetSquad(c, o) ==
  /\ c \in players
  /\ Construct(o)
  /\ hero' = [hero EXCEPT ![c] = o]
  /\ net' = Born(net, o, Part)
  /\ UNCHANGED <<marked, mGameStarted, clients, players>>

\* OnPlayerStart: the level's objects are created (again, if another player
\* started before), each object is sent that was not sent yet, and the player's
\* character is placed and sent.
PlayerStart(c, level, loaded) ==
  /\ c \in players
  /\ mGameStarted => loaded
  /\ loaded \/ level = {}
  /\ mGameStarted' = loaded
  /\ \/ level = {} /\ UNCHANGED <<active, idVars, unsent>>
     \/ \E o \in level : level = {o} /\ Construct(o)
  /\ LET h == {hero[c]} \cap Object
         n1 == IF level = {} THEN net ELSE Born(net, CHOOSE o \in level : TRUE, {"data"})
         n2 == WithCreates(n1, active', loaded)
         n3 == IF h = {} THEN n2 ELSE Changed(n2, hero[c], Part)
     IN Answerable(h, loaded) /\ net' = WithUpdates(n3, h, loaded)
  /\ UNCHANGED <<marked, clients, players, hero>>

\* DropLoot and DropCatalyst: an object with loot and interaction data is
\* placed and then sent.
Drop(o) ==
  /\ Construct(o)
  /\ net' = WithCreates(Born(net, o, Part), {o}, mGameStarted)
  /\ UNCHANGED <<marked, mGameStarted, clients, players, hero>>

\* Lua's CreateObject sends the object first and then places it.
CreateObject(o) ==
  /\ Construct(o)
  /\ Answerable({o}, mGameStarted)
  /\ \E parts \in {{}, {"parts"}} :
       net' = Changed(WithUpdates(Born(net, o, parts), {o}, mGameStarted), o, {"data"})
  /\ UNCHANGED <<marked, mGameStarted, clients, players, hero>>

\* A handler, a script or OnTick changes an object.
Change(o, part) ==
  /\ o \in active
  /\ net' = Changed(net, o, {part})
  /\ UNCHANGED <<active, marked, idVars, mGameStarted, clients, players, hero, unsent>>

\* Mutant: MarkForDeletion does not look at the flag.
MarkableAlways(o) == TRUE

Markable(o) == o \notin Elements(marked)

\* PickupLoot, PickupCatalyst, OnObjectDeath and Lua mark an object.
MarkForDeletion(o) ==
  /\ o \in active
  /\ Markable(o)
  /\ marked' = Append(marked, o)
  /\ UNCHANGED <<active, idVars, mGameStarted, clients, players, hero, net, unsent>>

\* ObjectManager::Update: updates are sent, then deletions; then the identifiers
\* are free again.  What the OnTick calls change is in the actions above.
Dirty == {o \in active : \E p \in net.dirty : p[1] = o}
Update ==
  LET changed == Dirty
      gone == Elements(marked)
  IN
    /\ Answerable(changed, mGameStarted)
    /\ net' = WithDeletes(WithUpdates(net, changed, mGameStarted), gone)
    /\ active' = active \ gone
    /\ mOpenObjectIds' = mOpenObjectIds \o [i \in DOMAIN marked |-> idOf[marked[i]]]
    /\ marked' = <<>>
    /\ unsent' = unsent \cup {o \in gone \ net'.created : \E c \in Client : hero[c] = o}
    /\ UNCHANGED <<idOf, sNextId, mGameStarted, clients, players, hero>>

\* A client that is connected and said no hello has no Player: the next update
\* that is sent, by Lua, by ObjectManager::Update or when a player starts, uses
\* it all the same, and the program ends.  The next one begins with a new game.
UsePlayer ==
  /\ ~(clients \subseteq players)
  /\ \/ mGameStarted /\ (Dirty # {} \/ Creatable)
     \/ \E c \in players : hero[c] # NoObject
  /\ active' = {} /\ marked' = <<>> /\ mOpenObjectIds' = <<>> /\ sNextId' = 1
  /\ idOf' = [o \in Object |-> 0]
  /\ mGameStarted' = FALSE /\ clients' = {} /\ players' = {} /\ unsent' = {}
  /\ hero' = [c \in Client |-> NoObject]
  /\ net' = [created |-> {}, dirty |-> {},
             knows |-> [c \in Client |-> {}], stale |-> [c \in Client |-> {}]]

Next ==
  \/ CreateNothing
  \/ \E c \in Client : Connect(c) \/ Hello(c) \/ Leave(c)
  \/ \E c \in Client, o \in Object : SetSquad(c, o)
  \/ \E c \in Client, level \in {{}} \cup {{o} : o \in Object}, loaded \in BOOLEAN :
       PlayerStart(c, level, loaded)
  \/ \E o \in Object : Drop(o) \/ CreateObject(o) \/ MarkForDeletion(o)
  \/ \E o \in Object, part \in Part : Change(o, part)
  \/ Update \/ UsePlayer

Spec == Init /\ [][Next]_vars

----------------------------------------------------------------------------
\* No two objects of the game have one identifier, and no free identifier is
\* listed twice or in use.  None that was ever handed out is lost: those in use
\* and those free are all below the counter or, once it has wrapped, all there
\* are.  So an object is refused its identifier only when every one is in use,
\* also when objects are marked again while they wait for deletion.
IdsAreExact ==
  /\ \A o, p \in active : idOf[o] = idOf[p] => o = p
  /\ \A i, j \in DOMAIN mOpenObjectIds : mOpenObjectIds[i] = mOpenObjectIds[j] => i = j
  /\ Elements(mOpenObjectIds) \cap UsedIds = {}
  /\ Elements(mOpenObjectIds) \cup UsedIds \in {1..(sNextId - 1), 1..MaxId}
  /\ Creatable \/ UsedIds = 1..MaxId

\* A client that was told of an object is told of its deletion before the
\* identifier is used again: what it holds is in the game.  The exception is a
\* player's character that was deleted before it was sent to anybody; a later
\* OnPlayerStart creates it at the clients.
NoGhosts == \A c \in Client : net.knows[c] \subseteq active \cup unsent

\* A client whose copy of an object is out of date will be sent the change by
\* the next Update: no reset of the update bits and no flag loses a change that
\* some client has not been sent.
StaleIsPending == \A c \in Client : net.stale[c] \subseteq net.dirty

\* "Create all existing objects" (instance.cpp, OnPlayerStart): the client that
\* starts knows every object of the game afterwards.
StartedKnowsAll ==
  [][\A c \in Client, level \in {{}} \cup {{o} : o \in Object} :
       PlayerStart(c, level, TRUE) => active' \subseteq net'.knows[c]]_vars
=============================================================================

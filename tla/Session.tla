------------------------------ MODULE Session -------------------------------
(***************************************************************************)
(* The connections of one game: RakNet::Server's handlers, the game state  *)
(* of each Client, the Player that HelloPlayerRequest gives it, and the    *)
(* catalysts that players carry, drop and pick up.  The handlers run on    *)
(* the RakNet thread, one packet at a time, with Instance::Update and the  *)
(* server tasks between them.                                              *)
(*                                                                         *)
(* A catalyst is an individual here.  The slots a client names are any:    *)
(* what a drag does to or from a slot that the grid does not have is       *)
(* DragOffGrid.  What a client is told of other players, and the state     *)
(* that the periodic GameState packet repeats, are left out.               *)
(***************************************************************************)
EXTENDS Naturals, FiniteSetsExt

CONSTANTS
  Client,    \* the addresses, ordered: mClients is a std::map
  User,      \* the users that are logged in
  Player,    \* the Player instances that may exist at one time
  Catalyst,  \* the catalysts that may exist at one time
  LastSlot,  \* the last slot of the grid, 8 in the code
  None       \* no user, player, catalyst

ASSUME SessionAssumption ==
  /\ Client \subseteq Nat
  /\ IsFiniteSet(Client) /\ Client # {}
  /\ LastSlot \in Nat
  /\ None \notin User \cup Player \cup Catalyst

VARIABLES
  clients,  \* mClients
  conn,     \* the Client objects, see Conn
  players,  \* mPlayers
  data,     \* the Player objects, see PlayerData
  object,   \* the object that holds a catalyst: "none", "ground", "marked"
  stale,    \* what a client has not been sent of its own player
  owned,    \* history: catalysts given out, and neither discarded with a player
            \* nor overwritten by a drag off the grid
  replaced  \* history: clients whose player was replaced after it was prepared

vars == <<clients, conn, players, data, object, stale, owned, replaced>>

Slot == 0..LastSlot
GameState == {"Invalid", "Spaceship", "PreDungeon", "Dungeon", "ChainVoting"}

\* The update bits: one per slot, one for the characters, one for the player's data.
CharacterBits == LastSlot + 1
PlayerBits == LastSlot + 2
Part == Slot \cup {CharacterBits, PlayerBits}

\* The numbers of clients and players.
Index == 0..(Cardinality(Client) - 1)

Conn == [state : GameState, id : Index, user : User \cup {None}, player : Player \cup {None}]

PlayerData ==
  [index : Index, squad : BOOLEAN, grid : [Slot -> Catalyst \cup {None}], bits : SUBSET Part]

TypeOK ==
  /\ clients \subseteq Client
  /\ conn \in [Client -> Conn]
  /\ players \in [User -> Player \cup {None}]
  /\ data \in [Player -> PlayerData]
  /\ object \in [Catalyst -> {"none", "ground", "marked"}]
  /\ stale \in [Client -> SUBSET Part]
  /\ owned \subseteq Catalyst
  /\ replaced \subseteq clients

NoConn == [state |-> "Invalid", id |-> 0, user |-> None, player |-> None]
NoPlayer == [index |-> 0, squad |-> FALSE, grid |-> [s \in Slot |-> None], bits |-> {}]

Init ==
  /\ clients = {}
  /\ conn = [c \in Client |-> NoConn]
  /\ players = [u \in User |-> None]
  /\ data = [p \in Player |-> NoPlayer]
  /\ object = [t \in Catalyst |-> "none"]
  /\ stale = [c \in Client |-> {}]
  /\ owned = {}
  /\ replaced = {}

----------------------------------------------------------------------------
\* Players.

Carried(d) == {d.grid[s] : s \in Slot} \ {None}

\* The players that somebody refers to, given mPlayers and the connections.
Referred(ps, cn) == ({ps[u] : u \in User} \cup {cn[c].player : c \in Client}) \ {None}

\* A Player that nobody refers to any more is destroyed, its catalysts with it.
Collect(d, ps, cn) == [p \in Player |-> IF p \in Referred(ps, cn) THEN d[p] ELSE NoPlayer]

Discarded(d, ps, cn) == UNION {Carried(d[p]) : p \in Player \ Referred(ps, cn)}

\* The catalysts that are free to be given out.
Unused == {t \in Catalyst \ owned : object[t] = "none"}

\* A player whose data changed in the given parts.
Touched(d, parts) == [d EXCEPT !.bits = @ \cup parts]

\* SetCatalyst: the slot's bit, and the player's for the bonuses.
Placed(d, t, s) == Touched([d EXCEPT !.grid[s] = t], {s, PlayerBits})

\* The changes reach the owner's copy when they are sent.
Miss(c, parts) == stale' = [stale EXCEPT ![c] = @ \cup parts]

----------------------------------------------------------------------------
\* Game states.

\* IsValidStateChange, for the states this server puts a client in.
IsValidStateChange(from, to) ==
  \/ to = "Spaceship" /\ from # "Spaceship"
  \/ from \in {"Invalid", "Dungeon"}
  \/ from = "Spaceship" /\ to \in {"PreDungeon", "ChainVoting"}
  \/ from = "PreDungeon" /\ to = "Dungeon"
  \/ from = "ChainVoting" /\ to = "PreDungeon"

\* Client::SetGameState: an invalid change is refused.
SetGameState(s, to) == IF IsValidStateChange(s, to) THEN to ELSE s

\* Mutant: SendGameStart does not ask whether the game was prepared.
MayStartAlways(s) == TRUE

MayStart(s) == s = "PreDungeon" /\ IsValidStateChange(s, "Dungeon")

----------------------------------------------------------------------------
\* Connections.

\* A client is numbered by the size of the map without it.
Number == Cardinality(clients)

\* AddClient and OnNewIncomingConnection; an address that is known keeps its
\* Client.
NewConnection(c) ==
  /\ clients' = clients \cup {c}
  /\ conn' = [conn EXCEPT ![c] =
       IF c \in clients
       THEN [@ EXCEPT !.state = SetGameState(conn[c].state, "Spaceship")]
       ELSE [NoConn EXCEPT !.state = "Spaceship", !.id = Number]]
  /\ replaced' = replaced \ {c}
  /\ UNCHANGED <<players, data, object, stale, owned>>

\* RemoveClient: mPlayers keeps the player.
RemoveClient(c) ==
  /\ c \in clients
  /\ clients' = clients \ {c}
  /\ conn' = [conn EXCEPT ![c] = NoConn]
  /\ data' = Collect(data, players, conn')
  /\ owned' = owned \ Discarded(data, players, conn')
  /\ stale' = [stale EXCEPT ![c] = {}]
  /\ replaced' = replaced \ {c}
  /\ UNCHANGED <<players, object>>

\* Mutant: the user's player is kept when the user says hello again.
GivenKept(u) == IF players[u] # None THEN {players[u]} ELSE Player \ Referred(players, conn)

\* SetUser removes the user's player and makes a new one, all of whose data is to
\* be sent.
Given(u) == Player \ Referred(players, conn)

\* OnHelloPlayerRequest fills all slots but the last.
Equipped(d, ts) ==
  [d EXCEPT !.grid = [s \in Slot |-> IF s = LastSlot THEN @[s] ELSE ts[s]],
            !.bits = @ \cup (Part \ {CharacterBits, LastSlot})]

HelloPlayerRequest(c, u) ==
  /\ c \in clients
  /\ \E p \in Given(u), ts \in [Slot \ {LastSlot} -> Unused] :
       /\ \A s, r \in DOMAIN ts : ts[s] = ts[r] => s = r
       /\ LET ps == [players EXCEPT ![u] = p]
              cn == [conn EXCEPT ![c].user = u, ![c].player = p]
              d == [data EXCEPT ![p] =
                     Equipped(IF p \in Referred(players, conn) THEN @
                              ELSE [NoPlayer EXCEPT !.index = conn[c].id, !.bits = Part], ts)]
          IN
            /\ players' = ps
            /\ conn' = cn
            /\ data' = Collect(d, ps, cn)
            /\ owned' = (owned \ Discarded(data, ps, cn)) \cup {ts[s] : s \in DOMAIN ts}
            /\ stale' = [stale EXCEPT ![c] = Part]
  /\ replaced' = replaced \cup {d \in {c} : conn[c].state \in {"PreDungeon", "Dungeon"}}
  /\ UNCHANGED <<clients, object>>

\* A user that is not logged in: SetUser changes nothing, and the player that
\* the connection already has is equipped again.
HelloUnknownUser(c) ==
  /\ c \in clients
  /\ conn[c].player # None
  /\ \E ts \in [Slot \ {LastSlot} -> Unused] :
       /\ \A s, r \in DOMAIN ts : ts[s] = ts[r] => s = r
       /\ data' = [data EXCEPT ![conn[c].player] = Equipped(@, ts)]
       /\ owned' = (owned \ {data[conn[c].player].grid[s] : s \in Slot \ {LastSlot}})
                     \cup {ts[s] : s \in DOMAIN ts}
  /\ Miss(c, Part \ {CharacterBits, LastSlot})
  /\ UNCHANGED <<clients, conn, players, object, replaced>>

----------------------------------------------------------------------------
\* Starting and leaving a level.

\* PrepareGameStart with a squad of the user: SetSquad, then the state.
PrepareGameStart(c) ==
  LET p == conn[c].player IN
    /\ c \in clients
    /\ p # None
    /\ data' = [data EXCEPT ![p] = Touched([@ EXCEPT !.squad = TRUE], {PlayerBits, CharacterBits})]
    /\ Miss(c, {PlayerBits, CharacterBits})
    /\ conn' = [conn EXCEPT ![c].state = SetGameState(@, "PreDungeon")]
    /\ replaced' = replaced \ {c}
    /\ UNCHANGED <<clients, players, object, owned>>

\* GetClient: the first connection with the number, if there is one.
ClientsOf(id) ==
  {c \in clients : conn[c].id = id /\ \A d \in clients : conn[d].id = id => c <= d}

\* SendLabsPlayerUpdate to the owner, then ResetUpdateBits.
SentTo(c, p, parts) ==
  /\ stale' = [stale EXCEPT ![c] = @ \ (data[p].bits \cup parts)]
  /\ data' = [data EXCEPT ![p].bits = {}]

\* OnPlayerStatusUpdate: the status starts the game (0x08), beams out whoever has
\* the player's number (0x20), or is just stored; then the sender is updated.
PlayerStatusUpdate(c, status) ==
  LET p == conn[c].player IN
    /\ c \in clients
    /\ p # None
    /\ \/ status = "start"
          /\ conn' = [conn EXCEPT ![c].state = IF MayStart(@) THEN "Dungeon" ELSE @]
       \/ status = "beam out"
          /\ conn' = [d \in Client |->
               IF d \in ClientsOf(data[p].index)
               THEN [conn[d] EXCEPT !.state = SetGameState(@, "ChainVoting")]
               ELSE conn[d]]
       \/ status = "loading" /\ UNCHANGED conn
    /\ SentTo(c, p, {PlayerBits})
    /\ UNCHANGED <<clients, players, object, owned, replaced>>

\* OnDebugPing: in the dungeon, OnPlayerStart and a swap to the second character,
\* which is sent to everybody; and SwitchCharacter, which does the latter.
SwapCharacter(c) ==
  /\ c \in clients
  /\ conn[c].player # None
  /\ SentTo(c, conn[c].player, {PlayerBits, CharacterBits})
  /\ UNCHANGED <<clients, conn, players, object, owned, replaced>>

\* Mutant: the bits are reset for every player, sent or not.
UpdatedAll(p) == TRUE

\* Only the players in mPlayers are visited.
Updated(p) == \E u \in User : players[u] = p

\* Instance::Update: ObjectManager::Update deletes what is marked, then every
\* player of the game is sent to every client.
Update ==
  /\ object' = [t \in Catalyst |-> IF object[t] = "marked" THEN "none" ELSE object[t]]
  /\ stale' = [c \in Client |->
       LET p == conn[c].player IN
         IF p # None /\ \E u \in User : players[u] = p THEN stale[c] \ data[p].bits ELSE stale[c]]
  /\ data' = [p \in Player |-> IF Updated(p) THEN [data[p] EXCEPT !.bits = {}] ELSE data[p]]
  /\ UNCHANGED <<clients, conn, players, owned, replaced>>

\* add_client_task for LabsPlayerUpdate goes to the first client, whatever
\* number it was posted for.  With no client the code dereferences end().
ResendTask ==
  /\ clients # {}
  /\ LET c == Min(clients) IN
       /\ conn[c].player # None
       /\ SentTo(c, conn[c].player, Part)
  /\ UNCHANGED <<clients, conn, players, object, owned, replaced>>

----------------------------------------------------------------------------
\* Catalysts.

\* A character is deployed once a squad was set.
Deployed(c) == c \in clients /\ conn[c].player # None /\ data[conn[c].player].squad

\* The slot the catalyst was dropped from is cleared.
Emptied(d, s) == Placed(d, None, s)

\* OnCrystalDragMessage, moveType 0: DropCatalyst puts it on the ground.
DropCatalyst(c, s) ==
  LET p == conn[c].player IN
    /\ Deployed(c)
    /\ data[p].grid[s] # None
    /\ object' = [object EXCEPT ![data[p].grid[s]] = "ground"]
    /\ data' = [data EXCEPT ![p] = Emptied(@, s)]
    /\ Miss(c, {s, PlayerBits})
    /\ UNCHANGED <<clients, conn, players, owned, replaced>>

\* Mutant: the catalyst of the other slot is read after it was overwritten.
SwappedLate(d, s, r) == Placed(Placed(d, d.grid[s], r), d.grid[s], s)

\* Both catalysts are read before either slot is written.
Swapped(d, s, r) == Placed(Placed(d, d.grid[s], r), d.grid[r], s)

\* OnCrystalDragMessage, moveType 2.
MoveCatalyst(c, s, r) ==
  LET p == conn[c].player IN
    /\ Deployed(c)
    /\ data[p].grid[s] # None
    /\ s # r
    /\ data' = [data EXCEPT ![p] = Swapped(@, s, r)]
    /\ Miss(c, {s, r, PlayerBits})
    /\ UNCHANGED <<clients, conn, players, object, owned, replaced>>

\* OnCrystalDragMessage, moveType 2, between slot s and one that the grid does not
\* have, either way: SetCatalyst ignores that slot, and slot s is overwritten with
\* what GetCatalyst read there: nothing; or, from the place behind the last slot,
\* which it takes for one of the grid, the bonuses, as a catalyst that nobody gave.
DragOffGrid(c, s, o) ==
  LET p == conn[c].player IN
    /\ Deployed(c)
    /\ o \in Unused \cup {None}
    /\ data[p].grid[s] # None \/ o # None
    /\ data' = [data EXCEPT ![p] = Placed(@, o, s)]
    /\ owned' = (owned \ {data[p].grid[s]}) \cup ({o} \ {None})
    /\ Miss(c, {s, PlayerBits})
    /\ UNCHANGED <<clients, conn, players, object, replaced>>

\* Mutant: the search starts behind the first slot.
OpenBehindFirst(d) == {s \in Slot \ {0} : d.grid[s] = None}

\* GetOpenCatalystSlot.
Open(d) == {s \in Slot : d.grid[s] = None}

\* InteractWithObject on a catalyst: an object that is marked is gone already,
\* and a full grid leaves it where it is.
PickupCatalyst(c, t) ==
  LET p == conn[c].player IN
    /\ c \in clients
    /\ p # None
    /\ object[t] = "ground"
    /\ Open(data[p]) # {}
    /\ object' = [object EXCEPT ![t] = "marked"]
    /\ LET s == Min(Open(data[p])) IN
         /\ data' = [data EXCEPT ![p] = Placed(@, t, s)]
         /\ Miss(c, {s, PlayerBits})
    /\ UNCHANGED <<clients, conn, players, owned, replaced>>

\* InteractWithObject on anything else, and the chat command: DropLoot and
\* DropCatalyst put a new catalyst on the ground.  So does a drop of what lies
\* behind the grid.
NewCatalyst(t) ==
  /\ \E c \in Client : Deployed(c)
  /\ t \in Unused
  /\ object' = [object EXCEPT ![t] = "ground"]
  /\ owned' = owned \cup {t}
  /\ UNCHANGED <<clients, conn, players, data, stale, replaced>>

Next ==
  \/ \E c \in Client :
       \/ NewConnection(c) \/ RemoveClient(c)
       \/ HelloUnknownUser(c) \/ PrepareGameStart(c) \/ SwapCharacter(c)
       \/ \E u \in User : HelloPlayerRequest(c, u)
       \/ \E status \in {"start", "beam out", "loading"} : PlayerStatusUpdate(c, status)
       \/ \E s \in Slot : DropCatalyst(c, s)
       \/ \E s, r \in Slot : MoveCatalyst(c, s, r)
       \/ \E s \in Slot, o \in Catalyst \cup {None} : DragOffGrid(c, s, o)
       \/ \E t \in Catalyst : PickupCatalyst(c, t)
  \/ \E t \in Catalyst : NewCatalyst(t)
  \/ Update
  \/ ResendTask

Spec == Init /\ [][Next]_vars

----------------------------------------------------------------------------
\* A catalyst that was given out is in one place, in one slot of one player or
\* on the ground, until its player is discarded or given new ones, or a drag to or
\* from a slot that the grid does not have overwrites it: no drag within the grid,
\* drop, race for one object or hello of another copies it or loses it, and no
\* drag copies it.
CatalystsConserved ==
  LET places(t) ==
        {ps \in Player \X Slot : data[ps[1]].grid[ps[2]] = t}
          \cup {<<o>> : o \in {"ground"} \cap {object[t]}}
  IN \A t \in Catalyst : Cardinality(places(t)) = IF t \in owned THEN 1 ELSE 0

\* No two connections share a Player, and a connection's Player bears its number:
\* also when one user says hello on two connections, or again on one.
PlayersAreNotShared ==
  \A c \in clients : conn[c].player # None =>
    /\ data[conn[c].player].index = conn[c].id
    /\ \A d \in clients \ {c} : conn[d].player # conn[c].player

\* What a client has not been sent of its own player is still marked in the
\* player's update bits: neither sending to one client nor a second connection
\* of the same user makes the server forget it.
OwnCopyPending ==
  \A c \in clients : conn[c].player # None => stale[c] \subseteq data[conn[c].player].bits

\* A client that is in the dungeon chose a squad for the player it plays, unless
\* it said hello again after it had chosen one.
DungeonHasSquad ==
  \A c \in clients \ replaced : conn[c].state = "Dungeon" => data[conn[c].player].squad

\* "u8: gameIndex (player id in game)" (server.cpp, SendHelloPlayer): the number
\* a client is told identifies its player in the game.
IndexIdentifiesPlayer ==
  \A c, d \in clients : conn[c].id = conn[d].id => c = d

----------------------------------------------------------------------------
\* Where a catalyst is, for whoever knows nothing of connections: a refinement
\* mapping to CatalystCustody.
PlaceOf(d, ob, t) ==
  IF ob[t] = "ground" THEN [at |-> "ground", player |-> None, slot |-> 0]
  ELSE IF \A p \in Player : \A s \in Slot : d[p].grid[s] # t
       THEN [at |-> "nowhere", player |-> None, slot |-> 0]
  ELSE LET p == CHOOSE p \in Player : \E s \in Slot : d[p].grid[s] = t
           s == CHOOSE s \in Slot : d[p].grid[s] = t
       IN [at |-> "slot", player |-> p, slot |-> s]

Places == [t \in Catalyst |-> PlaceOf(data, object, t)]

Custody == INSTANCE CatalystCustody WITH place <- Places

\* Whatever the clients send and in whatever order, a catalyst moves only in the
\* ways of CatalystCustody and alone: it is picked up into the first free slot,
\* trades places only within its grid, and is lost only with its player, to new
\* ones, or from its slot by a drag off the grid.
ImplementsCustody == Custody!Spec
=============================================================================

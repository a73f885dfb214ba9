--------------------------- MODULE SessionProofs ----------------------------
(***************************************************************************)
(* Theorems about Session for any number of addresses, users, players and  *)
(* catalysts, and any size of the grid.                                    *)
(*                                                                         *)
(* IInv says who refers to a player: an address without a Client refers to *)
(* none, and a player without a reference carries nothing, so that what a  *)
(* second hello discards is what is lost.  A catalyst is in at most one    *)
(* slot of one player, and then not on the ground.                         *)
(***************************************************************************)
EXTENDS Session, SequenceLemmas

\* RemoveClient destroys the Client.
StrangersAreBlank == \A c \in Client \ clients : conn[c] = NoConn

\* The last reference destroys the Player.
UnreferredIsEmpty == \A p \in Player \ Referred(players, conn) : data[p] = NoPlayer

\* Once the game was prepared the connection has a player with a squad.
PreparedHasSquad ==
  \A c \in clients \ replaced : conn[c].state \in {"PreDungeon", "Dungeon"} =>
    conn[c].player # None /\ data[conn[c].player].squad

HeldOnce ==
  \A p, q \in Player : \A s, r \in Slot :
    data[p].grid[s] # None /\ data[p].grid[s] = data[q].grid[r] => p = q /\ s = r

HeldIsLifted ==
  \A p \in Player : \A s \in Slot : data[p].grid[s] # None => object[data[p].grid[s]] # "ground"

Held == {t \in Catalyst : \E p \in Player : \E s \in Slot : data[p].grid[s] = t}
OnGround == {t \in Catalyst : object[t] = "ground"}

OwnedIsPlaced == owned = Held \cup OnGround

CatalystsInv == HeldOnce /\ HeldIsLifted /\ OwnedIsPlaced

IInv ==
  /\ TypeOK
  /\ StrangersAreBlank
  /\ UnreferredIsEmpty
  /\ PlayersAreNotShared
  /\ OwnCopyPending
  /\ PreparedHasSquad
  /\ CatalystsInv

----------------------------------------------------------------------------
\* The operators.

\* The slot that GetOpenCatalystSlot finds, and the client the resend task finds.
LEMMA Minimum ==
  ASSUME NEW T \in SUBSET Nat, T # {}
  PROVE  Min(T) \in T /\ \A y \in T : Min(T) <= y
BY Least DEF Min

LEMMA Bounds ==
  /\ 0 \in Index
  /\ \A s \in Slot : s \in Part
  /\ CharacterBits \in Part /\ PlayerBits \in Part
  /\ None \notin User /\ None \notin Player /\ None \notin Catalyst
  /\ NoConn \in Conn /\ NoPlayer \in PlayerData
  /\ NoConn.player = None /\ \A s \in Slot : NoPlayer.grid[s] = None
<1>1. Cardinality(Client) \in Nat /\ Cardinality(Client) # 0
  BY SessionAssumption, FS_CardinalityType, FS_EmptySet
<1>2. 0 \in Index
  BY <1>1 DEF Index
<1>3. NoConn \in Conn /\ NoConn.player = None
  BY <1>2 DEF NoConn, Conn, GameState
<1>4. NoPlayer \in PlayerData /\ \A s \in Slot : NoPlayer.grid[s] = None
  BY <1>2 DEF NoPlayer, PlayerData
<1> QED BY <1>2, <1>3, <1>4, SessionAssumption DEF Part

\* A new client is numbered below the number of the addresses.
LEMMA NumberIsIndex ==
  ASSUME clients \subseteq Client, NEW c \in Client \ clients
  PROVE  Number \in Index
<1>1. IsFiniteSet(clients) /\ Cardinality(clients) <= Cardinality(Client)
      /\ Cardinality(clients) # Cardinality(Client)
  BY SessionAssumption, FS_Subset
<1>2. Cardinality(clients) \in Nat /\ Cardinality(Client) \in Nat
  BY <1>1, SessionAssumption, FS_CardinalityType
<1> QED BY <1>1, <1>2 DEF Number, Index

LEMMA TouchedFields ==
  ASSUME NEW d \in PlayerData, NEW parts \in SUBSET Part
  PROVE  /\ Touched(d, parts) \in PlayerData
         /\ Touched(d, parts).index = d.index /\ Touched(d, parts).squad = d.squad
         /\ Touched(d, parts).grid = d.grid /\ Touched(d, parts).bits = d.bits \cup parts
BY DEF Touched, PlayerData

LEMMA PlacedFields ==
  ASSUME NEW d \in PlayerData, NEW t \in Catalyst \cup {None}, NEW s \in Slot
  PROVE  /\ Placed(d, t, s) \in PlayerData
         /\ Placed(d, t, s).index = d.index /\ Placed(d, t, s).squad = d.squad
         /\ Placed(d, t, s).grid = [d.grid EXCEPT ![s] = t]
         /\ Placed(d, t, s).bits = d.bits \cup {s, PlayerBits}
<1> DEFINE g == [d.grid EXCEPT ![s] = t]
           e == [d EXCEPT !.grid[s] = t]
<1>1. g \in [Slot -> Catalyst \cup {None}]
  BY DEF PlayerData
<1>2. e = [d EXCEPT !.grid = g]
  BY DEF PlayerData
<1>3. {s, PlayerBits} \in SUBSET Part
  BY Bounds
<1> HIDE DEF g
<1>4. e \in PlayerData /\ e.index = d.index /\ e.squad = d.squad /\ e.grid = g /\ e.bits = d.bits
  BY <1>1, <1>2 DEF PlayerData
<1>5. Placed(d, t, s) = Touched(e, {s, PlayerBits})
  BY DEF Placed
<1> HIDE DEF e
<1>6. /\ Touched(e, {s, PlayerBits}) \in PlayerData
      /\ Touched(e, {s, PlayerBits}).index = e.index
      /\ Touched(e, {s, PlayerBits}).squad = e.squad
      /\ Touched(e, {s, PlayerBits}).grid = e.grid
      /\ Touched(e, {s, PlayerBits}).bits = e.bits \cup {s, PlayerBits}
  BY <1>3, <1>4, TouchedFields
<1> QED BY <1>4, <1>5, <1>6 DEF g

LEMMA SwappedFields ==
  ASSUME NEW d \in PlayerData, NEW s \in Slot, NEW r \in Slot
  PROVE  /\ Swapped(d, s, r) \in PlayerData
         /\ Swapped(d, s, r).index = d.index /\ Swapped(d, s, r).squad = d.squad
         /\ Swapped(d, s, r).grid = [d.grid EXCEPT ![r] = d.grid[s], ![s] = d.grid[r]]
         /\ Swapped(d, s, r).bits = d.bits \cup {s, r, PlayerBits}
<1>1. d.grid[s] \in Catalyst \cup {None} /\ d.grid[r] \in Catalyst \cup {None}
  BY DEF PlayerData
<1> DEFINE e == Placed(d, d.grid[s], r)
<1>2. /\ e \in PlayerData
      /\ e.index = d.index /\ e.squad = d.squad
      /\ e.grid = [d.grid EXCEPT ![r] = d.grid[s]]
      /\ e.bits = d.bits \cup {r, PlayerBits}
  BY <1>1, PlacedFields
<1>3. Swapped(d, s, r) = Placed(e, d.grid[r], s)
  BY DEF Swapped
<1> HIDE DEF e
<1>4. /\ Placed(e, d.grid[r], s) \in PlayerData
      /\ Placed(e, d.grid[r], s).index = e.index /\ Placed(e, d.grid[r], s).squad = e.squad
      /\ Placed(e, d.grid[r], s).grid = [e.grid EXCEPT ![s] = d.grid[r]]
      /\ Placed(e, d.grid[r], s).bits = e.bits \cup {s, PlayerBits}
  BY <1>1, <1>2, PlacedFields
<1> QED BY <1>2, <1>3, <1>4

LEMMA EquippedFields ==
  ASSUME NEW d \in PlayerData, NEW ts \in [Slot \ {LastSlot} -> Catalyst]
  PROVE  /\ Equipped(d, ts) \in PlayerData
         /\ Equipped(d, ts).index = d.index /\ Equipped(d, ts).squad = d.squad
         /\ \A s \in Slot :
              Equipped(d, ts).grid[s] = IF s = LastSlot THEN d.grid[s] ELSE ts[s]
         /\ Equipped(d, ts).bits = d.bits \cup (Part \ {CharacterBits, LastSlot})
<1> DEFINE g == [s \in Slot |-> IF s = LastSlot THEN d.grid[s] ELSE ts[s]]
           b == d.bits \cup (Part \ {CharacterBits, LastSlot})
<1>1. g \in [Slot -> Catalyst \cup {None}] /\ b \in SUBSET Part
  BY DEF PlayerData
<1>2. Equipped(d, ts) = [d EXCEPT !.grid = g, !.bits = b]
  BY DEF Equipped
<1>3. \A s \in Slot : g[s] = IF s = LastSlot THEN d.grid[s] ELSE ts[s]
  OBVIOUS
<1> HIDE DEF g, b
<1>4. /\ Equipped(d, ts) \in PlayerData
      /\ Equipped(d, ts).index = d.index /\ Equipped(d, ts).squad = d.squad
      /\ Equipped(d, ts).grid = g /\ Equipped(d, ts).bits = b
  BY <1>1, <1>2 DEF PlayerData
<1> QED BY <1>3, <1>4 DEF b

----------------------------------------------------------------------------
\* What steps of one kind have in common.

LinksInv == StrangersAreBlank /\ UnreferredIsEmpty /\ PlayersAreNotShared /\ OwnCopyPending

Prepared == {"PreDungeon", "Dungeon"}

\* A connection is left with its player and its number.
KeepsPlayers(cn) ==
  /\ cn \in [Client -> Conn]
  /\ \A d \in Client : cn[d].player = conn[d].player /\ cn[d].id = conn[d].id
  /\ \A d \in Client \ clients : cn[d] = conn[d]

LEMMA PlayerOf ==
  ASSUME IInv, NEW c \in clients, conn[c].player # None
  PROVE  /\ c \in Client /\ conn[c].player \in Player
         /\ conn[c].player \in Referred(players, conn)
         /\ data[conn[c].player] \in PlayerData
         /\ \A d \in Client : conn[d].player = conn[c].player => d = c
<1>1. c \in Client /\ conn[c] \in Conn
  BY DEF IInv, TypeOK
<1>2. conn[c].player \in Player
  BY <1>1 DEF Conn
<1>3. data[conn[c].player] \in PlayerData
  BY <1>2 DEF IInv, TypeOK
<1>4. ASSUME NEW d \in Client, conn[d].player = conn[c].player PROVE d = c
  <2>1. d \in clients
    BY <1>4, Bounds DEF IInv, StrangersAreBlank
  <2> QED BY <2>1, <1>4 DEF IInv, PlayersAreNotShared
<1> QED BY <1>1, <1>2, <1>3, <1>4 DEF Referred

\* A step that changes one connection's player, and what was not sent of it.
LEMMA OnePlayer ==
  ASSUME IInv, NEW c \in clients, conn[c].player # None, NEW e \in PlayerData,
         e.index = data[conn[c].player].index,
         data' = [data EXCEPT ![conn[c].player] = e],
         KeepsPlayers(conn'), UNCHANGED <<clients, players>>,
         stale' \in [Client -> SUBSET Part],
         stale'[c] \subseteq e.bits,
         \A d \in Client \ {c} : stale'[d] = stale[d]
  PROVE  LinksInv' /\ data' \in [Player -> PlayerData]
<1> DEFINE p == conn[c].player
<1>1. /\ c \in Client /\ p \in Player /\ p \in Referred(players, conn)
      /\ \A d \in Client : conn[d].player = p => d = c
  BY PlayerOf
<1>2. data \in [Player -> PlayerData] /\ clients \subseteq Client
  BY DEF IInv, TypeOK
<1>3. data' \in [Player -> PlayerData]
  BY <1>2
<1>4. data'[p] = e /\ \A q \in Player : q # p => data'[q] = data[q]
  BY <1>1, <1>2
<1>5. Referred(players, conn)' = Referred(players, conn)
  BY DEF KeepsPlayers, Referred
<1>6. UnreferredIsEmpty'
  BY <1>1, <1>4, <1>5 DEF IInv, UnreferredIsEmpty
<1>7. StrangersAreBlank'
  BY DEF IInv, StrangersAreBlank, KeepsPlayers
<1>8. \A d \in clients : conn'[d].player = conn[d].player /\ conn'[d].id = conn[d].id
  BY <1>2 DEF KeepsPlayers
<1>9. \A d \in clients : conn[d].player # None => conn[d].player \in Player
  BY PlayerOf
<1>10. PlayersAreNotShared'
  <2>1. ASSUME NEW d \in clients, conn[d].player # None
        PROVE  data'[conn[d].player].index = data[conn[d].player].index
    BY <2>1, <1>4, <1>9
  <2> QED BY <2>1, <1>8 DEF IInv, PlayersAreNotShared
<1>11. OwnCopyPending'
  <2>1. ASSUME NEW d \in clients, conn[d].player # None
        PROVE  stale'[d] \subseteq data'[conn[d].player].bits
    <3>1. CASE d = c
      BY <3>1, <1>4
    <3>2. CASE d # c
      <4>1. data'[conn[d].player] = data[conn[d].player]
        BY <2>1, <3>2, <1>1, <1>2, <1>4, <1>9
      <4> QED BY <4>1, <3>2, <2>1, <1>2 DEF IInv, OwnCopyPending
    <3> QED BY <3>1, <3>2
  <2> QED BY <2>1, <1>8 DEF OwnCopyPending
<1> QED BY <1>3, <1>6, <1>7, <1>10, <1>11 DEF LinksInv

LEMMA MissedByOne ==
  ASSUME IInv, NEW c \in clients, conn[c].player # None, NEW e \in PlayerData,
         NEW parts \in SUBSET Part,
         e.index = data[conn[c].player].index,
         e.bits = data[conn[c].player].bits \cup parts,
         data' = [data EXCEPT ![conn[c].player] = e],
         KeepsPlayers(conn'), UNCHANGED <<clients, players>>,
         Miss(c, parts)
  PROVE  LinksInv' /\ data' \in [Player -> PlayerData] /\ stale' \in [Client -> SUBSET Part]
<1>1. c \in Client /\ stale \in [Client -> SUBSET Part]
  BY DEF IInv, TypeOK
<1>2. stale' = [stale EXCEPT ![c] = stale[c] \cup parts]
  BY DEF Miss
<1>3. stale' \in [Client -> SUBSET Part]
  BY <1>1, <1>2
<1>4. stale[c] \subseteq data[conn[c].player].bits
  BY DEF IInv, OwnCopyPending
<1>5. stale'[c] \subseteq e.bits /\ \A d \in Client \ {c} : stale'[d] = stale[d]
  BY <1>1, <1>2, <1>4
<1> QED BY <1>3, <1>5, OnePlayer

LEMMA SquadsInv ==
  ASSUME IInv, UNCHANGED <<clients, replaced>>, KeepsPlayers(conn'),
         \A d \in clients : conn'[d].state \in Prepared => conn[d].state \in Prepared,
         \A q \in Player : data[q].squad => data'[q].squad
  PROVE  PreparedHasSquad'
<1>1. clients \subseteq Client
  BY DEF IInv, TypeOK
<1>2. ASSUME NEW d \in clients \ replaced, conn'[d].state \in Prepared
      PROVE  conn'[d].player # None /\ data'[conn'[d].player].squad
  <2>1. conn[d].player # None /\ data[conn[d].player].squad
    BY <1>2 DEF IInv, PreparedHasSquad, Prepared
  <2>2. conn[d].player \in Player
    BY <2>1, PlayerOf
  <2> QED BY <1>1, <2>1, <2>2 DEF KeepsPlayers
<1> QED BY <1>2 DEF PreparedHasSquad, Prepared

\* A step that moves no catalyst.
LEMMA NothingMoved ==
  ASSUME IInv, owned' = owned,
         \A q \in Player : data'[q].grid = data[q].grid,
         \A t \in Catalyst : object'[t] = "ground" <=> object[t] = "ground"
  PROVE  CatalystsInv'
<1>1. ASSUME NEW q \in Player, NEW s \in Slot
      PROVE  data[q].grid[s] \in Catalyst \cup {None} /\ data'[q].grid[s] = data[q].grid[s]
  <2>1. data[q] \in PlayerData
    BY DEF IInv, TypeOK
  <2> QED BY <2>1 DEF PlayerData
<1>2. HeldOnce'
  BY <1>1 DEF IInv, CatalystsInv, HeldOnce
<1>3. HeldIsLifted'
  BY <1>1 DEF IInv, CatalystsInv, HeldIsLifted
<1>4. OwnedIsPlaced'
  BY <1>1 DEF IInv, CatalystsInv, OwnedIsPlaced, Held, OnGround
<1> QED BY <1>2, <1>3, <1>4 DEF CatalystsInv

\* Sending the owner its player, alone.
LEMMA SentToInv ==
  ASSUME IInv, NEW c \in clients, conn[c].player # None, NEW parts \in SUBSET Part,
         SentTo(c, conn[c].player, parts),
         KeepsPlayers(conn'), UNCHANGED <<clients, players, object, owned, replaced>>,
         \A d \in clients : conn'[d].state \in Prepared => conn[d].state \in Prepared
  PROVE  IInv'
<1> DEFINE p == conn[c].player
           e == [data[p] EXCEPT !.bits = {}]
<1>1. c \in Client /\ p \in Player /\ data[p] \in PlayerData
  BY PlayerOf
<1>2. /\ e \in PlayerData /\ e.index = data[p].index /\ e.squad = data[p].squad
      /\ e.grid = data[p].grid /\ e.bits = {}
  BY <1>1 DEF PlayerData
<1>3. data \in [Player -> PlayerData] /\ stale \in [Client -> SUBSET Part]
  BY DEF IInv, TypeOK
<1>4. data' = [data EXCEPT ![p] = e] /\ stale' = [stale EXCEPT ![c] = stale[c] \ (data[p].bits \cup parts)]
  BY DEF SentTo
<1>5. stale[c] \subseteq data[p].bits
  BY DEF IInv, OwnCopyPending
<1> HIDE DEF e
<1>6. /\ stale' \in [Client -> SUBSET Part] /\ stale'[c] \subseteq e.bits
      /\ \A d \in Client \ {c} : stale'[d] = stale[d]
  BY <1>1, <1>2, <1>3, <1>4, <1>5
<1>7. LinksInv' /\ data' \in [Player -> PlayerData]
  BY <1>2, <1>4, <1>6, OnePlayer
<1>8. \A q \in Player : data'[q].grid = data[q].grid /\ (data[q].squad => data'[q].squad)
  BY <1>1, <1>2, <1>3, <1>4
<1>9. PreparedHasSquad' /\ CatalystsInv'
  BY <1>8, SquadsInv, NothingMoved
<1>10. TypeOK'
  BY <1>6, <1>7 DEF IInv, TypeOK, KeepsPlayers
<1> QED BY <1>7, <1>9, <1>10 DEF IInv, LinksInv

----------------------------------------------------------------------------
\* One lemma per action.

LEMMA InitIInv == Init => IInv
<1> SUFFICES ASSUME Init PROVE IInv
  OBVIOUS
<1>1. TypeOK
  BY Bounds DEF Init, TypeOK
<1>2. LinksInv
  BY DEF Init, LinksInv, StrangersAreBlank, UnreferredIsEmpty, PlayersAreNotShared, OwnCopyPending
<1>3. PreparedHasSquad
  BY DEF Init, PreparedHasSquad
<1>4. \A p \in Player : \A s \in Slot : data[p].grid[s] = None
  BY Bounds DEF Init
<1>5. CatalystsInv
  BY <1>4, Bounds DEF Init, CatalystsInv, HeldOnce, HeldIsLifted, OwnedIsPlaced, Held, OnGround
<1> QED BY <1>1, <1>2, <1>3, <1>5 DEF IInv, LinksInv

LEMMA StateSet ==
  ASSUME IInv, NEW c \in clients, NEW s \in GameState
  PROVE  /\ KeepsPlayers([conn EXCEPT ![c].state = s])
         /\ [conn EXCEPT ![c].state = s][c].state = s
         /\ \A d \in Client \ {c} : [conn EXCEPT ![c].state = s][d] = conn[d]
<1>1. c \in Client /\ conn[c] \in Conn /\ conn \in [Client -> Conn]
  BY DEF IInv, TypeOK
<1> DEFINE n == [conn[c] EXCEPT !.state = s]
<1>2. n \in Conn /\ n.state = s /\ n.player = conn[c].player /\ n.id = conn[c].id
  BY <1>1 DEF Conn
<1>3. [conn EXCEPT ![c].state = s] = [conn EXCEPT ![c] = n]
  OBVIOUS
<1> HIDE DEF n
<1> QED BY <1>1, <1>2, <1>3 DEF KeepsPlayers

LEMMA StatesStay ==
  ASSUME NEW s \in GameState, NEW to \in GameState
  PROVE  SetGameState(s, to) \in GameState /\ SetGameState(s, to) \in {s, to}
BY DEF SetGameState

LEMMA NewConnectionInv ==
  ASSUME IInv, NEW c \in Client, NewConnection(c)
  PROVE  IInv'
<1>1. conn[c] \in Conn /\ conn \in [Client -> Conn] /\ clients \subseteq Client
  BY DEF IInv, TypeOK
<1> DEFINE n == conn'[c]
<1>2. n \in Conn /\ n.player = conn[c].player /\ n.state \notin Prepared
      /\ (c \in clients => n.id = conn[c].id)
  <2>1. CASE c \in clients
    <3>1. n = [conn[c] EXCEPT !.state = SetGameState(conn[c].state, "Spaceship")]
      BY <1>1, <2>1 DEF NewConnection
    <3>2. SetGameState(conn[c].state, "Spaceship") = "Spaceship"
      BY DEF SetGameState, IsValidStateChange
    <3> QED BY <1>1, <2>1, <3>1, <3>2 DEF Conn, GameState, Prepared
  <2>2. CASE c \notin clients
    <3>1. n = [NoConn EXCEPT !.state = "Spaceship", !.id = Number]
      BY <1>1, <2>2 DEF NewConnection
    <3>2. Number \in Index
      BY <1>1, <2>2, NumberIsIndex
    <3>3. conn[c] = NoConn
      BY <2>2 DEF IInv, StrangersAreBlank
    <3> HIDE DEF n
    <3> QED BY <2>2, <3>1, <3>2, <3>3 DEF Conn, NoConn, GameState, Prepared
  <2> QED BY <2>1, <2>2
<1>3. conn' = [conn EXCEPT ![c] = n]
  BY <1>1 DEF NewConnection
<1> HIDE DEF n
<1>4. TypeOK'
  BY <1>1, <1>2, <1>3 DEF NewConnection, IInv, TypeOK
<1>5. \A d \in Client : conn'[d].player = conn[d].player
  BY <1>1, <1>2, <1>3
<1>6. Referred(players, conn)' = Referred(players, conn)
  BY <1>5 DEF Referred, NewConnection
<1>7. StrangersAreBlank' /\ UnreferredIsEmpty'
  BY <1>1, <1>3, <1>6 DEF NewConnection, IInv, StrangersAreBlank, UnreferredIsEmpty
<1>8. c \notin clients => conn[c].player = None
  BY Bounds DEF IInv, StrangersAreBlank
<1>9. PlayersAreNotShared'
  <2>1. \A d \in clients' : conn'[d].player # None => d \in clients /\ conn'[d].id = conn[d].id
    BY <1>1, <1>2, <1>3, <1>5, <1>8 DEF NewConnection
  <2>2. \A d \in clients' : conn'[d].player = conn[d].player
    BY <1>4, <1>5 DEF TypeOK
  <2>3. data' = data
    BY DEF NewConnection
  <2> QED BY <2>1, <2>2, <2>3 DEF IInv, PlayersAreNotShared
<1>10. OwnCopyPending'
  BY <1>1, <1>5, <1>8 DEF NewConnection, IInv, OwnCopyPending
<1>11. PreparedHasSquad'
  <2>1. ASSUME NEW d \in clients' \ replaced', conn'[d].state \in Prepared
        PROVE  conn'[d].player # None /\ data'[conn'[d].player].squad
    <3>1. d # c
      BY <2>1, <1>1, <1>2, <1>3
    <3>2. d \in clients \ replaced /\ conn'[d] = conn[d] /\ data' = data
      BY <2>1, <3>1, <1>1, <1>3 DEF NewConnection
    <3> QED BY <2>1, <3>2 DEF IInv, PreparedHasSquad, Prepared
  <2> QED BY <2>1 DEF PreparedHasSquad, Prepared
<1>12. CatalystsInv'
  BY NothingMoved DEF NewConnection
<1> QED BY <1>4, <1>7, <1>9, <1>10, <1>11, <1>12 DEF IInv

LEMMA PrepareGameStartInv ==
  ASSUME IInv, NEW c \in Client, PrepareGameStart(c)
  PROVE  IInv'
<1> DEFINE p == conn[c].player
           parts == {PlayerBits, CharacterBits}
           q == [data[p] EXCEPT !.squad = TRUE]
           e == Touched(q, parts)
           s == SetGameState(conn[c].state, "PreDungeon")
<1>1. c \in clients /\ p # None
  BY DEF PrepareGameStart
<1>2. p \in Player /\ data[p] \in PlayerData /\ data \in [Player -> PlayerData]
  BY <1>1, PlayerOf DEF IInv, TypeOK
<1>3. q \in PlayerData /\ q.index = data[p].index /\ q.grid = data[p].grid
      /\ q.bits = data[p].bits /\ q.squad = TRUE
  BY <1>2 DEF PlayerData
<1>4. parts \in SUBSET Part
  BY Bounds
<1> HIDE DEF q
<1>5. e \in PlayerData /\ e.index = data[p].index /\ e.grid = data[p].grid
      /\ e.squad = TRUE /\ e.bits = data[p].bits \cup parts
  BY <1>3, <1>4, TouchedFields
<1>6. data' = [data EXCEPT ![p] = e] /\ Miss(c, parts)
  BY DEF PrepareGameStart, q
<1>7. conn' = [conn EXCEPT ![c].state = s]
  BY DEF PrepareGameStart
<1>8. conn[c].state \in GameState
  BY DEF IInv, TypeOK, Conn
<1>9. s \in GameState
  BY <1>8, StatesStay DEF GameState
<1> HIDE DEF e, s, parts
<1>10. KeepsPlayers(conn') /\ \A d \in Client \ {c} : conn'[d] = conn[d]
  <2>1. /\ KeepsPlayers([conn EXCEPT ![c].state = s])
        /\ \A d \in Client \ {c} : [conn EXCEPT ![c].state = s][d] = conn[d]
    BY <1>1, <1>9, StateSet
  <2> QED BY <1>7, <2>1
<1>11. LinksInv' /\ data' \in [Player -> PlayerData] /\ stale' \in [Client -> SUBSET Part]
  BY <1>1, <1>4, <1>5, <1>6, <1>10, MissedByOne DEF PrepareGameStart
<1>12. TypeOK'
  BY <1>10, <1>11 DEF IInv, TypeOK, KeepsPlayers, PrepareGameStart
<1>13. \A r \in Player : data'[r].grid = data[r].grid /\ (data[r].squad => data'[r].squad)
  BY <1>2, <1>5, <1>6
<1>14. CatalystsInv'
  BY <1>13, NothingMoved DEF PrepareGameStart
<1>15. PreparedHasSquad'
  <2>1. ASSUME NEW d \in clients' \ replaced', conn'[d].state \in Prepared
        PROVE  conn'[d].player # None /\ data'[conn'[d].player].squad
    <3>1. d \in clients /\ d \in Client
      BY <2>1 DEF PrepareGameStart, IInv, TypeOK
    <3>2. CASE d = c
      BY <3>2, <1>1, <1>2, <1>5, <1>6, <1>10 DEF KeepsPlayers
    <3>3. CASE d # c
      <4>1. d \in clients \ replaced /\ conn'[d] = conn[d]
        BY <2>1, <3>1, <3>3, <1>10 DEF PrepareGameStart
      <4>2. conn[d].player # None /\ data[conn[d].player].squad
        BY <2>1, <4>1 DEF IInv, PreparedHasSquad, Prepared
      <4>3. conn[d].player \in Player
        BY <3>1, <4>2, PlayerOf
      <4> QED BY <4>1, <4>2, <4>3, <1>13
    <3> QED BY <3>2, <3>3
  <2> QED BY <2>1 DEF PreparedHasSquad, Prepared
<1> QED BY <1>11, <1>12, <1>14, <1>15 DEF IInv, LinksInv

LEMMA PlayerStatusUpdateInv ==
  ASSUME IInv, NEW c \in Client, NEW status \in {"start", "beam out", "loading"},
         PlayerStatusUpdate(c, status)
  PROVE  IInv'
<1>1. c \in clients /\ conn[c].player # None
  BY DEF PlayerStatusUpdate
<1>2. {PlayerBits} \in SUBSET Part
  BY Bounds
<1>3. conn \in [Client -> Conn] /\ clients \subseteq Client
  BY DEF IInv, TypeOK
<1>4. \A d \in Client : conn[d].state \in GameState
  BY <1>3 DEF Conn
<1>5. KeepsPlayers(conn') /\ \A d \in clients : conn'[d].state \in Prepared => conn[d].state \in Prepared
  <2>1. CASE conn' = [conn EXCEPT ![c].state = IF MayStart(@) THEN "Dungeon" ELSE @]
    <3> DEFINE s == IF MayStart(conn[c].state) THEN "Dungeon" ELSE conn[c].state
    <3>1. s \in GameState /\ (s \in Prepared => conn[c].state \in Prepared)
      BY <1>4 DEF MayStart, GameState, Prepared
    <3>2. conn' = [conn EXCEPT ![c].state = s]
      BY <2>1
    <3> HIDE DEF s
    <3> QED BY <1>1, <1>3, <3>1, <3>2, StateSet
  <2>2. CASE conn' = [d \in Client |->
               IF d \in ClientsOf(data[conn[c].player].index)
               THEN [conn[d] EXCEPT !.state = SetGameState(@, "ChainVoting")]
               ELSE conn[d]]
    <3>1. ASSUME NEW d \in Client
          PROVE  /\ conn'[d] \in Conn
                 /\ conn'[d].player = conn[d].player /\ conn'[d].id = conn[d].id
                 /\ conn'[d].state \in Prepared => conn[d].state \in Prepared
                 /\ d \notin clients => conn'[d] = conn[d]
      <4>1. CASE d \in ClientsOf(data[conn[c].player].index)
        <5>1. conn'[d] = [conn[d] EXCEPT !.state = SetGameState(conn[d].state, "ChainVoting")]
          BY <2>2, <4>1
        <5>2. d \in clients
          BY <4>1 DEF ClientsOf
        <5>3. /\ SetGameState(conn[d].state, "ChainVoting") \in GameState
              /\ SetGameState(conn[d].state, "ChainVoting") \in {conn[d].state, "ChainVoting"}
          BY <1>4, StatesStay DEF GameState
        <5> QED BY <1>3, <5>1, <5>2, <5>3 DEF Conn, Prepared
      <4>2. CASE d \notin ClientsOf(data[conn[c].player].index)
        BY <1>3, <2>2, <4>2
      <4> QED BY <4>1, <4>2
    <3>2. conn' \in [Client -> Conn]
      BY <2>2, <3>1
    <3> QED BY <1>3, <3>1, <3>2 DEF KeepsPlayers
  <2>3. CASE UNCHANGED conn
    BY <1>3, <2>3 DEF KeepsPlayers
  <2> QED BY <2>1, <2>2, <2>3 DEF PlayerStatusUpdate
<1> QED BY <1>1, <1>2, <1>5, SentToInv DEF PlayerStatusUpdate

LEMMA SwapCharacterInv ==
  ASSUME IInv, NEW c \in Client, SwapCharacter(c)
  PROVE  IInv'
<1>1. {PlayerBits, CharacterBits} \in SUBSET Part
  BY Bounds
<1>2. KeepsPlayers(conn')
  BY DEF KeepsPlayers, SwapCharacter, IInv, TypeOK
<1> QED BY <1>1, <1>2, SentToInv DEF SwapCharacter

LEMMA ResendTaskInv ==
  ASSUME IInv, ResendTask
  PROVE  IInv'
<1>1. clients \in SUBSET Nat
  BY SessionAssumption DEF IInv, TypeOK
<1>2. Min(clients) \in clients
  BY <1>1, Minimum DEF ResendTask
<1>3. Part \in SUBSET Part
  OBVIOUS
<1>4. KeepsPlayers(conn')
  BY DEF KeepsPlayers, ResendTask, IInv, TypeOK
<1> QED BY <1>2, <1>3, <1>4, SentToInv DEF ResendTask

LEMMA UpdateInv ==
  ASSUME IInv, Update
  PROVE  IInv'
<1>1. /\ data \in [Player -> PlayerData] /\ stale \in [Client -> SUBSET Part]
      /\ object \in [Catalyst -> {"none", "ground", "marked"}] /\ clients \subseteq Client
  BY DEF IInv, TypeOK
<1>2. ASSUME NEW p \in Player
      PROVE  /\ data'[p] \in PlayerData
             /\ data'[p].index = data[p].index /\ data'[p].squad = data[p].squad
             /\ data'[p].grid = data[p].grid
             /\ ~ Updated(p) => data'[p] = data[p]
  BY <1>1 DEF Update, PlayerData
<1>3. data' \in [Player -> PlayerData]
  BY <1>2 DEF Update
<1>4. stale' \in [Client -> SUBSET Part]
  BY <1>1 DEF Update
<1>5. object' \in [Catalyst -> {"none", "ground", "marked"}]
      /\ \A t \in Catalyst : object'[t] = "ground" <=> object[t] = "ground"
  BY <1>1 DEF Update
<1>6. UNCHANGED <<clients, conn, players, owned, replaced>>
  BY DEF Update
<1>7. TypeOK'
  BY <1>3, <1>4, <1>5, <1>6 DEF IInv, TypeOK
<1>8. Referred(players, conn)' = Referred(players, conn)
  BY <1>6 DEF Referred
<1>9. StrangersAreBlank'
  BY <1>6 DEF IInv, StrangersAreBlank
<1>10. UnreferredIsEmpty'
  <2>1. ASSUME NEW p \in Player \ Referred(players, conn) PROVE data'[p] = NoPlayer
    <3>1. ~ Updated(p)
      BY Bounds DEF Referred, Updated
    <3> QED BY <1>2, <3>1 DEF IInv, UnreferredIsEmpty
  <2> QED BY <1>8, <2>1 DEF UnreferredIsEmpty
<1>11. \A d \in clients : conn[d].player # None => conn[d].player \in Player
  BY PlayerOf
<1>12. PlayersAreNotShared'
  BY <1>2, <1>6, <1>11 DEF IInv, PlayersAreNotShared
<1>13. OwnCopyPending'
  <2>1. ASSUME NEW d \in clients, conn[d].player # None
        PROVE  stale'[d] \subseteq data'[conn[d].player].bits
    <3>1. stale[d] \subseteq data[conn[d].player].bits
      BY <2>1 DEF IInv, OwnCopyPending
    <3>2. CASE Updated(conn[d].player)
      BY <1>1, <2>1, <3>1, <3>2 DEF Update, Updated
    <3>3. CASE ~ Updated(conn[d].player)
      <4>1. stale'[d] = stale[d]
        BY <1>1, <3>3 DEF Update, Updated
      <4> QED BY <1>2, <1>11, <2>1, <3>1, <3>3, <4>1
    <3> QED BY <3>2, <3>3
  <2> QED BY <1>6, <2>1 DEF OwnCopyPending
<1>14. PreparedHasSquad'
  <2>1. KeepsPlayers(conn')
    BY <1>6 DEF KeepsPlayers, IInv, TypeOK
  <2> QED BY <1>2, <1>6, <2>1, SquadsInv
<1>15. CatalystsInv'
  BY <1>2, <1>5, <1>6, NothingMoved
<1> QED BY <1>7, <1>9, <1>10, <1>12, <1>13, <1>14, <1>15 DEF IInv

\* What a slot holds, when its player is known.
LEMMA SlotHolds ==
  ASSUME IInv, NEW q \in Player, NEW s \in Slot
  PROVE  /\ data[q] \in PlayerData /\ data[q].grid \in [Slot -> Catalyst \cup {None}]
         /\ data[q].grid[s] \in Catalyst \cup {None}
<1>1. data[q] \in PlayerData
  BY DEF IInv, TypeOK
<1> QED BY <1>1 DEF PlayerData

LEMMA SlotPlaced ==
  ASSUME IInv, NEW p \in Player, NEW t \in Catalyst \cup {None}, NEW s \in Slot,
         data'[p] = Placed(data[p], t, s), \A q \in Player \ {p} : data'[q] = data[q]
  PROVE  \A q \in Player : \A r \in Slot :
           data'[q].grid[r] = IF q = p /\ r = s THEN t ELSE data[q].grid[r]
<1> DEFINE d == data[p]
           e == Placed(d, t, s)
<1>1. d \in PlayerData /\ d.grid \in [Slot -> Catalyst \cup {None}]
  BY SlotHolds
<1>2. data'[p] = e
  OBVIOUS
<1> HIDE DEF d
<1>3. /\ Placed(d, t, s) \in PlayerData
      /\ Placed(d, t, s).index = d.index /\ Placed(d, t, s).squad = d.squad
      /\ Placed(d, t, s).grid = [d.grid EXCEPT ![s] = t]
      /\ Placed(d, t, s).bits = d.bits \cup {s, PlayerBits}
  BY <1>1, PlacedFields
<1> HIDE DEF e
<1>4. \A r \in Slot : e.grid[r] = IF r = s THEN t ELSE d.grid[r]
  BY <1>1, <1>3 DEF e
<1> QED BY <1>2, <1>4 DEF d

\* What a drop, a move and a pickup do to the slots and to the objects.
LEMMA DropEffect ==
  ASSUME IInv, NEW c \in Client, NEW s \in Slot, DropCatalyst(c, s)
  PROVE  /\ conn[c].player \in Player /\ data[conn[c].player].grid[s] \in Catalyst
         /\ object' = [object EXCEPT ![data[conn[c].player].grid[s]] = "ground"]
         /\ \A q \in Player : \A r \in Slot :
              data'[q].grid[r] = IF q = conn[c].player /\ r = s THEN None ELSE data[q].grid[r]
<1> DEFINE p == conn[c].player
<1>1. c \in clients /\ p # None /\ data[p].grid[s] # None
  BY DEF DropCatalyst, Deployed
<1>2. p \in Player
  BY <1>1, PlayerOf
<1>3. /\ data'[p] = Placed(data[p], None, s) /\ \A q \in Player \ {p} : data'[q] = data[q]
      /\ object' = [object EXCEPT ![data[p].grid[s]] = "ground"]
  BY <1>2 DEF DropCatalyst, Emptied, IInv, TypeOK
<1> HIDE DEF p
<1>4. data[p].grid[s] \in Catalyst
  BY <1>1, <1>2, SlotHolds
<1>5. \A q \in Player : \A r \in Slot :
        data'[q].grid[r] = IF q = p /\ r = s THEN None ELSE data[q].grid[r]
  BY <1>2, <1>3, SlotPlaced
<1> QED BY <1>2, <1>3, <1>4, <1>5 DEF p

LEMMA MoveEffect ==
  ASSUME IInv, NEW c \in Client, NEW s \in Slot, NEW r \in Slot, MoveCatalyst(c, s, r)
  PROVE  /\ conn[c].player \in Player /\ data[conn[c].player].grid[s] \in Catalyst
         /\ object' = object
         /\ \A q \in Player : \A w \in Slot :
              data'[q].grid[w] =
                IF q = conn[c].player /\ w = s THEN data[conn[c].player].grid[r]
                ELSE IF q = conn[c].player /\ w = r THEN data[conn[c].player].grid[s]
                ELSE data[q].grid[w]
<1> DEFINE p == conn[c].player
           d == data[p]
           e == Swapped(d, s, r)
<1>1. c \in clients /\ p # None /\ d.grid[s] # None
  BY DEF MoveCatalyst, Deployed
<1>2. data' = [data EXCEPT ![p] = e] /\ object' = object
  BY DEF MoveCatalyst
<1>3. p \in Player /\ data \in [Player -> PlayerData] /\ d \in PlayerData
  BY <1>1, PlayerOf DEF IInv, TypeOK
<1>4. d.grid \in [Slot -> Catalyst \cup {None}] /\ d.grid[s] \in Catalyst
  BY <1>1, <1>3, SlotHolds
<1>5. \A q \in Player \ {p} : data'[q] = data[q]
  BY <1>2, <1>3
<1>6. data'[p] = e
  BY <1>2, <1>3
<1> HIDE DEF d
<1>7. e.grid = [d.grid EXCEPT ![r] = d.grid[s], ![s] = d.grid[r]]
  BY <1>3, SwappedFields
<1> HIDE DEF e
<1>8. \A w \in Slot : e.grid[w] = IF w = s THEN d.grid[r] ELSE IF w = r THEN d.grid[s] ELSE d.grid[w]
  BY <1>4, <1>7
<1> QED BY <1>2, <1>3, <1>4, <1>5, <1>6, <1>8 DEF d

\* What was in slot s of the connection's player is overwritten with o, which nobody had.
Overwritten(c, s, o) ==
  /\ c \in clients /\ conn[c].player # None /\ conn[c].player \in Player
  /\ object' = object
  /\ o \in Catalyst \cup {None}
  /\ \A q \in Player : \A r \in Slot : o # None => data[q].grid[r] # o
  /\ o # None => object[o] # "ground"
  /\ data' = [data EXCEPT ![conn[c].player] = Placed(data[conn[c].player], o, s)]
  /\ owned' = (owned \ {data[conn[c].player].grid[s]}) \cup ({o} \ {None})
  /\ \A q \in Player : \A r \in Slot :
       data'[q].grid[r] = IF q = conn[c].player /\ r = s THEN o ELSE data[q].grid[r]

LEMMA DragEffect ==
  ASSUME IInv, NEW c \in Client, NEW s \in Slot, NEW o \in Catalyst \cup {None},
         DragOffGrid(c, s, o)
  PROVE  Overwritten(c, s, o)
<1> DEFINE p == conn[c].player
<1>1. c \in clients /\ p # None /\ object' = object
  BY DEF DragOffGrid, Deployed
<1>2. p \in Player
  BY <1>1, PlayerOf
<1>3. /\ data' = [data EXCEPT ![p] = Placed(data[p], o, s)]
      /\ owned' = (owned \ {data[p].grid[s]}) \cup ({o} \ {None})
  BY DEF DragOffGrid
<1>4. data'[p] = Placed(data[p], o, s) /\ \A q \in Player \ {p} : data'[q] = data[q]
  BY <1>2, <1>3 DEF IInv, TypeOK
<1>5. ASSUME o # None
      PROVE  object[o] # "ground" /\ \A q \in Player : \A r \in Slot : data[q].grid[r] # o
  <2>1. o \in Catalyst /\ o \notin owned /\ object[o] = "none"
    BY <1>5 DEF DragOffGrid, Unused
  <2> QED BY <2>1 DEF IInv, CatalystsInv, OwnedIsPlaced, Held
<1> HIDE DEF p
<1>6. \A q \in Player : \A r \in Slot :
        data'[q].grid[r] = IF q = p /\ r = s THEN o ELSE data[q].grid[r]
  BY <1>2, <1>4, SlotPlaced
<1> QED BY <1>1, <1>2, <1>3, <1>5, <1>6 DEF p, Overwritten

\* t is picked up by p into its first free slot.
PickedInto(t, p, s) ==
  /\ p \in Player /\ object[t] = "ground" /\ object' = [object EXCEPT ![t] = "marked"]
  /\ s \in Slot /\ data[p].grid[s] = None
  /\ \A r \in Slot : r < s => data[p].grid[r] # None
  /\ \A q \in Player : \A r \in Slot :
       data'[q].grid[r] = IF q = p /\ r = s THEN t ELSE data[q].grid[r]

LEMMA PickupEffect ==
  ASSUME IInv, NEW c \in Client, NEW t \in Catalyst, PickupCatalyst(c, t)
  PROVE  PickedInto(t, conn[c].player, Min(Open(data[conn[c].player])))
<1> DEFINE p == conn[c].player
           s == Min(Open(data[p]))
<1>1. /\ c \in clients /\ p # None /\ object[t] = "ground" /\ Open(data[p]) # {}
      /\ object' = [object EXCEPT ![t] = "marked"]
  BY DEF PickupCatalyst
<1>2. p \in Player
  BY <1>1, PlayerOf
<1>3. data'[p] = Placed(data[p], t, s) /\ \A q \in Player \ {p} : data'[q] = data[q]
  BY <1>2 DEF PickupCatalyst, IInv, TypeOK
<1> HIDE DEF p
<1>4. Open(data[p]) \in SUBSET Nat
  BY SessionAssumption DEF Open, Slot
<1>5. s \in Open(data[p]) /\ \A y \in Open(data[p]) : s <= y
  BY <1>1, <1>4, Minimum
<1> HIDE DEF s
<1>6. s \in Slot /\ data[p].grid[s] = None
  BY <1>5 DEF Open
<1>7. ASSUME NEW r \in Slot, r < s PROVE data[p].grid[r] # None
  <2>1. r \in Nat /\ s \in Nat
    BY <1>6, SessionAssumption DEF Slot
  <2> QED BY <1>5, <1>7, <2>1 DEF Open
<1>8. \A q \in Player : \A r \in Slot :
        data'[q].grid[r] = IF q = p /\ r = s THEN t ELSE data[q].grid[r]
  BY <1>2, <1>6, <1>3, SlotPlaced
<1>9. PickedInto(t, p, s)
  BY <1>1, <1>2, <1>6, <1>7, <1>8 DEF PickedInto
<1> QED BY <1>9 DEF p, s

LEMMA DropCatalystInv ==
  ASSUME IInv, NEW c \in Client, NEW s \in Slot, DropCatalyst(c, s)
  PROVE  IInv'
<1> DEFINE p == conn[c].player
           t == data[p].grid[s]
           e == Placed(data[p], None, s)
<1>1. c \in clients /\ p # None /\ t # None
  BY DEF DropCatalyst, Deployed
<1>2. p \in Player /\ data[p] \in PlayerData /\ data \in [Player -> PlayerData]
  BY <1>1, PlayerOf DEF IInv, TypeOK
<1>3. t \in Catalyst /\ data[p].grid \in [Slot -> Catalyst \cup {None}]
  BY <1>1, <1>2, SlotHolds
<1>4. e \in PlayerData /\ e.index = data[p].index /\ e.squad = data[p].squad
      /\ e.grid = [data[p].grid EXCEPT ![s] = None] /\ e.bits = data[p].bits \cup {s, PlayerBits}
  <2> DEFINE d == data[p]
  <2>1. d \in PlayerData /\ None \in Catalyst \cup {None}
    BY <1>2
  <2> HIDE DEF d
  <2>2. /\ Placed(d, None, s) \in PlayerData
        /\ Placed(d, None, s).index = d.index /\ Placed(d, None, s).squad = d.squad
        /\ Placed(d, None, s).grid = [d.grid EXCEPT ![s] = None]
        /\ Placed(d, None, s).bits = d.bits \cup {s, PlayerBits}
    BY <2>1, PlacedFields
  <2> QED BY <2>2 DEF d
<1>5. data' = [data EXCEPT ![p] = e] /\ Miss(c, {s, PlayerBits})
  BY DEF DropCatalyst, Emptied
<1>6. object' = [object EXCEPT ![t] = "ground"]
  BY DEF DropCatalyst
<1>7. KeepsPlayers(conn') /\ UNCHANGED <<clients, conn, players, owned, replaced>>
  BY DEF DropCatalyst, KeepsPlayers, IInv, TypeOK
<1>8. {s, PlayerBits} \in SUBSET Part
  BY Bounds
<1> HIDE DEF e
<1>9. LinksInv' /\ data' \in [Player -> PlayerData] /\ stale' \in [Client -> SUBSET Part]
  BY <1>1, <1>4, <1>5, <1>7, <1>8, MissedByOne
<1>10. TypeOK'
  BY <1>3, <1>6, <1>7, <1>9 DEF IInv, TypeOK
<1>11. PreparedHasSquad'
  <2>1. \A q \in Player : data[q].squad => data'[q].squad
    BY <1>2, <1>4, <1>5
  <2> QED BY <1>7, <2>1, SquadsInv
<1>12. \A q \in Player : \A r \in Slot :
         data'[q].grid[r] = IF q = p /\ r = s THEN None ELSE data[q].grid[r]
  BY DropEffect
<1>13. HeldOnce'
  BY <1>12 DEF IInv, CatalystsInv, HeldOnce
<1>14. \A q \in Player : \A r \in Slot :
         data'[q].grid[r] # None => data'[q].grid[r] = data[q].grid[r] /\ data'[q].grid[r] # t
  BY <1>1, <1>2, <1>12 DEF IInv, CatalystsInv, HeldOnce
<1>15. \A u \in Catalyst : object'[u] = IF u = t THEN "ground" ELSE object[u]
  BY <1>3, <1>6 DEF IInv, TypeOK
<1>16. HeldIsLifted'
  <2>1. ASSUME NEW q \in Player, NEW r \in Slot, data'[q].grid[r] # None
        PROVE  object'[data'[q].grid[r]] # "ground"
    <3>1. data'[q].grid[r] = data[q].grid[r] /\ data'[q].grid[r] # t
      BY <2>1, <1>14
    <3>2. data[q].grid[r] \in Catalyst
      BY <2>1, <3>1, SlotHolds
    <3> QED BY <2>1, <3>1, <3>2, <1>15 DEF IInv, CatalystsInv, HeldIsLifted
  <2> QED BY <2>1 DEF HeldIsLifted
<1>17. Held' = Held \ {t} /\ OnGround' = OnGround \cup {t} /\ t \in Held
  <2>1. t \in Held
    BY <1>2, <1>3 DEF Held
  <2>2. OnGround' = OnGround \cup {t}
    BY <1>15, <2>1 DEF OnGround, Held
  <2>3. ASSUME NEW u \in Held' PROVE u \in Held \ {t}
    <3>1. PICK q \in Player, r \in Slot : data'[q].grid[r] = u
      BY DEF Held
    <3>2. u \in Catalyst /\ u # None
      BY Bounds DEF Held
    <3>3. data[q].grid[r] = u /\ u # t
      BY <1>14, <3>1, <3>2
    <3> QED BY <3>2, <3>3 DEF Held
  <2>4. ASSUME NEW u \in Held \ {t} PROVE u \in Held'
    <3>1. PICK q \in Player, r \in Slot : data[q].grid[r] = u
      BY DEF Held
    <3>2. u \in Catalyst /\ ~ (q = p /\ r = s)
      BY <1>3, <3>1 DEF Held
    <3>3. data'[q].grid[r] = u
      BY <1>12, <3>1, <3>2
    <3> QED BY <3>2, <3>3 DEF Held
  <2> QED BY <2>1, <2>2, <2>3, <2>4
<1>18. OwnedIsPlaced'
  BY <1>7, <1>17 DEF IInv, CatalystsInv, OwnedIsPlaced
<1> QED BY <1>9, <1>10, <1>11, <1>13, <1>16, <1>18 DEF IInv, LinksInv, CatalystsInv

LEMMA MoveCatalystInv ==
  ASSUME IInv, NEW c \in Client, NEW s \in Slot, NEW r \in Slot, MoveCatalyst(c, s, r)
  PROVE  IInv'
<1> DEFINE p == conn[c].player
           e == Swapped(data[p], s, r)
<1>1. c \in clients /\ p # None
  BY DEF MoveCatalyst, Deployed
<1>2. p \in Player /\ data[p] \in PlayerData /\ data \in [Player -> PlayerData]
  BY <1>1, PlayerOf DEF IInv, TypeOK
<1>3. data[p].grid \in [Slot -> Catalyst \cup {None}]
  BY <1>2, SlotHolds
<1>4. e \in PlayerData /\ e.index = data[p].index /\ e.squad = data[p].squad
      /\ e.grid = [data[p].grid EXCEPT ![r] = data[p].grid[s], ![s] = data[p].grid[r]]
      /\ e.bits = data[p].bits \cup {s, r, PlayerBits}
  <2> DEFINE d == data[p]
  <2>1. d \in PlayerData
    BY <1>2
  <2> HIDE DEF d
  <2>2. /\ Swapped(d, s, r) \in PlayerData
        /\ Swapped(d, s, r).index = d.index /\ Swapped(d, s, r).squad = d.squad
        /\ Swapped(d, s, r).grid = [d.grid EXCEPT ![r] = d.grid[s], ![s] = d.grid[r]]
        /\ Swapped(d, s, r).bits = d.bits \cup {s, r, PlayerBits}
    BY <2>1, SwappedFields
  <2> QED BY <2>2 DEF d
<1>5. data' = [data EXCEPT ![p] = e] /\ Miss(c, {s, r, PlayerBits}) /\ object' = object
  BY DEF MoveCatalyst
<1>6. KeepsPlayers(conn') /\ UNCHANGED <<clients, conn, players, owned, replaced>>
  BY DEF MoveCatalyst, KeepsPlayers, IInv, TypeOK
<1>7. {s, r, PlayerBits} \in SUBSET Part
  BY Bounds
<1> HIDE DEF e
<1>8. LinksInv' /\ data' \in [Player -> PlayerData] /\ stale' \in [Client -> SUBSET Part]
  BY <1>1, <1>4, <1>5, <1>6, <1>7, MissedByOne
<1>9. TypeOK'
  BY <1>5, <1>6, <1>8 DEF IInv, TypeOK
<1>10. PreparedHasSquad'
  <2>1. \A q \in Player : data[q].squad => data'[q].squad
    BY <1>2, <1>4, <1>5
  <2> QED BY <1>6, <2>1, SquadsInv
<1> DEFINE From(q, w) == IF q = p /\ w = s THEN r ELSE IF q = p /\ w = r THEN s ELSE w
<1>11. \A q \in Player : \A w \in Slot : From(q, w) \in Slot /\ From(q, From(q, w)) = w
  OBVIOUS
<1>12. \A q \in Player : \A w \in Slot : data'[q].grid[w] = data[q].grid[From(q, w)]
  BY <1>2, <1>3, <1>4, <1>5
<1> HIDE DEF From
<1>13. HeldOnce'
  <2>1. ASSUME NEW q \in Player, NEW u \in Player, NEW w \in Slot, NEW x \in Slot,
               data'[q].grid[w] # None, data'[q].grid[w] = data'[u].grid[x]
        PROVE  q = u /\ w = x
    <3>1. q = u /\ From(q, w) = From(u, x)
      BY <2>1, <1>11, <1>12 DEF IInv, CatalystsInv, HeldOnce
    <3> QED BY <3>1, <1>11
  <2> QED BY <2>1 DEF HeldOnce
<1>14. HeldIsLifted'
  BY <1>5, <1>11, <1>12 DEF IInv, CatalystsInv, HeldIsLifted
<1>15. Held' = Held /\ OnGround' = OnGround
  <2>1. ASSUME NEW t \in Held PROVE t \in Held'
    <3>1. PICK q \in Player, w \in Slot : data[q].grid[w] = t
      BY DEF Held
    <3>2. data'[q].grid[From(q, w)] = t /\ From(q, w) \in Slot
      BY <3>1, <1>11, <1>12
    <3> QED BY <3>2 DEF Held
  <2>2. ASSUME NEW t \in Held' PROVE t \in Held
    BY <1>11, <1>12 DEF Held
  <2> QED BY <2>1, <2>2, <1>5 DEF OnGround
<1>16. OwnedIsPlaced'
  BY <1>6, <1>15 DEF IInv, CatalystsInv, OwnedIsPlaced
<1> QED BY <1>8, <1>9, <1>10, <1>13, <1>14, <1>16 DEF IInv, LinksInv, CatalystsInv

LEMMA PickupCatalystInv ==
  ASSUME IInv, NEW c \in Client, NEW t \in Catalyst, PickupCatalyst(c, t)
  PROVE  IInv'
<1> DEFINE p == conn[c].player
           s == Min(Open(data[p]))
           e == Placed(data[p], t, s)
<1>1. c \in clients /\ p # None /\ object[t] = "ground"
  BY DEF PickupCatalyst
<1>2. p \in Player /\ data[p] \in PlayerData /\ data \in [Player -> PlayerData]
  BY <1>1, PlayerOf DEF IInv, TypeOK
<1>3. s \in Slot /\ data[p].grid[s] = None
  <2>1. Open(data[p]) \in SUBSET Nat /\ Open(data[p]) # {}
    <3>1. Open(data[p]) # {}
      BY DEF PickupCatalyst
    <3>2. Open(data[p]) \subseteq Slot
      BY DEF Open
    <3>3. Slot \subseteq Nat
      BY SessionAssumption DEF Slot
    <3> QED BY <3>1, <3>2, <3>3
  <2>2. s \in Open(data[p])
    BY <2>1, Minimum
  <2> QED BY <2>2 DEF Open
<1>4. data' = [data EXCEPT ![p] = e] /\ Miss(c, {s, PlayerBits})
      /\ object' = [object EXCEPT ![t] = "marked"]
  BY DEF PickupCatalyst
<1> HIDE DEF s
<1>5. data[p].grid \in [Slot -> Catalyst \cup {None}]
  BY <1>2, <1>3, SlotHolds
<1>6. e \in PlayerData /\ e.index = data[p].index /\ e.squad = data[p].squad
      /\ e.grid = [data[p].grid EXCEPT ![s] = t] /\ e.bits = data[p].bits \cup {s, PlayerBits}
  <2> DEFINE d == data[p]
  <2>1. d \in PlayerData
    BY <1>2
  <2> HIDE DEF d
  <2>2. /\ Placed(d, t, s) \in PlayerData
        /\ Placed(d, t, s).index = d.index /\ Placed(d, t, s).squad = d.squad
        /\ Placed(d, t, s).grid = [d.grid EXCEPT ![s] = t]
        /\ Placed(d, t, s).bits = d.bits \cup {s, PlayerBits}
    BY <1>3, <2>1, PlacedFields
  <2> QED BY <2>2 DEF d
<1>7. KeepsPlayers(conn') /\ UNCHANGED <<clients, conn, players, owned, replaced>>
  BY DEF PickupCatalyst, KeepsPlayers, IInv, TypeOK
<1>8. {s, PlayerBits} \in SUBSET Part
  BY <1>3, Bounds
<1> HIDE DEF e
<1>9. LinksInv' /\ data' \in [Player -> PlayerData] /\ stale' \in [Client -> SUBSET Part]
  BY <1>1, <1>4, <1>6, <1>7, <1>8, MissedByOne
<1>10. TypeOK'
  BY <1>4, <1>7, <1>9 DEF IInv, TypeOK
<1>11. PreparedHasSquad'
  <2>1. \A q \in Player : data[q].squad => data'[q].squad
    BY <1>2, <1>4, <1>6
  <2> QED BY <1>7, <2>1, SquadsInv
<1>12. \A q \in Player : \A r \in Slot :
         data'[q].grid[r] = IF q = p /\ r = s THEN t ELSE data[q].grid[r]
  <2>1. PickedInto(t, p, s)
    BY PickupEffect DEF s
  <2> QED BY <2>1, Zenon DEF PickedInto
<1>13. \A q \in Player : \A r \in Slot : data[q].grid[r] # t
  BY <1>1, Bounds DEF IInv, CatalystsInv, HeldIsLifted
<1>14. HeldOnce'
  BY <1>12, <1>13 DEF IInv, CatalystsInv, HeldOnce
<1>15. \A u \in Catalyst : object'[u] = IF u = t THEN "marked" ELSE object[u]
  BY <1>4 DEF IInv, TypeOK
<1>16. HeldIsLifted'
  <2>1. ASSUME NEW q \in Player, NEW r \in Slot, data'[q].grid[r] # None
        PROVE  object'[data'[q].grid[r]] # "ground"
    <3>1. data'[q].grid[r] \in Catalyst
      BY <2>1, <1>12, SlotHolds
    <3> QED BY <2>1, <3>1, <1>12, <1>15 DEF IInv, CatalystsInv, HeldIsLifted
  <2> QED BY <2>1 DEF HeldIsLifted
<1>17. Held' = Held \cup {t} /\ OnGround' = OnGround \ {t} /\ t \in OnGround
  BY <1>1, <1>2, <1>3, <1>12, <1>15, Bounds DEF Held, OnGround
<1>18. OwnedIsPlaced'
  BY <1>7, <1>17 DEF IInv, CatalystsInv, OwnedIsPlaced
<1> QED BY <1>9, <1>10, <1>11, <1>14, <1>16, <1>18 DEF IInv, LinksInv, CatalystsInv

LEMMA DragOffGridInv ==
  ASSUME IInv, NEW c \in Client, NEW s \in Slot, NEW o \in Catalyst \cup {None},
         DragOffGrid(c, s, o)
  PROVE  IInv'
<1> DEFINE p == conn[c].player
           t == data[p].grid[s]
           e == Placed(data[p], o, s)
<1>1. Overwritten(c, s, o)
  BY DragEffect
<1>2. /\ c \in clients /\ p # None /\ p \in Player /\ object' = object
      /\ data' = [data EXCEPT ![p] = e]
      /\ owned' = (owned \ {t}) \cup ({o} \ {None})
  BY <1>1, Zenon DEF Overwritten
<1>3. /\ \A q \in Player : \A r \in Slot :
           data'[q].grid[r] = IF q = p /\ r = s THEN o ELSE data[q].grid[r]
      /\ \A q \in Player : \A r \in Slot : o # None => data[q].grid[r] # o
      /\ o # None => object[o] # "ground"
  BY <1>1, Zenon DEF Overwritten
<1>4. data[p] \in PlayerData /\ data \in [Player -> PlayerData] /\ t \in Catalyst \cup {None}
  BY <1>2, SlotHolds DEF IInv, TypeOK
<1>5. e \in PlayerData /\ e.index = data[p].index /\ e.squad = data[p].squad
      /\ e.bits = data[p].bits \cup {s, PlayerBits}
  <2> DEFINE d == data[p]
  <2>1. d \in PlayerData
    BY <1>4
  <2> HIDE DEF d
  <2>2. /\ Placed(d, o, s) \in PlayerData
        /\ Placed(d, o, s).index = d.index /\ Placed(d, o, s).squad = d.squad
        /\ Placed(d, o, s).grid = [d.grid EXCEPT ![s] = o]
        /\ Placed(d, o, s).bits = d.bits \cup {s, PlayerBits}
    BY <2>1, PlacedFields
  <2> QED BY <2>2 DEF d
<1>6. KeepsPlayers(conn') /\ UNCHANGED <<clients, conn, players, replaced>>
  BY DEF DragOffGrid, KeepsPlayers, IInv, TypeOK
<1>7. {s, PlayerBits} \in SUBSET Part /\ Miss(c, {s, PlayerBits})
  BY Bounds DEF DragOffGrid
<1> HIDE DEF e, t
<1>8. LinksInv' /\ data' \in [Player -> PlayerData] /\ stale' \in [Client -> SUBSET Part]
  BY <1>2, <1>5, <1>6, <1>7, MissedByOne
<1>9. TypeOK'
  BY <1>2, <1>6, <1>8 DEF IInv, TypeOK
<1>10. PreparedHasSquad'
  <2>1. \A q \in Player : data[q].squad => data'[q].squad
    BY <1>2, <1>4, <1>5
  <2> QED BY <1>6, <2>1, SquadsInv
<1>11. HeldOnce'
  BY <1>3 DEF IInv, CatalystsInv, HeldOnce
<1>12. HeldIsLifted'
  BY <1>2, <1>3 DEF IInv, CatalystsInv, HeldIsLifted
<1>13. Held' = (Held \ {t}) \cup ({o} \ {None})
  <2>1. ASSUME NEW u \in Catalyst
        PROVE  u \in Held' <=> u \in (Held \ {t}) \cup ({o} \ {None})
    <3>1. u # None
      BY Bounds
    <3>2. CASE u = o
      <4>1. data'[p].grid[s] = u
        BY <1>2, <1>3, <3>2
      <4> QED BY <1>2, <3>1, <3>2, <4>1 DEF Held
    <3>3. CASE u = t /\ u # o
      <4>1. data[p].grid[s] = u
        BY <3>3 DEF t
      <4>2. \A q \in Player : \A r \in Slot : data[q].grid[r] = u => q = p /\ r = s
        BY <1>2, <3>1, <4>1 DEF IInv, CatalystsInv, HeldOnce
      <4>3. \A q \in Player : \A r \in Slot : data'[q].grid[r] # u
        BY <1>3, <3>3, <4>2
      <4> QED BY <3>3, <4>3 DEF Held
    <3>4. CASE u # t /\ u # o
      <4>1. data[p].grid[s] # u
        BY <3>4 DEF t
      <4>2. \A q \in Player : \A r \in Slot : data'[q].grid[r] = u <=> data[q].grid[r] = u
        BY <1>3, <3>4, <4>1
      <4> QED BY <3>4, <4>2 DEF Held
    <3> QED BY <3>2, <3>3, <3>4
  <2>2. {o} \ {None} \subseteq Catalyst /\ Held \subseteq Catalyst /\ Held' \subseteq Catalyst
    BY DEF Held
  <2> QED BY <2>1, <2>2
<1>14. OnGround' = OnGround /\ t \notin OnGround
  <2>1. t # None => object[t] # "ground"
    BY <1>2 DEF t, IInv, CatalystsInv, HeldIsLifted
  <2> QED BY <1>2, <2>1, Bounds DEF OnGround
<1>15. OwnedIsPlaced'
  <2>1. owned = Held \cup OnGround
    BY DEF IInv, CatalystsInv, OwnedIsPlaced
  <2> QED BY <1>2, <1>13, <1>14, <2>1 DEF OwnedIsPlaced
<1> QED BY <1>8, <1>9, <1>10, <1>11, <1>12, <1>15 DEF IInv, LinksInv, CatalystsInv

LEMMA NewCatalystInv ==
  ASSUME IInv, NEW t \in Catalyst, NewCatalyst(t)
  PROVE  IInv'
<1>1. /\ t \notin owned /\ object[t] = "none" /\ owned' = owned \cup {t}
      /\ object' = [object EXCEPT ![t] = "ground"]
      /\ UNCHANGED <<clients, conn, players, data, stale, replaced>>
  BY DEF NewCatalyst, Unused
<1>2. TypeOK'
  BY <1>1 DEF IInv, TypeOK
<1>3. (LinksInv /\ PreparedHasSquad)'
  BY <1>1 DEF IInv, LinksInv, StrangersAreBlank, UnreferredIsEmpty, PlayersAreNotShared,
              OwnCopyPending, PreparedHasSquad, Referred
<1>4. \A u \in Catalyst : object'[u] = IF u = t THEN "ground" ELSE object[u]
  BY <1>1 DEF IInv, TypeOK
<1>5. Held' = Held /\ t \notin Held /\ OnGround' = OnGround \cup {t}
  BY <1>1, <1>4 DEF IInv, CatalystsInv, OwnedIsPlaced, Held, OnGround
<1>6. HeldOnce' /\ OwnedIsPlaced'
  BY <1>1, <1>5 DEF IInv, CatalystsInv, HeldOnce, OwnedIsPlaced
<1>7. HeldIsLifted'
  <2>1. ASSUME NEW q \in Player, NEW r \in Slot, data[q].grid[r] # None
        PROVE  object'[data[q].grid[r]] # "ground"
    <3>1. data[q].grid[r] \in Catalyst
      BY <2>1, SlotHolds
    <3> QED BY <2>1, <3>1, <1>4, <1>5 DEF IInv, CatalystsInv, HeldIsLifted, Held
  <2> QED BY <1>1, <2>1 DEF HeldIsLifted
<1> QED BY <1>2, <1>3, <1>6, <1>7 DEF IInv, LinksInv, CatalystsInv

\* What is left of the catalysts when the players without a reference are gone.
LEMMA Discarding ==
  ASSUME IInv, NEW ps, NEW cn, NEW t \in Catalyst
  PROVE  t \in owned \ Discarded(data, ps, cn) <=>
           \/ t \in OnGround
           \/ \E q \in Player : \E s \in Slot : q \in Referred(ps, cn) /\ data[q].grid[s] = t
<1> DEFINE D == Discarded(data, ps, cn)
           R == Referred(ps, cn)
<1>1. \A v \in Catalyst : v \in D <=> \E q \in Player : \E s \in Slot : q \notin R /\ data[q].grid[s] = v
  <2>1. \A q \in Player : \A v \in Catalyst : v \in Carried(data[q]) <=> \E s \in Slot : data[q].grid[s] = v
    BY Bounds DEF Carried
  <2>2. \A v \in Catalyst : v \in D <=> \E q \in Player \ R : v \in Carried(data[q])
    BY DEF Discarded
  <2> QED BY <2>1, <2>2
<1>2. owned = Held \cup OnGround /\ owned \subseteq Catalyst
  BY DEF IInv, CatalystsInv, OwnedIsPlaced, TypeOK
<1> HIDE DEF D, R
<1>3. ASSUME NEW v \in Catalyst, NEW q \in Player, NEW u \in Player, NEW s \in Slot, NEW r \in Slot,
             data[q].grid[s] = v, data[u].grid[r] = v
      PROVE  q = u
  BY <1>3, Bounds DEF IInv, CatalystsInv, HeldOnce
<1>4. \A v \in OnGround : v \in Catalyst /\ v \notin D
  BY <1>1, Bounds DEF IInv, CatalystsInv, HeldIsLifted, OnGround
<1>5. ASSUME t \in owned \ D
      PROVE  t \in OnGround \/ \E q \in Player : \E s \in Slot : q \in R /\ data[q].grid[s] = t
  BY <1>1, <1>2, <1>5 DEF Held
<1>6. ASSUME NEW q \in Player, NEW s \in Slot, q \in R, data[q].grid[s] = t
      PROVE  t \in owned \ D
  <2>1. t \in Held
    BY <1>6 DEF Held
  <2>2. t \notin D
    BY <1>1, <1>3, <1>6
  <2> QED BY <1>2, <2>1, <2>2
<1>7. t \in owned \ D <=>
        \/ t \in OnGround
        \/ \E q \in Player : \E s \in Slot : q \in R /\ data[q].grid[s] = t
  BY <1>2, <1>4, <1>5, <1>6
<1> QED BY <1>7 DEF D, R

LEMMA Collecting ==
  ASSUME NEW d \in [Player -> PlayerData], NEW ps, NEW cn
  PROVE  /\ Collect(d, ps, cn) \in [Player -> PlayerData]
         /\ \A q \in Player :
              Collect(d, ps, cn)[q] = IF q \in Referred(ps, cn) THEN d[q] ELSE NoPlayer
BY Bounds DEF Collect

\* Slots that were emptied, kept or filled with what was free.
LEMMA Relaid ==
  ASSUME IInv, object' = object, owned' = Held' \cup OnGround',
         \A q \in Player : \A s \in Slot :
           data'[q].grid[s] \in {None, data[q].grid[s]} \cup Unused,
         \A q, u \in Player : \A s, r \in Slot :
           data'[q].grid[s] \in Unused /\ data'[q].grid[s] = data'[u].grid[r] => q = u /\ s = r
  PROVE  CatalystsInv'
<1>1. \A t \in Unused : t \in Catalyst /\ object[t] = "none" /\ t \notin Held
  BY DEF Unused, IInv, CatalystsInv, OwnedIsPlaced
<1>2. \A q \in Player : \A s \in Slot : data[q].grid[s] \in Catalyst \cup {None}
  BY SlotHolds
<1>3. HeldOnce'
  <2>1. ASSUME NEW q \in Player, NEW u \in Player, NEW s \in Slot, NEW r \in Slot,
               data'[q].grid[s] # None, data'[q].grid[s] = data'[u].grid[r]
        PROVE  q = u /\ s = r
    <3>1. CASE data'[q].grid[s] \in Unused
      BY <2>1, <3>1
    <3>2. CASE data'[q].grid[s] \notin Unused
      <4>1. data[q].grid[s] = data'[q].grid[s] /\ data[u].grid[r] = data'[u].grid[r]
        BY <2>1, <3>2
      <4> QED BY <2>1, <4>1 DEF IInv, CatalystsInv, HeldOnce
    <3> QED BY <3>1, <3>2
  <2> QED BY <2>1 DEF HeldOnce
<1>4. HeldIsLifted'
  <2>1. ASSUME NEW q \in Player, NEW s \in Slot, data'[q].grid[s] # None
        PROVE  object[data'[q].grid[s]] # "ground"
    BY <1>1, <2>1 DEF IInv, CatalystsInv, HeldIsLifted
  <2> QED BY <2>1 DEF HeldIsLifted
<1> QED BY <1>3, <1>4 DEF CatalystsInv, OwnedIsPlaced

LEMMA RemoveClientInv ==
  ASSUME IInv, NEW c \in Client, RemoveClient(c)
  PROVE  IInv'
<1>1. /\ conn \in [Client -> Conn] /\ data \in [Player -> PlayerData] /\ clients \subseteq Client
      /\ stale \in [Client -> SUBSET Part] /\ replaced \subseteq clients /\ owned \subseteq Catalyst
  BY DEF IInv, TypeOK
<1>2. /\ conn' = [conn EXCEPT ![c] = NoConn] /\ clients' = clients \ {c}
      /\ stale' = [stale EXCEPT ![c] = {}] /\ replaced' = replaced \ {c}
      /\ players' = players /\ object' = object
  BY DEF RemoveClient
<1> DEFINE R == Referred(players, conn')
<1>3. data' \in [Player -> PlayerData]
      /\ \A q \in Player : data'[q] = IF q \in R THEN data[q] ELSE NoPlayer
  BY <1>1, Collecting DEF RemoveClient
<1>4. conn' \in [Client -> Conn] /\ stale' \in [Client -> SUBSET Part]
      /\ conn'[c] = NoConn /\ \A d \in Client \ {c} : conn'[d] = conn[d] /\ stale'[d] = stale[d]
  BY <1>1, <1>2, Bounds
<1>5. owned' = owned \ Discarded(data, players, conn')
  BY DEF RemoveClient
<1>6. TypeOK'
  BY <1>1, <1>2, <1>3, <1>4, <1>5 DEF IInv, TypeOK
<1>7. StrangersAreBlank'
  BY <1>2, <1>4 DEF IInv, StrangersAreBlank
<1>8. UnreferredIsEmpty'
  BY <1>2, <1>3 DEF UnreferredIsEmpty
<1>9. ASSUME NEW d \in clients', conn'[d].player # None
      PROVE  /\ d \in clients /\ d # c /\ conn'[d] = conn[d] /\ stale'[d] = stale[d]
             /\ data'[conn[d].player] = data[conn[d].player]
  <2>1. d \in clients /\ d # c /\ d \in Client
    BY <1>1, <1>2
  <2>2. conn'[d] = conn[d] /\ stale'[d] = stale[d]
    BY <1>4, <2>1
  <2>3. conn[d].player \in Player
    BY <1>9, <2>1, <2>2, PlayerOf
  <2>4. conn[d].player \in R
    BY <1>9, <2>1, <2>2 DEF Referred
  <2> QED BY <1>3, <2>1, <2>2, <2>3, <2>4
<1>10. PlayersAreNotShared'
  <2>1. \A d \in clients' : conn'[d] = conn[d] /\ d \in clients
    BY <1>1, <1>2, <1>4
  <2> QED BY <1>9, <2>1 DEF IInv, PlayersAreNotShared
<1>11. OwnCopyPending'
  BY <1>9 DEF IInv, OwnCopyPending
<1>12. PreparedHasSquad'
  <2>1. ASSUME NEW d \in clients' \ replaced', conn'[d].state \in Prepared
        PROVE  conn'[d].player # None /\ data'[conn'[d].player].squad
    <3>1. d \in clients \ replaced /\ conn'[d] = conn[d]
      BY <1>1, <1>2, <1>4
    <3>2. conn[d].player # None /\ data[conn[d].player].squad
      BY <2>1, <3>1 DEF IInv, PreparedHasSquad, Prepared
    <3> QED BY <1>9, <3>1, <3>2
  <2> QED BY <2>1 DEF PreparedHasSquad, Prepared
<1>13. \A q \in Player : \A s \in Slot :
         data'[q].grid[s] = IF q \in R THEN data[q].grid[s] ELSE None
  BY <1>3, Bounds
<1>14. owned' = Held' \cup OnGround'
  <2>1. \A t \in Catalyst :
          t \in owned \ Discarded(data, players, conn') <=>
            \/ t \in OnGround
            \/ \E q \in Player : \E s \in Slot : q \in R /\ data[q].grid[s] = t
    BY Discarding
  <2> HIDE DEF R
  <2>2. Held' = {t \in Catalyst : \E q \in Player : \E s \in Slot : q \in R /\ data[q].grid[s] = t}
    BY <1>13, Bounds DEF Held
  <2>3. owned' \subseteq Catalyst /\ OnGround' = OnGround /\ OnGround \subseteq Catalyst
    BY <1>1, <1>2, <1>5 DEF OnGround
  <2> QED BY <1>5, <2>1, <2>2, <2>3
<1> HIDE DEF R
<1>15. \A q \in Player : \A s \in Slot : data'[q].grid[s] \in {None, data[q].grid[s]}
  BY <1>13
<1>16. \A q \in Player : \A s \in Slot : data'[q].grid[s] \notin Unused
  <2>1. \A q \in Player : \A s \in Slot : data[q].grid[s] \notin Unused
    BY DEF Unused, IInv, CatalystsInv, OwnedIsPlaced, Held
  <2>2. None \notin Unused
    BY Bounds DEF Unused
  <2> QED BY <1>15, <2>1, <2>2
<1>17. CatalystsInv'
  BY <1>2, <1>14, <1>15, <1>16, Relaid
<1> QED BY <1>6, <1>7, <1>8, <1>10, <1>11, <1>12, <1>17 DEF IInv

\* What a hello of a user that is logged in does: it gives the player p, whose data
\* is e, the catalysts ts; the players nobody refers to any more are destroyed.
HelloEffect(c, u, p, ts, e) ==
  /\ p \in Given(u) /\ ts \in [Slot \ {LastSlot} -> Unused] /\ e \in PlayerData
  /\ \A s, r \in Slot \ {LastSlot} : ts[s] = ts[r] => s = r
  /\ players' = [players EXCEPT ![u] = p]
  /\ conn' = [conn EXCEPT ![c].user = u, ![c].player = p]
  /\ owned' = (owned \ Discarded(data, players', conn')) \cup {ts[s] : s \in Slot \ {LastSlot}}
  /\ stale' = [stale EXCEPT ![c] = Part]
  /\ e.index = conn[c].id /\ e.bits = Part
  /\ \A s \in Slot : e.grid[s] = IF s = LastSlot THEN None ELSE ts[s]
  /\ p \in Referred(players', conn')
  /\ data' \in [Player -> PlayerData]
  /\ \A q \in Player : data'[q] = IF q = p THEN e
                                ELSE IF q \in Referred(players', conn') THEN data[q]
                                ELSE NoPlayer

LEMMA HelloGives ==
  ASSUME IInv, NEW c \in Client, NEW u \in User, HelloPlayerRequest(c, u)
  PROVE  \E p, ts, e : HelloEffect(c, u, p, ts, e)
<1>1. /\ conn \in [Client -> Conn] /\ data \in [Player -> PlayerData] /\ clients \subseteq Client
      /\ stale \in [Client -> SUBSET Part] /\ replaced \subseteq clients /\ owned \subseteq Catalyst
      /\ players \in [User -> Player \cup {None}] /\ c \in clients
  BY DEF IInv, TypeOK, HelloPlayerRequest
<1>2. PICK p \in Given(u), ts \in [Slot \ {LastSlot} -> Unused] :
        /\ \A s, r \in DOMAIN ts : ts[s] = ts[r] => s = r
        /\ players' = [players EXCEPT ![u] = p]
        /\ conn' = [conn EXCEPT ![c].user = u, ![c].player = p]
        /\ data' = Collect([data EXCEPT ![p] =
                     Equipped(IF p \in Referred(players, conn) THEN @
                              ELSE [NoPlayer EXCEPT !.index = conn[c].id, !.bits = Part], ts)],
                     players', conn')
        /\ owned' = (owned \ Discarded(data, players', conn')) \cup {ts[s] : s \in DOMAIN ts}
        /\ stale' = [stale EXCEPT ![c] = Part]
  BY Zenon DEF HelloPlayerRequest
<1>3. UNCHANGED <<clients, object>>
      /\ replaced' = replaced \cup {d \in {c} : conn[c].state \in {"PreDungeon", "Dungeon"}}
  BY DEF HelloPlayerRequest
<1>4. p \in Player /\ p \notin Referred(players, conn) /\ p # None
  BY Bounds DEF Given
<1> DEFINE fresh == [NoPlayer EXCEPT !.index = conn[c].id, !.bits = Part]
           e == Equipped(fresh, ts)
           n == [conn[c] EXCEPT !.user = u, !.player = p]
           R == Referred(players', conn')
<1>5. fresh \in PlayerData /\ fresh.index = conn[c].id /\ fresh.bits = Part
      /\ \A s \in Slot : fresh.grid[s] = None
  <2>1. conn[c].id \in Index
    BY <1>1 DEF Conn
  <2> QED BY <2>1, Bounds DEF PlayerData
<1>6. ts \in [Slot \ {LastSlot} -> Catalyst] /\ DOMAIN ts = Slot \ {LastSlot}
      /\ \A s \in Slot \ {LastSlot} : ts[s] \in Unused
  BY DEF Unused
<1> HIDE DEF fresh
<1>7. /\ e \in PlayerData /\ e.index = conn[c].id
      /\ \A s \in Slot : e.grid[s] = IF s = LastSlot THEN None ELSE ts[s]
      /\ e.bits = Part
  <2>1. /\ Equipped(fresh, ts) \in PlayerData /\ Equipped(fresh, ts).index = fresh.index
        /\ \A s \in Slot :
             Equipped(fresh, ts).grid[s] = IF s = LastSlot THEN fresh.grid[s] ELSE ts[s]
        /\ Equipped(fresh, ts).bits = fresh.bits \cup (Part \ {CharacterBits, LastSlot})
    BY <1>5, <1>6, EquippedFields
  <2> QED BY <1>5, <2>1
<1>8. n \in Conn /\ n.player = p /\ n.id = conn[c].id /\ n.state = conn[c].state
  BY <1>1, <1>4 DEF Conn
<1>9. conn' = [conn EXCEPT ![c] = n]
  BY <1>1, <1>2
<1>10. data' = Collect([data EXCEPT ![p] = e], players', conn')
  BY <1>2, <1>4 DEF fresh
<1> HIDE DEF e, n
<1>11. conn' \in [Client -> Conn] /\ conn'[c] = n /\ \A d \in Client \ {c} : conn'[d] = conn[d]
  BY <1>1, <1>8, <1>9
<1>12. [data EXCEPT ![p] = e] \in [Player -> PlayerData]
  BY <1>1, <1>7
<1>13. data' \in [Player -> PlayerData]
       /\ \A q \in Player : data'[q] = IF q \in R THEN [data EXCEPT ![p] = e][q] ELSE NoPlayer
  BY <1>10, <1>12, Collecting
<1>14. p \in R
  BY <1>4, <1>8, <1>11 DEF Referred
<1>15. \A q \in Player : data'[q] = IF q = p THEN e ELSE IF q \in R THEN data[q] ELSE NoPlayer
  BY <1>1, <1>4, <1>13, <1>14
<1> HIDE DEF R
<1>16. \A s, r \in Slot \ {LastSlot} : ts[s] = ts[r] => s = r
  BY <1>2, <1>6
<1>17. owned' = (owned \ Discarded(data, players', conn')) \cup {ts[s] : s \in Slot \ {LastSlot}}
  BY <1>2, <1>6
<1>18. /\ p \in Referred(players', conn')
       /\ \A q \in Player : data'[q] = IF q = p THEN e
                                     ELSE IF q \in Referred(players', conn') THEN data[q]
                                     ELSE NoPlayer
  BY <1>14, <1>15 DEF R
<1>19. HelloEffect(c, u, p, ts, e)
  BY <1>2, <1>7, <1>13, <1>16, <1>17, <1>18 DEF HelloEffect
<1> QED BY <1>19

LEMMA HelloPlayerRequestInv ==
  ASSUME IInv, NEW c \in Client, NEW u \in User, HelloPlayerRequest(c, u)
  PROVE  IInv'
<1>1. /\ conn \in [Client -> Conn] /\ data \in [Player -> PlayerData] /\ clients \subseteq Client
      /\ stale \in [Client -> SUBSET Part] /\ replaced \subseteq clients /\ owned \subseteq Catalyst
      /\ players \in [User -> Player \cup {None}] /\ c \in clients
  BY DEF IInv, TypeOK, HelloPlayerRequest
<1> DEFINE R == Referred(players', conn')
<1>0. PICK p, ts, e : HelloEffect(c, u, p, ts, e)
  BY HelloGives
<1>2. /\ p \in Given(u) /\ ts \in [Slot \ {LastSlot} -> Unused] /\ e \in PlayerData
      /\ \A s, r \in Slot \ {LastSlot} : ts[s] = ts[r] => s = r
      /\ players' = [players EXCEPT ![u] = p]
      /\ conn' = [conn EXCEPT ![c].user = u, ![c].player = p]
      /\ owned' = (owned \ Discarded(data, players', conn')) \cup {ts[s] : s \in Slot \ {LastSlot}}
      /\ stale' = [stale EXCEPT ![c] = Part]
      /\ e.index = conn[c].id /\ e.bits = Part
      /\ \A s \in Slot : e.grid[s] = IF s = LastSlot THEN None ELSE ts[s]
      /\ p \in R
      /\ data' \in [Player -> PlayerData]
      /\ \A q \in Player : data'[q] = IF q = p THEN e ELSE IF q \in R THEN data[q] ELSE NoPlayer
  BY <1>0, Zenon DEF HelloEffect
<1>3. UNCHANGED <<clients, object>>
      /\ replaced' = replaced \cup {d \in {c} : conn[c].state \in {"PreDungeon", "Dungeon"}}
  BY DEF HelloPlayerRequest
<1>4. p \in Player /\ p \notin Referred(players, conn) /\ p # None
  BY <1>2, Bounds DEF Given
<1> DEFINE n == [conn[c] EXCEPT !.user = u, !.player = p]
<1>6. ts \in [Slot \ {LastSlot} -> Catalyst] /\ DOMAIN ts = Slot \ {LastSlot}
      /\ \A s \in Slot \ {LastSlot} : ts[s] \in Unused
  BY <1>2 DEF Unused
<1>7. /\ e \in PlayerData /\ e.index = conn[c].id /\ e.bits = Part
      /\ \A s \in Slot : e.grid[s] = IF s = LastSlot THEN None ELSE ts[s]
  BY <1>2
<1>8. n \in Conn /\ n.player = p /\ n.id = conn[c].id /\ n.state = conn[c].state
  BY <1>1, <1>4 DEF Conn
<1>9. conn' = [conn EXCEPT ![c] = n]
  BY <1>1, <1>2
<1> HIDE DEF n
<1>11. conn' \in [Client -> Conn] /\ conn'[c] = n /\ \A d \in Client \ {c} : conn'[d] = conn[d]
  BY <1>1, <1>8, <1>9
<1>13. data' \in [Player -> PlayerData]
  BY <1>2
<1>15. /\ p \in R
       /\ \A q \in Player : data'[q] = IF q = p THEN e ELSE IF q \in R THEN data[q] ELSE NoPlayer
  BY <1>2
<1>16. stale' \in [Client -> SUBSET Part] /\ stale'[c] = Part
       /\ \A d \in Client \ {c} : stale'[d] = stale[d]
  BY <1>1, <1>2
<1>17. players' \in [User -> Player \cup {None}]
  BY <1>1, <1>2, <1>4
<1>18. owned' \subseteq Catalyst /\ replaced' \subseteq clients'
  BY <1>1, <1>2, <1>3, <1>6
<1>19. TypeOK'
  BY <1>3, <1>11, <1>13, <1>16, <1>17, <1>18 DEF IInv, TypeOK
<1>20. StrangersAreBlank'
  BY <1>1, <1>3, <1>11 DEF IInv, StrangersAreBlank
<1>21. UnreferredIsEmpty'
  BY <1>15 DEF UnreferredIsEmpty
<1>22. ASSUME NEW d \in clients, d # c, conn'[d].player # None
       PROVE  /\ conn'[d] = conn[d] /\ stale'[d] = stale[d] /\ conn[d].player # p
              /\ data'[conn[d].player] = data[conn[d].player]
  <2>1. conn'[d] = conn[d] /\ stale'[d] = stale[d]
    BY <1>1, <1>11, <1>16, <1>22
  <2>2. conn[d].player \in Player /\ conn[d].player # p
    BY <1>4, <1>22, <2>1, PlayerOf
  <2>3. conn[d].player \in R
    BY <1>1, <1>22, <2>1 DEF Referred
  <2> QED BY <1>15, <2>1, <2>2, <2>3
<1>23. data'[p] = e /\ conn'[c].player = p /\ conn'[c].id = conn[c].id /\ conn'[c].state = conn[c].state
  BY <1>4, <1>8, <1>11, <1>15
<1>24. PlayersAreNotShared'
  <2>1. ASSUME NEW d \in clients, conn'[d].player # None
        PROVE  data'[conn'[d].player].index = conn'[d].id
    BY <1>7, <1>22, <1>23, <2>1 DEF IInv, PlayersAreNotShared
  <2>2. ASSUME NEW d \in clients, NEW f \in clients \ {d}, conn'[d].player # None
        PROVE  conn'[f].player # conn'[d].player
    BY <1>4, <1>22, <1>23, <2>2 DEF IInv, PlayersAreNotShared
  <2> QED BY <1>3, <2>1, <2>2 DEF PlayersAreNotShared
<1>25. OwnCopyPending'
  <2>1. ASSUME NEW d \in clients, conn'[d].player # None
        PROVE  stale'[d] \subseteq data'[conn'[d].player].bits
    BY <1>7, <1>16, <1>22, <1>23, <2>1 DEF IInv, OwnCopyPending
  <2> QED BY <1>3, <2>1 DEF OwnCopyPending
<1>26. PreparedHasSquad'
  <2>1. ASSUME NEW d \in clients \ replaced', conn'[d].state \in Prepared
        PROVE  conn'[d].player # None /\ data'[conn'[d].player].squad
    <3>1. d # c
      BY <1>3, <1>23, <2>1 DEF Prepared
    <3>2. d \in clients \ replaced /\ conn'[d] = conn[d]
      BY <1>1, <1>3, <1>11, <2>1, <3>1
    <3>3. conn[d].player # None /\ data[conn[d].player].squad
      BY <2>1, <3>2 DEF IInv, PreparedHasSquad, Prepared
    <3> QED BY <1>22, <3>1, <3>2, <3>3
  <2> QED BY <1>3, <2>1 DEF PreparedHasSquad, Prepared
<1>27. \A q \in Player : \A s \in Slot :
         data'[q].grid[s] = IF q = p THEN (IF s = LastSlot THEN None ELSE ts[s])
                            ELSE IF q \in R THEN data[q].grid[s] ELSE None
  BY <1>7, <1>15, Bounds
<1>28. \A s \in Slot : data[p].grid[s] = None
  BY <1>4, Bounds DEF IInv, UnreferredIsEmpty
<1>29. ASSUME NEW t \in Catalyst
       PROVE  t \in owned \ Discarded(data, players', conn') <=>
                \/ t \in OnGround
                \/ \E q \in Player : \E s \in Slot : q \in R /\ data[q].grid[s] = t
  <2> DEFINE ps == players'
             cn == conn'
  <2> HIDE DEF ps, cn
  <2>1. t \in owned \ Discarded(data, ps, cn) <=>
          \/ t \in OnGround
          \/ \E q \in Player : \E s \in Slot : q \in Referred(ps, cn) /\ data[q].grid[s] = t
    BY Discarding
  <2> QED BY <2>1, Zenon DEF ps, cn
<1> HIDE DEF R
<1>30. Held' = {t \in Catalyst : \E q \in Player : \E s \in Slot : q \in R /\ data[q].grid[s] = t}
                 \cup {ts[s] : s \in Slot \ {LastSlot}}
  <2>1. ASSUME NEW t \in Held'
        PROVE  \/ \E q \in Player : \E s \in Slot : q \in R /\ data[q].grid[s] = t
               \/ \E s \in Slot \ {LastSlot} : ts[s] = t
    <3>1. PICK q \in Player, s \in Slot : data'[q].grid[s] = t
      BY DEF Held
    <3>2. t # None
      BY Bounds DEF Held
    <3> QED BY <1>27, <3>1, <3>2
  <2>2. ASSUME NEW t \in Catalyst, NEW q \in Player, NEW s \in Slot, q \in R, data[q].grid[s] = t
        PROVE  t \in Held'
    <3>1. q # p
      BY <1>28, <2>2, Bounds
    <3> QED BY <1>27, <2>2, <3>1 DEF Held
  <2>3. ASSUME NEW s \in Slot \ {LastSlot} PROVE ts[s] \in Held'
    BY <1>4, <1>6, <1>27 DEF Held
  <2>4. Held' \subseteq Catalyst
    BY DEF Held
  <2> QED BY <2>1, <2>2, <2>3, <2>4
<1>31. owned' = Held' \cup OnGround'
  <2>1. OnGround' = OnGround /\ OnGround \subseteq Catalyst
    BY <1>3 DEF OnGround
  <2> QED BY <1>1, <1>2, <1>6, <1>29, <1>30, <2>1
<1>32. \A q \in Player : \A s \in Slot : data[q].grid[s] \notin Unused /\ None \notin Unused
  BY Bounds DEF Unused, IInv, CatalystsInv, OwnedIsPlaced, Held
<1>33. \A q \in Player : \A s \in Slot :
         data'[q].grid[s] \in {None, data[q].grid[s]} \cup Unused
  BY <1>6, <1>27
<1>34. \A q, w \in Player : \A s, r \in Slot :
         data'[q].grid[s] \in Unused /\ data'[q].grid[s] = data'[w].grid[r] => q = w /\ s = r
  <2>1. ASSUME NEW q \in Player, NEW s \in Slot, data'[q].grid[s] \in Unused
        PROVE  q = p /\ s # LastSlot /\ data'[q].grid[s] = ts[s]
    BY <1>27, <1>32, <2>1
  <2>2. \A s, r \in Slot \ {LastSlot} : ts[s] = ts[r] => s = r
    BY <1>2, <1>6
  <2>3. ASSUME NEW q \in Player, NEW w \in Player, NEW s \in Slot, NEW r \in Slot,
               data'[q].grid[s] \in Unused, data'[q].grid[s] = data'[w].grid[r]
        PROVE  q = w /\ s = r
    <3>1. data'[w].grid[r] \in Unused
      BY <2>3
    <3>2. q = p /\ w = p /\ s # LastSlot /\ r # LastSlot /\ ts[s] = ts[r]
      BY <2>1, <2>3, <3>1
    <3> QED BY <2>2, <3>2
  <2> QED BY <2>3
<1>35. CatalystsInv'
  BY <1>3, <1>31, <1>33, <1>34, Relaid
<1> QED BY <1>19, <1>20, <1>21, <1>24, <1>25, <1>26, <1>35 DEF IInv

LEMMA HelloUnknownUserInv ==
  ASSUME IInv, NEW c \in Client, HelloUnknownUser(c)
  PROVE  IInv'
<1> DEFINE p == conn[c].player
           parts == Part \ {CharacterBits, LastSlot}
<1>1. c \in clients /\ p # None /\ Miss(c, parts) /\ UNCHANGED <<clients, conn, players, object, replaced>>
  BY DEF HelloUnknownUser
<1>2. PICK ts \in [Slot \ {LastSlot} -> Unused] :
        /\ \A s, r \in DOMAIN ts : ts[s] = ts[r] => s = r
        /\ data' = [data EXCEPT ![p] = Equipped(data[p], ts)]
        /\ owned' = (owned \ {data[p].grid[s] : s \in Slot \ {LastSlot}}) \cup {ts[s] : s \in DOMAIN ts}
  BY DEF HelloUnknownUser
<1>3. p \in Player /\ data[p] \in PlayerData /\ data \in [Player -> PlayerData]
  BY <1>1, PlayerOf DEF IInv, TypeOK
<1>4. ts \in [Slot \ {LastSlot} -> Catalyst] /\ DOMAIN ts = Slot \ {LastSlot}
      /\ \A s \in Slot \ {LastSlot} : ts[s] \in Unused
  BY DEF Unused
<1> DEFINE e == Equipped(data[p], ts)
<1>5. /\ e \in PlayerData /\ e.index = data[p].index /\ e.squad = data[p].squad
      /\ \A s \in Slot : e.grid[s] = IF s = LastSlot THEN data[p].grid[s] ELSE ts[s]
      /\ e.bits = data[p].bits \cup parts
  BY <1>3, <1>4, EquippedFields
<1>6. KeepsPlayers(conn')
  BY <1>1 DEF KeepsPlayers, IInv, TypeOK
<1>7. parts \in SUBSET Part
  OBVIOUS
<1>8. data' = [data EXCEPT ![p] = e]
  BY <1>2
<1> HIDE DEF e, parts
<1>9. LinksInv' /\ data' \in [Player -> PlayerData] /\ stale' \in [Client -> SUBSET Part]
  BY <1>1, <1>5, <1>6, <1>7, <1>8, MissedByOne
<1>10. owned' \subseteq Catalyst
  <2>1. owned \subseteq Catalyst
    BY DEF IInv, TypeOK
  <2>2. {ts[s] : s \in DOMAIN ts} \subseteq Catalyst
    BY <1>4
  <2> QED BY <1>2, <2>1, <2>2
<1>11. TypeOK'
  BY <1>1, <1>9, <1>10 DEF IInv, TypeOK
<1>12. PreparedHasSquad'
  <2>1. \A q \in Player : data[q].squad => data'[q].squad
    BY <1>3, <1>5, <1>8
  <2> QED BY <1>1, <1>6, <2>1, SquadsInv
<1>13. \A q \in Player : \A s \in Slot :
         data'[q].grid[s] = IF q = p /\ s # LastSlot THEN ts[s] ELSE data[q].grid[s]
  BY <1>3, <1>5, <1>8
<1> DEFINE old == {data[p].grid[s] : s \in Slot \ {LastSlot}}
           new == {ts[s] : s \in Slot \ {LastSlot}}
<1>14. owned = Held \cup OnGround
  BY DEF IInv, CatalystsInv, OwnedIsPlaced
<1>15. OnGround' = OnGround /\ OnGround \cap old = {}
  BY <1>1, <1>3, Bounds DEF OnGround, IInv, CatalystsInv, HeldIsLifted
<1>16. Held' = (Held \ old) \cup new
  <2>1. ASSUME NEW t \in Held' PROVE t \in (Held \ old) \cup new
    <3>1. PICK q \in Player, s \in Slot : data'[q].grid[s] = t
      BY DEF Held
    <3>2. t \in Catalyst /\ t # None
      BY Bounds DEF Held
    <3>3. CASE q = p /\ s # LastSlot
      BY <1>13, <3>1, <3>3
    <3>4. CASE ~ (q = p /\ s # LastSlot)
      <4>1. data[q].grid[s] = t
        BY <1>13, <3>1, <3>4
      <4>2. t \notin old
        BY <1>3, <3>2, <3>4, <4>1 DEF IInv, CatalystsInv, HeldOnce
      <4> QED BY <3>2, <4>1, <4>2 DEF Held
    <3> QED BY <3>3, <3>4
  <2>2. ASSUME NEW t \in Held \ old PROVE t \in Held'
    <3>1. PICK q \in Player, s \in Slot : data[q].grid[s] = t
      BY DEF Held
    <3>2. ~ (q = p /\ s # LastSlot)
      BY <3>1
    <3>3. t \in Catalyst
      BY DEF Held
    <3> QED BY <1>13, <3>1, <3>2, <3>3 DEF Held
  <2>3. ASSUME NEW s \in Slot \ {LastSlot} PROVE ts[s] \in Held'
    BY <1>3, <1>4, <1>13 DEF Held
  <2> QED BY <2>1, <2>2, <2>3
<1>17. owned' = Held' \cup OnGround'
  BY <1>2, <1>4, <1>14, <1>15, <1>16
<1>18. \A q \in Player : \A s \in Slot : data[q].grid[s] \notin Unused
  BY DEF Unused, IInv, CatalystsInv, OwnedIsPlaced, Held
<1>19. \A q \in Player : \A s \in Slot :
         data'[q].grid[s] \in {None, data[q].grid[s]} \cup Unused
  BY <1>4, <1>13
<1>20. \A q, w \in Player : \A s, r \in Slot :
         data'[q].grid[s] \in Unused /\ data'[q].grid[s] = data'[w].grid[r] => q = w /\ s = r
  <2>1. ASSUME NEW q \in Player, NEW s \in Slot, data'[q].grid[s] \in Unused
        PROVE  q = p /\ s \in Slot \ {LastSlot} /\ data'[q].grid[s] = ts[s]
    BY <1>13, <1>18, <2>1
  <2>2. \A s, r \in Slot \ {LastSlot} : ts[s] = ts[r] => s = r
    BY <1>2, <1>4
  <2>3. ASSUME NEW q \in Player, NEW w \in Player, NEW s \in Slot, NEW r \in Slot,
               data'[q].grid[s] \in Unused, data'[q].grid[s] = data'[w].grid[r]
        PROVE  q = w /\ s = r
    <3>1. data'[w].grid[r] \in Unused
      BY <2>3
    <3>2. q = p /\ w = p /\ s \in Slot \ {LastSlot} /\ r \in Slot \ {LastSlot} /\ ts[s] = ts[r]
      BY <2>1, <2>3, <3>1
    <3> QED BY <2>2, <3>2
  <2> QED BY <2>3
<1>21. CatalystsInv'
  BY <1>1, <1>17, <1>19, <1>20, Relaid
<1> QED BY <1>9, <1>11, <1>12, <1>21 DEF IInv, LinksInv

----------------------------------------------------------------------------
\* The theorems.

LEMMA StepIInv == IInv /\ [Next]_vars => IInv'
<1> SUFFICES ASSUME IInv, [Next]_vars PROVE IInv'
  OBVIOUS
<1>1. CASE Update
  BY <1>1, UpdateInv
<1>2. CASE ResendTask
  BY <1>2, ResendTaskInv
<1>3. CASE \E t \in Catalyst : NewCatalyst(t)
  BY <1>3, NewCatalystInv
<1>4. ASSUME NEW c \in Client, NewConnection(c) \/ RemoveClient(c) PROVE IInv'
  BY <1>4, NewConnectionInv, RemoveClientInv
<1>5. ASSUME NEW c \in Client, HelloUnknownUser(c) \/ PrepareGameStart(c) \/ SwapCharacter(c)
      PROVE  IInv'
  BY <1>5, HelloUnknownUserInv, PrepareGameStartInv, SwapCharacterInv
<1>6. ASSUME NEW c \in Client, NEW u \in User, HelloPlayerRequest(c, u) PROVE IInv'
  BY <1>6, HelloPlayerRequestInv
<1>7. ASSUME NEW c \in Client, NEW status \in {"start", "beam out", "loading"},
             PlayerStatusUpdate(c, status)
      PROVE  IInv'
  BY <1>7, PlayerStatusUpdateInv
<1>8. ASSUME NEW c \in Client, NEW s \in Slot, DropCatalyst(c, s) PROVE IInv'
  BY <1>8, DropCatalystInv
<1>9. ASSUME NEW c \in Client, NEW s \in Slot, NEW r \in Slot, MoveCatalyst(c, s, r) PROVE IInv'
  BY <1>9, MoveCatalystInv
<1>10. ASSUME NEW c \in Client, NEW t \in Catalyst, PickupCatalyst(c, t) PROVE IInv'
  BY <1>10, PickupCatalystInv
<1>11. ASSUME NEW c \in Client, NEW s \in Slot, NEW o \in Catalyst \cup {None},
              DragOffGrid(c, s, o)
       PROVE  IInv'
  BY <1>11, DragOffGridInv
<1>12. CASE UNCHANGED vars
  <2>1. Held' = Held /\ OnGround' = OnGround /\ Referred(players, conn)' = Referred(players, conn)
    BY <1>12 DEF vars, Held, OnGround, Referred
  <2>2. TypeOK' /\ StrangersAreBlank' /\ PlayersAreNotShared'
    BY <1>12 DEF vars, IInv, TypeOK, StrangersAreBlank, PlayersAreNotShared
  <2>3. UnreferredIsEmpty' /\ OwnCopyPending' /\ PreparedHasSquad'
    BY <1>12, <2>1 DEF vars, IInv, UnreferredIsEmpty, OwnCopyPending, PreparedHasSquad
  <2>4. CatalystsInv'
    BY <1>12, <2>1 DEF vars, IInv, CatalystsInv, HeldOnce, HeldIsLifted, OwnedIsPlaced
  <2> QED BY <2>2, <2>3, <2>4 DEF IInv
<1> QED BY <1>1, <1>2, <1>3, <1>4, <1>5, <1>6, <1>7, <1>8, <1>9, <1>10, <1>11, <1>12 DEF Next

\* IInv is an invariant.
THEOREM Inductive == Spec => []IInv
BY InitIInv, StepIInv, PTL DEF Spec

\* Connections, players and slots keep to their types: a client's number is
\* below the number of addresses, a found slot is a slot of the grid.
THEOREM TypeCorrect == Spec => []TypeOK
<1>1. IInv => TypeOK
  BY DEF IInv
<1> QED BY <1>1, Inductive, PTL

LEMMA PlacesCounted == IInv => CatalystsConserved
<1> SUFFICES ASSUME IInv PROVE CatalystsConserved
  OBVIOUS
<1> DEFINE A(t) == {ps \in Player \X Slot : data[ps[1]].grid[ps[2]] = t}
           B(t) == {<<o>> : o \in {"ground"} \cap {object[t]}}
<1>1. ASSUME NEW t \in Catalyst PROVE Cardinality(A(t) \cup B(t)) = IF t \in owned THEN 1 ELSE 0
  <2>1. t \in owned <=> t \in Held \/ t \in OnGround
    BY DEF IInv, CatalystsInv, OwnedIsPlaced
  <2>2. t \in OnGround => A(t) = {}
    BY Bounds DEF IInv, CatalystsInv, HeldIsLifted, OnGround
  <2>3. IF t \in OnGround THEN B(t) = {<<"ground">>} ELSE B(t) = {}
    BY DEF OnGround
  <2>4. t \notin Held => A(t) = {}
    BY DEF Held
  <2>5. CASE t \in Held
    <3>1. PICK q \in Player, s \in Slot : data[q].grid[s] = t
      BY <2>5 DEF Held
    <3>2. \A ps \in A(t) : ps = <<q, s>>
      BY <3>1, Bounds DEF IInv, CatalystsInv, HeldOnce
    <3>3. <<q, s>> \in A(t)
      BY <3>1
    <3>4. A(t) = {<<q, s>>} /\ B(t) = {}
      BY <2>2, <2>3, <3>2, <3>3
    <3>5. Cardinality({<<q, s>>}) = 1
      BY FS_Singleton
    <3> HIDE DEF A, B
    <3>6. A(t) \cup B(t) = {<<q, s>>}
      BY <3>4
    <3> QED BY <2>1, <2>5, <3>5, <3>6
  <2>6. CASE t \in OnGround
    <3>1. Cardinality({<<"ground">>}) = 1
      BY FS_Singleton
    <3> HIDE DEF A, B
    <3>2. A(t) \cup B(t) = {<<"ground">>}
      BY <2>2, <2>3, <2>6
    <3> QED BY <2>1, <2>6, <3>1, <3>2
  <2>7. CASE t \notin Held /\ t \notin OnGround
    <3> HIDE DEF A, B
    <3>1. A(t) \cup B(t) = {}
      BY <2>3, <2>4, <2>7
    <3> QED BY <2>1, <2>7, <3>1, FS_EmptySet
  <2> QED BY <2>5, <2>6, <2>7
<1> QED BY <1>1 DEF CatalystsConserved

\* SetCatalyst, DropCatalyst and InteractWithObject never copy a catalyst that was
\* given out, and lose it only where SetCatalyst ignores the other slot of a drag,
\* which the grid does not have; else it is lost with its player or to new ones.
THEOREM CatalystsAreConserved == Spec => []CatalystsConserved
BY Inductive, PlacesCounted, PTL

\* SetUser makes a player that no other connection has, with its client's number.
THEOREM PlayersAreOwn == Spec => []PlayersAreNotShared
<1>1. IInv => PlayersAreNotShared
  BY DEF IInv
<1> QED BY <1>1, Inductive, PTL

\* ResetUpdateBits forgets nothing that the player's own client was not sent.
THEOREM NothingIsForgotten == Spec => []OwnCopyPending
<1>1. IInv => OwnCopyPending
  BY DEF IInv
<1> QED BY <1>1, Inductive, PTL

\* SendGameStart lets no client into the dungeon whose player has no squad,
\* but for those that said hello again after PrepareGameStart.
THEOREM StartsWithSquad == Spec => []DungeonHasSquad
<1>1. IInv => DungeonHasSquad
  BY DEF IInv, PreparedHasSquad, DungeonHasSquad
<1> QED BY <1>1, Inductive, PTL

----------------------------------------------------------------------------
\* The refinement of CatalystCustody.

\* The places of pl are those of the grids in d and the objects in ob.
Located(d, ob, pl) ==
  /\ pl = [t \in Catalyst |-> pl[t]]
  /\ \A t \in Catalyst :
       /\ pl[t] = Custody!Ground <=> ob[t] = "ground"
       /\ pl[t] = Custody!Nowhere <=>
            ob[t] # "ground" /\ \A p \in Player : \A s \in Slot : d[p].grid[s] # t
       /\ \A p \in Player : \A s \in Slot : pl[t] = Custody!In(p, s) <=> d[p].grid[s] = t

LEMMA PlacesDiffer ==
  /\ Custody!Ground # Custody!Nowhere
  /\ Custody!Ground.at # "slot" /\ Custody!Nowhere.at # "slot"
  /\ \A p, s : /\ Custody!In(p, s).at = "slot"
               /\ Custody!In(p, s).player = p /\ Custody!In(p, s).slot = s
BY DEF Custody!Ground, Custody!Nowhere, Custody!In

LEMMA Locating ==
  ASSUME NEW d, NEW ob,
         \A p, q \in Player : \A s, r \in Slot :
           d[p].grid[s] # None /\ d[p].grid[s] = d[q].grid[r] => p = q /\ s = r,
         \A p \in Player : \A s \in Slot : d[p].grid[s] # None => ob[d[p].grid[s]] # "ground"
  PROVE  Located(d, ob, [t \in Catalyst |-> PlaceOf(d, ob, t)])
<1> SUFFICES ASSUME NEW t \in Catalyst
             PROVE  LET x == PlaceOf(d, ob, t) IN
                      /\ x = Custody!Ground <=> ob[t] = "ground"
                      /\ x = Custody!Nowhere <=>
                           ob[t] # "ground" /\ \A p \in Player : \A s \in Slot : d[p].grid[s] # t
                      /\ \A p \in Player : \A s \in Slot : x = Custody!In(p, s) <=> d[p].grid[s] = t
  BY DEF Located
<1> DEFINE x == PlaceOf(d, ob, t)
<1>1. CASE ob[t] = "ground"
  <2>1. x = Custody!Ground
    BY <1>1 DEF PlaceOf, Custody!Ground
  <2>2. \A p \in Player : \A s \in Slot : d[p].grid[s] # t
    BY <1>1, Bounds
  <2> HIDE DEF x
  <2> QED BY <1>1, <2>1, <2>2, PlacesDiffer DEF x
<1>2. CASE ob[t] # "ground" /\ \A p \in Player : \A s \in Slot : d[p].grid[s] # t
  <2>1. x = Custody!Nowhere
    BY <1>2 DEF PlaceOf, Custody!Nowhere
  <2> HIDE DEF x
  <2> QED BY <1>2, <2>1, PlacesDiffer DEF x
<1>3. ASSUME NEW q \in Player, NEW r \in Slot, d[q].grid[r] = t
      PROVE  /\ ob[t] # "ground" /\ x = Custody!In(q, r)
             /\ \A p \in Player : \A s \in Slot : d[p].grid[s] = t => p = q /\ s = r
  <2>1. ob[t] # "ground" /\ \A p \in Player : \A s \in Slot : d[p].grid[s] = t => p = q /\ s = r
    BY <1>3, Bounds
  <2> DEFINE p == CHOOSE p \in Player : \E s \in Slot : d[p].grid[s] = t
             s == CHOOSE s \in Slot : d[p].grid[s] = t
  <2>2. x = [at |-> "slot", player |-> p, slot |-> s]
    BY <1>3, <2>1, Zenon DEF PlaceOf
  <2>3. p = q
    BY <1>3, <2>1
  <2>4. s = r
    BY <1>3, <2>1, <2>3
  <2> HIDE DEF p, s
  <2> QED BY <2>1, <2>2, <2>3, <2>4 DEF Custody!In
<1> HIDE DEF x
<1>4. CASE \E q \in Player : \E r \in Slot : d[q].grid[r] = t
  <2>1. PICK q \in Player, r \in Slot : d[q].grid[r] = t
    BY <1>4
  <2>2. /\ ob[t] # "ground" /\ x = Custody!In(q, r)
        /\ \A p \in Player : \A s \in Slot : d[p].grid[s] = t => p = q /\ s = r
    BY <1>3, <2>1
  <2> QED BY <2>1, <2>2, PlacesDiffer DEF x
<1> QED BY <1>1, <1>2, <1>4

\* Before and after a step.
LEMMA Locations ==
  ASSUME IInv, IInv'
  PROVE  Located(data, object, Places) /\ Located(data', object', Places')
<1>1. Located(data, object, [t \in Catalyst |-> PlaceOf(data, object, t)])
  <2> DEFINE d == data
             ob == object
  <2>1. /\ \A p, q \in Player : \A s, r \in Slot :
             d[p].grid[s] # None /\ d[p].grid[s] = d[q].grid[r] => p = q /\ s = r
        /\ \A p \in Player : \A s \in Slot : d[p].grid[s] # None => ob[d[p].grid[s]] # "ground"
    BY DEF IInv, CatalystsInv, HeldOnce, HeldIsLifted
  <2> HIDE DEF d, ob
  <2>2. Located(d, ob, [t \in Catalyst |-> PlaceOf(d, ob, t)])
    BY <2>1, Locating
  <2> QED BY <2>2 DEF d, ob
<1>2. Located(data', object', [t \in Catalyst |-> PlaceOf(data', object', t)])
  <2> DEFINE d == data'
             ob == object'
  <2>1. /\ \A p, q \in Player : \A s, r \in Slot :
             d[p].grid[s] # None /\ d[p].grid[s] = d[q].grid[r] => p = q /\ s = r
        /\ \A p \in Player : \A s \in Slot : d[p].grid[s] # None => ob[d[p].grid[s]] # "ground"
    BY DEF IInv, CatalystsInv, HeldOnce, HeldIsLifted
  <2> HIDE DEF d, ob
  <2>2. Located(d, ob, [t \in Catalyst |-> PlaceOf(d, ob, t)])
    BY <2>1, Locating
  <2> QED BY <2>2 DEF d, ob
<1> QED BY <1>1, <1>2 DEF Places

\* A catalyst stays that is in the slot it was in, or in none, and on the ground or
\* not as before.
LEMMA StaysThere ==
  ASSUME IInv, IInv', NEW t \in Catalyst,
         object'[t] = "ground" <=> object[t] = "ground",
         \A p \in Player : \A s \in Slot : data'[p].grid[s] = t <=> data[p].grid[s] = t
  PROVE  Places'[t] = Places[t]
<1> DEFINE a == Places
           b == Places'
<1>1. Located(data, object, a) /\ Located(data', object', b)
  BY Locations
<1> HIDE DEF a, b
<1>2. ASSUME object[t] = "ground" PROVE b[t] = a[t]
  BY <1>1, <1>2 DEF Located
<1>3. ASSUME NEW p \in Player, NEW s \in Slot, data[p].grid[s] = t PROVE b[t] = a[t]
  BY <1>1, <1>3 DEF Located
<1>4. ASSUME object[t] # "ground", \A p \in Player : \A s \in Slot : data[p].grid[s] # t
      PROVE  b[t] = a[t]
  BY <1>1, <1>4 DEF Located
<1>5. b[t] = a[t]
  BY <1>2, <1>3, <1>4
<1> QED BY <1>5 DEF a, b

LEMMA AllStay ==
  ASSUME IInv, IInv',
         \A q \in Player : data'[q].grid = data[q].grid,
         \A t \in Catalyst : object'[t] = "ground" <=> object[t] = "ground"
  PROVE  UNCHANGED Places
<1>1. \A t \in Catalyst : Places'[t] = Places[t]
  BY StaysThere
<1>2. Places = [t \in Catalyst |-> Places[t]] /\ Places' = [t \in Catalyst |-> Places'[t]]
  BY Locations DEF Located
<1> QED BY <1>1, <1>2

\* What a new catalyst, a pickup, a drop, a move and a drag off the grid do to the places.
LEMMA NewCatalystLays ==
  ASSUME IInv, IInv', NEW t \in Catalyst, NewCatalyst(t)
  PROVE  Custody!Lay(t)
<1>1. /\ t \notin owned /\ object[t] = "none" /\ data' = data
      /\ object' = [object EXCEPT ![t] = "ground"]
  BY DEF NewCatalyst, Unused
<1>2. \A u \in Catalyst : object'[u] = IF u = t THEN "ground" ELSE object[u]
  BY <1>1 DEF IInv, TypeOK
<1>3. \A p \in Player : \A s \in Slot : data[p].grid[s] # t
  BY <1>1 DEF IInv, CatalystsInv, OwnedIsPlaced, Held
<1>4. \A u \in Catalyst \ {t} : Places'[u] = Places[u]
  BY <1>1, <1>2, StaysThere
<1>5. /\ Places = [u \in Catalyst |-> Places[u]] /\ Places' = [u \in Catalyst |-> Places'[u]]
      /\ Places[t] = Custody!Nowhere /\ Places'[t] = Custody!Ground
  BY <1>1, <1>2, <1>3, Locations DEF Located
<1>6. Places' = [Places EXCEPT ![t] = Custody!Ground]
  BY <1>4, <1>5
<1> QED BY <1>5, <1>6 DEF Custody!Lay

LEMMA PickupPicksUp ==
  ASSUME IInv, IInv', NEW c \in Client, NEW t \in Catalyst, PickupCatalyst(c, t)
  PROVE  Custody!PickUp(t)
<1> DEFINE p == conn[c].player
           s == Min(Open(data[p]))
<1>0. PickedInto(t, p, s)
  BY PickupEffect
<1> HIDE DEF p, s
<1>1. /\ p \in Player /\ object[t] = "ground" /\ object' = [object EXCEPT ![t] = "marked"]
      /\ s \in Slot /\ data[p].grid[s] = None
      /\ \A r \in Slot : r < s => data[p].grid[r] # None
      /\ \A q \in Player : \A r \in Slot :
           data'[q].grid[r] = IF q = p /\ r = s THEN t ELSE data[q].grid[r]
  BY <1>0, Zenon DEF PickedInto
<1>2. \A u \in Catalyst : object'[u] = IF u = t THEN "marked" ELSE object[u]
  BY <1>1 DEF IInv, TypeOK
<1>3. \A u \in Catalyst \ {t} : Places'[u] = Places[u]
  <2>1. ASSUME NEW u \in Catalyst \ {t}
        PROVE  \A q \in Player : \A r \in Slot : data'[q].grid[r] = u <=> data[q].grid[r] = u
    BY <1>1, Bounds
  <2> QED BY <1>2, <2>1, StaysThere
<1>4. /\ Places = [u \in Catalyst |-> Places[u]] /\ Places' = [u \in Catalyst |-> Places'[u]]
      /\ Places[t] = Custody!Ground /\ Places'[t] = Custody!In(p, s)
      /\ \A u \in Catalyst : \A r \in Slot : Places[u] = Custody!In(p, r) <=> data[p].grid[r] = u
  BY <1>1, <1>2, Locations DEF Located
<1>5. Places' = [Places EXCEPT ![t] = Custody!In(p, s)]
  BY <1>3, <1>4
<1>6. ~ Custody!Taken(p, s)
  BY <1>1, <1>4, Bounds DEF Custody!Taken
<1>7. ASSUME NEW r \in Slot, r < s PROVE Custody!Taken(p, r)
  <2>1. data[p].grid[r] \in Catalyst
    BY <1>1, <1>7, SlotHolds
  <2> QED BY <1>4, <2>1 DEF Custody!Taken
<1> QED BY <1>1, <1>4, <1>5, <1>6, <1>7 DEF Custody!PickUp, Custody!Slot, Slot

LEMMA DragOverwrites ==
  ASSUME IInv, IInv', NEW c \in Client, NEW s \in Slot, NEW o \in Catalyst \cup {None},
         DragOffGrid(c, s, o)
  PROVE  \E p \in Player : Custody!Overwrite(p, s, o)
<1> DEFINE p == conn[c].player
<1>1. Overwritten(c, s, o)
  BY DragEffect
<1>2. /\ p \in Player /\ object' = object
      /\ \A q \in Player : \A r \in Slot :
           data'[q].grid[r] = IF q = p /\ r = s THEN o ELSE data[q].grid[r]
      /\ \A q \in Player : \A r \in Slot : o # None => data[q].grid[r] # o
      /\ o # None => object[o] # "ground"
  BY <1>1, Zenon DEF Overwritten
<1> HIDE DEF p
<1>3. /\ Places = [u \in Catalyst |-> Places[u]] /\ Places' = [u \in Catalyst |-> Places'[u]]
      /\ Located(data, object, Places) /\ Located(data', object', Places')
  BY Locations DEF Located
<1>4. o # None => Places[o] = Custody!Nowhere
  BY <1>2, <1>3 DEF Located
<1>5. ASSUME NEW u \in Catalyst
      PROVE  Places'[u] = IF u = o THEN Custody!In(p, s)
                          ELSE IF Places[u] = Custody!In(p, s) THEN Custody!Nowhere ELSE Places[u]
  <2>1. u # None
    BY Bounds
  <2>2. CASE u = o
    <3>1. data'[p].grid[s] = u
      BY <1>2, <2>2
    <3> QED BY <1>2, <1>3, <2>2, <3>1 DEF Located
  <2>3. CASE u # o /\ Places[u] = Custody!In(p, s)
    <3>1. data[p].grid[s] = u
      BY <1>2, <1>3, <2>3 DEF Located
    <3>2. \A q \in Player : \A r \in Slot : data[q].grid[r] = u => q = p /\ r = s
      BY <1>2, <2>1, <3>1 DEF IInv, CatalystsInv, HeldOnce
    <3>3. \A q \in Player : \A r \in Slot : data'[q].grid[r] # u
      BY <1>2, <2>3, <3>2
    <3>4. object'[u] # "ground"
      BY <1>2, <2>1, <3>1 DEF IInv, CatalystsInv, HeldIsLifted
    <3>5. Places'[u] = Custody!Nowhere
      BY <1>3, <3>3, <3>4 DEF Located
    <3> QED BY <2>3, <3>5
  <2>4. CASE u # o /\ Places[u] # Custody!In(p, s)
    <3>1. data[p].grid[s] # u
      BY <1>2, <1>3, <2>4 DEF Located
    <3>2. \A q \in Player : \A r \in Slot : data'[q].grid[r] = u <=> data[q].grid[r] = u
      BY <1>2, <2>4, <3>1
    <3>3. Places'[u] = Places[u]
      BY <1>2, <3>2, StaysThere
    <3> QED BY <2>4, <3>3
  <2> QED BY <2>2, <2>3, <2>4
<1>6. Places' = [u \in Catalyst |->
        IF u = o THEN Custody!In(p, s)
        ELSE IF Places[u] = Custody!In(p, s) THEN Custody!Nowhere ELSE Places[u]]
  BY <1>3, <1>5
<1>7. Custody!Overwrite(p, s, o)
  BY <1>4, <1>6, Zenon DEF Custody!Overwrite
<1> QED BY <1>2, <1>7

LEMMA DropPutsDown ==
  ASSUME IInv, IInv', NEW c \in Client, NEW s \in Slot, DropCatalyst(c, s)
  PROVE  \E t \in Catalyst : Custody!PutDown(t)
<1> DEFINE p == conn[c].player
           t == data[p].grid[s]
<1>1. /\ p \in Player /\ t \in Catalyst /\ object' = [object EXCEPT ![t] = "ground"]
      /\ \A q \in Player : \A r \in Slot :
           data'[q].grid[r] = IF q = p /\ r = s THEN None ELSE data[q].grid[r]
  BY DropEffect, Zenon
<1>2. \A u \in Catalyst : object'[u] = IF u = t THEN "ground" ELSE object[u]
  BY <1>1 DEF IInv, TypeOK
<1>3. data[p].grid[s] = t
  OBVIOUS
<1> HIDE DEF p, t
<1>4. \A u \in Catalyst \ {t} : Places'[u] = Places[u]
  <2>1. ASSUME NEW u \in Catalyst \ {t}
        PROVE  \A q \in Player : \A r \in Slot : data'[q].grid[r] = u <=> data[q].grid[r] = u
    BY <1>1, <1>3, Bounds
  <2> QED BY <1>2, <2>1, StaysThere
<1>5. /\ Places = [u \in Catalyst |-> Places[u]] /\ Places' = [u \in Catalyst |-> Places'[u]]
      /\ Places[t] = Custody!In(p, s) /\ Places'[t] = Custody!Ground
  BY <1>1, <1>2, <1>3, Locations DEF Located
<1>6. Places' = [Places EXCEPT ![t] = Custody!Ground]
  BY <1>4, <1>5
<1>7. Custody!Carried(t)
  BY <1>5, PlacesDiffer DEF Custody!Carried
<1> QED BY <1>1, <1>6, <1>7 DEF Custody!PutDown

LEMMA MoveTrades ==
  ASSUME IInv, IInv', NEW c \in Client, NEW s \in Slot, NEW r \in Slot, MoveCatalyst(c, s, r)
  PROVE  \E t \in Catalyst : Custody!Trade(t, r)
<1> DEFINE p == conn[c].player
           t == data[p].grid[s]
<1>1. /\ conn[c].player \in Player /\ data[conn[c].player].grid[s] \in Catalyst
      /\ object' = object
      /\ \A q \in Player : \A w \in Slot :
           data'[q].grid[w] =
             IF q = conn[c].player /\ w = s THEN data[conn[c].player].grid[r]
             ELSE IF q = conn[c].player /\ w = r THEN data[conn[c].player].grid[s]
             ELSE data[q].grid[w]
  <2> HIDE DEF p, t
  <2> QED BY MoveEffect
<1>2. data[p].grid[s] = t
  OBVIOUS
<1>3. s # r
  BY DEF MoveCatalyst
<1> /\ p \in Player /\ t \in Catalyst
    /\ \A q \in Player : \A w \in Slot :
         data'[q].grid[w] = IF q = p /\ w = s THEN data[p].grid[r]
                            ELSE IF q = p /\ w = r THEN data[p].grid[s]
                            ELSE data[q].grid[w]
  BY <1>1, Zenon
<1> HIDE DEF p, t
<1>4. /\ Places = [u \in Catalyst |-> Places[u]] /\ Places' = [u \in Catalyst |-> Places'[u]]
      /\ \A u \in Catalyst : \A q \in Player : \A w \in Slot :
           /\ Places[u] = Custody!In(q, w) <=> data[q].grid[w] = u
           /\ Places'[u] = Custody!In(q, w) <=> data'[q].grid[w] = u
  BY Locations DEF Located
<1>5. Places[t] = Custody!In(p, s) /\ Places'[t] = Custody!In(p, r)
  BY <1>1, <1>2, <1>3, <1>4
<1>6. ASSUME NEW u \in Catalyst \ {t}, Places[u] = Custody!In(p, r)
      PROVE  Places'[u] = Places[t]
  <2>1. data'[p].grid[s] = u
    BY <1>1, <1>4, <1>6
  <2> QED BY <1>1, <1>4, <1>5, <2>1
<1>7. ASSUME NEW u \in Catalyst \ {t}, Places[u] # Custody!In(p, r)
      PROVE  Places'[u] = Places[u]
  <2>1. data[p].grid[r] # u /\ data[p].grid[s] # u
    BY <1>1, <1>2, <1>4, <1>7
  <2>2. \A q \in Player : \A w \in Slot : data'[q].grid[w] = u <=> data[q].grid[w] = u
    BY <1>1, <2>1
  <2> QED BY <1>1, <2>2, StaysThere
<1>8. Custody!Carried(t) /\ Places[t].player = p
  BY <1>5, PlacesDiffer DEF Custody!Carried
<1>9. Places' = [u \in Catalyst |->
         IF u = t THEN Custody!In(p, r)
         ELSE IF Places[u] = Custody!In(p, r) THEN Places[t] ELSE Places[u]]
  BY <1>4, <1>5, <1>6, <1>7
<1> QED BY <1>1, <1>8, <1>9 DEF Custody!Trade

\* A client that is removed takes the players with it that only it referred to.
LEMMA RemoveVanishes ==
  ASSUME IInv, IInv', NEW c \in Client, RemoveClient(c)
  PROVE  \E P \in SUBSET Player : Custody!Vanish(P)
<1> DEFINE R == Referred(players, conn')
           P == Player \ R
<1>1. object' = object
      /\ \A q \in Player : \A s \in Slot :
           data'[q].grid[s] = IF q \in R THEN data[q].grid[s] ELSE None
  <2>1. data \in [Player -> PlayerData]
    BY DEF IInv, TypeOK
  <2>2. \A q \in Player : data'[q] = IF q \in R THEN data[q] ELSE NoPlayer
    BY <2>1, Collecting DEF RemoveClient
  <2> QED BY <2>2, Bounds DEF RemoveClient
<1> HIDE DEF R
<1>2. /\ Places = [t \in Catalyst |-> Places[t]] /\ Places' = [t \in Catalyst |-> Places'[t]]
      /\ Located(data, object, Places) /\ Located(data', object', Places')
  BY Locations DEF Located
<1>3. ASSUME NEW t \in Catalyst
      PROVE  Places'[t] = IF Places[t].at = "slot" /\ Places[t].player \in P
                          THEN Custody!Nowhere ELSE Places[t]
  <2>1. CASE \E q \in P : \E s \in Slot : data[q].grid[s] = t
    <3>1. PICK q \in P, s \in Slot : data[q].grid[s] = t
      BY <2>1
    <3>2. Places[t] = Custody!In(q, s)
      BY <1>2, <3>1 DEF Located
    <3>3. Places[t].at = "slot" /\ Places[t].player \in P
      BY <3>2, PlacesDiffer
    <3>4. object[t] # "ground"
      BY <3>1, Bounds DEF IInv, CatalystsInv, HeldIsLifted
    <3>5. \A w \in Player : \A r \in Slot : data'[w].grid[r] # t
      BY <1>1, <3>1, Bounds DEF IInv, CatalystsInv, HeldOnce
    <3>6. Places'[t] = Custody!Nowhere
      BY <1>1, <1>2, <3>4, <3>5 DEF Located
    <3> QED BY <3>3, <3>6
  <2>2. CASE \A q \in P : \A s \in Slot : data[q].grid[s] # t
    <3>1. \A q \in Player : \A s \in Slot : data'[q].grid[s] = t <=> data[q].grid[s] = t
      BY <1>1, <2>2, Bounds
    <3>2. Places'[t] = Places[t]
      BY <1>1, <3>1, StaysThere
    <3>3. ~ (Places[t].at = "slot" /\ Places[t].player \in P)
      <4>1. CASE \E q \in Player : \E s \in Slot : data[q].grid[s] = t
        <5>1. PICK q \in Player, s \in Slot : data[q].grid[s] = t
          BY <4>1
        <5>2. Places[t] = Custody!In(q, s) /\ q \notin P
          BY <1>2, <2>2, <5>1 DEF Located
        <5> QED BY <5>2, PlacesDiffer
      <4>2. CASE \A q \in Player : \A s \in Slot : data[q].grid[s] # t
        <5>1. Places[t] \in {Custody!Ground, Custody!Nowhere}
          BY <1>2, <4>2 DEF Located
        <5> QED BY <5>1, PlacesDiffer
      <4> QED BY <4>1, <4>2
    <3> QED BY <3>2, <3>3
  <2> QED BY <2>1, <2>2
<1>4. Places' = [t \in Catalyst |->
         IF Places[t].at = "slot" /\ Places[t].player \in P THEN Custody!Nowhere ELSE Places[t]]
  BY <1>2, <1>3
<1>5. Custody!Vanish(P)
  BY <1>4, Zenon DEF Custody!Vanish, Custody!Carried
<1> QED BY <1>5

\* Both hellos deal the catalysts ts to p, while the players of P vanish.
DealtTo(ts, p, P) ==
  /\ ts \in [Slot \ {LastSlot} -> Unused]
  /\ \A s, r \in Slot \ {LastSlot} : ts[s] = ts[r] => s = r
  /\ p \in Player /\ P \in SUBSET (Player \ {p})
  /\ object' = object
  /\ \A q \in Player : \A s \in Slot :
       data'[q].grid[s] = IF q = p /\ s # LastSlot THEN ts[s]
                          ELSE IF q \in P THEN None ELSE data[q].grid[s]

LEMMA Dealing ==
  ASSUME IInv, IInv', NEW ts, NEW p, NEW P, DealtTo(ts, p, P)
  PROVE  Custody!Next
<1> DEFINE D == Slot \ {LastSlot}
<1> /\ ts \in [Slot \ {LastSlot} -> Unused]
    /\ \A s, r \in Slot \ {LastSlot} : ts[s] = ts[r] => s = r
    /\ p \in Player /\ P \in SUBSET (Player \ {p})
    /\ object' = object
    /\ \A q \in Player : \A s \in Slot :
         data'[q].grid[s] = IF q = p /\ s # LastSlot THEN ts[s]
                            ELSE IF q \in P THEN None ELSE data[q].grid[s]
  BY DEF DealtTo
<1>1. /\ Places = [t \in Catalyst |-> Places[t]] /\ Places' = [t \in Catalyst |-> Places'[t]]
      /\ Located(data, object, Places) /\ Located(data', object', Places')
  BY Locations DEF Located
<1>2. ts \in [D -> Catalyst] /\ \A s \in D : ts[s] \in Unused
  BY DEF Unused
<1>3. \A t \in Unused : /\ t \in Catalyst /\ t \notin owned /\ object[t] # "ground"
                        /\ \A q \in Player : \A s \in Slot : data[q].grid[s] # t
  BY DEF Unused, IInv, CatalystsInv, OwnedIsPlaced, Held
<1>4. \A s \in D : Places[ts[s]] = Custody!Nowhere
  BY <1>1, <1>2, <1>3 DEF Located
<1> DEFINE Lost(t) == Places[t].at = "slot"
                        /\ (Places[t].player \in P \/ Places[t] \in {Custody!In(p, s) : s \in D})
<1>5. ASSUME NEW t \in Catalyst, NEW s \in D, ts[s] = t
      PROVE  Places'[t] = Custody!In(p, CHOOSE r \in D : ts[r] = t)
  <2>1. data'[p].grid[s] = t
    BY <1>5
  <2>2. Places'[t] = Custody!In(p, s)
    BY <1>1, <2>1 DEF Located
  <2>3. \A r \in D : ts[r] = t <=> r = s
    BY <1>5
  <2>4. (CHOOSE r \in D : ts[r] = t) = s
    BY <2>3
  <2> QED BY <2>2, <2>4
<1>6. ASSUME NEW t \in Catalyst, \A s \in D : ts[s] # t
      PROVE  Places'[t] = IF Lost(t) THEN Custody!Nowhere ELSE Places[t]
  <2> DEFINE Gone(q, s) == q \in P \/ (q = p /\ s \in D)
  <2>1. \A q \in Player : \A s \in Slot :
          data'[q].grid[s] = t <=> ~ Gone(q, s) /\ data[q].grid[s] = t
    BY <1>6, Bounds
  <2>2. ASSUME NEW q \in Player, NEW s \in Slot, data[q].grid[s] = t
        PROVE  Lost(t) <=> Gone(q, s)
    <3>1. Places[t] = Custody!In(q, s)
      BY <1>1, <2>2 DEF Located
    <3>2. Places[t].at = "slot" /\ Places[t].player = q
      BY <3>1, PlacesDiffer
    <3>3. Places[t] \in {Custody!In(p, r) : r \in D} <=> q = p /\ s \in D
      <4>1. ASSUME NEW r \in D, Custody!In(p, r) = Custody!In(q, s) PROVE q = p /\ s = r
        BY <4>1, PlacesDiffer
      <4> QED BY <3>1, <4>1
    <3> QED BY <3>2, <3>3
  <2> HIDE DEF Lost, Gone
  <2>3. CASE \E q \in Player : \E s \in Slot : Gone(q, s) /\ data[q].grid[s] = t
    <3>1. PICK q \in Player, s \in Slot : Gone(q, s) /\ data[q].grid[s] = t
      BY <2>3
    <3>2. object[t] # "ground"
      BY <3>1, Bounds DEF IInv, CatalystsInv, HeldIsLifted
    <3>3. \A w \in Player : \A r \in Slot : data[w].grid[r] = t => w = q /\ r = s
      BY <3>1, Bounds DEF IInv, CatalystsInv, HeldOnce
    <3>4. \A w \in Player : \A r \in Slot : data'[w].grid[r] # t
      BY <2>1, <3>1, <3>3
    <3>5. Places'[t] = Custody!Nowhere
      BY <1>1, <3>2, <3>4 DEF Located
    <3> QED BY <2>2, <3>1, <3>5
  <2>4. CASE \A q \in Player : \A s \in Slot : data[q].grid[s] = t => ~ Gone(q, s)
    <3>1. \A q \in Player : \A s \in Slot : data'[q].grid[s] = t <=> data[q].grid[s] = t
      BY <2>1, <2>4
    <3>2. Places'[t] = Places[t]
      BY <3>1, StaysThere
    <3>3. ~ Lost(t)
      <4>1. CASE \E q \in Player : \E s \in Slot : data[q].grid[s] = t
        BY <2>2, <2>4, <4>1
      <4>2. CASE \A q \in Player : \A s \in Slot : data[q].grid[s] # t
        <5>1. Places[t] \in {Custody!Ground, Custody!Nowhere}
          BY <1>1, <4>2 DEF Located
        <5> QED BY <5>1, PlacesDiffer DEF Lost
      <4> QED BY <4>1, <4>2
    <3> QED BY <3>2, <3>3
  <2> QED BY <2>3, <2>4
<1>7. Places' = [t \in Catalyst |->
         IF \E s \in D : ts[s] = t THEN Custody!In(p, CHOOSE s \in D : ts[s] = t)
         ELSE IF Lost(t) THEN Custody!Nowhere ELSE Places[t]]
  <2> HIDE DEF Lost
  <2> DEFINE f(t) == IF \E s \in D : ts[s] = t THEN Custody!In(p, CHOOSE s \in D : ts[s] = t)
                     ELSE IF Lost(t) THEN Custody!Nowhere ELSE Places[t]
  <2>1. ASSUME NEW t \in Catalyst PROVE Places'[t] = f(t)
    <3>1. CASE \E s \in D : ts[s] = t
      <4>1. PICK s \in D : ts[s] = t
        BY <3>1
      <4> QED BY <1>5, <3>1, <4>1
    <3>2. CASE \A s \in D : ts[s] # t
      BY <1>6, <3>2
    <3> QED BY <3>1, <3>2
  <2> HIDE DEF f
  <2>2. Places' = [t \in Catalyst |-> f(t)]
    BY <1>1, <2>1
  <2> QED BY <2>2 DEF f
<1>8. Custody!Dealt = D
  BY DEF Custody!Dealt, Custody!Slot, Slot
<1>9. Custody!Deal(ts, p, P)
  BY <1>7, <1>8, Zenon DEF Custody!Deal, Custody!Carried
<1> HIDE DEF D
<1>10. \A s, r \in D : ts[s] = ts[r] => s = r
  BY DEF D
<1> QED BY <1>2, <1>4, <1>8, <1>9, <1>10 DEF Custody!Next

LEMMA HelloDeals ==
  ASSUME IInv, IInv', NEW c \in Client, NEW u \in User, HelloPlayerRequest(c, u)
  PROVE  Custody!Next
<1> DEFINE R == Referred(players', conn')
           P == Player \ R
<1>1. PICK p, ts, e : HelloEffect(c, u, p, ts, e)
  BY HelloGives
<1>2. /\ p \in Given(u) /\ ts \in [Slot \ {LastSlot} -> Unused]
      /\ \A s, r \in Slot \ {LastSlot} : ts[s] = ts[r] => s = r
      /\ \A s \in Slot : e.grid[s] = IF s = LastSlot THEN None ELSE ts[s]
      /\ p \in R
      /\ \A q \in Player : data'[q] = IF q = p THEN e ELSE IF q \in R THEN data[q] ELSE NoPlayer
  BY <1>1, Zenon DEF HelloEffect
<1> HIDE DEF R
<1>3. object' = object
  BY DEF HelloPlayerRequest
<1>4. p \in Player /\ P \in SUBSET (Player \ {p})
  BY <1>2 DEF Given
<1>5. \A s \in Slot : data[p].grid[s] = None
  BY <1>2, Bounds DEF Given, IInv, UnreferredIsEmpty
<1>6. \A q \in Player : \A s \in Slot :
        data'[q].grid[s] = IF q = p /\ s # LastSlot THEN ts[s]
                           ELSE IF q \in P THEN None ELSE data[q].grid[s]
  BY <1>2, <1>4, <1>5, Bounds
<1> HIDE DEF P
<1>7. DealtTo(ts, p, P)
  BY <1>2, <1>3, <1>4, <1>6 DEF DealtTo
<1> QED BY <1>7, Dealing

LEMMA HelloUnknownDeals ==
  ASSUME IInv, IInv', NEW c \in Client, HelloUnknownUser(c)
  PROVE  Custody!Next
<1> DEFINE p == conn[c].player
           d == data[p]
<1>1. c \in clients /\ p # None /\ object' = object
  BY DEF HelloUnknownUser
<1>2. PICK ts \in [Slot \ {LastSlot} -> Unused] :
        /\ \A s, r \in DOMAIN ts : ts[s] = ts[r] => s = r
        /\ data' = [data EXCEPT ![p] = Equipped(d, ts)]
  BY DEF HelloUnknownUser
<1>3. p \in Player /\ d \in PlayerData /\ data \in [Player -> PlayerData]
  BY <1>1, PlayerOf DEF IInv, TypeOK
<1>4. ts \in [Slot \ {LastSlot} -> Catalyst] /\ DOMAIN ts = Slot \ {LastSlot}
  BY DEF Unused
<1> DEFINE e == Equipped(d, ts)
<1>5. data'[p] = e /\ \A q \in Player \ {p} : data'[q] = data[q]
  BY <1>2, <1>3
<1> HIDE DEF d
<1>6. \A s \in Slot : e.grid[s] = IF s = LastSlot THEN d.grid[s] ELSE ts[s]
  BY <1>3, <1>4, EquippedFields
<1> HIDE DEF p, e
<1>7. \A q \in Player : \A s \in Slot :
        data'[q].grid[s] = IF q = p /\ s # LastSlot THEN ts[s]
                           ELSE IF q \in {} THEN None ELSE data[q].grid[s]
  BY <1>5, <1>6 DEF d
<1>8. \A s, r \in Slot \ {LastSlot} : ts[s] = ts[r] => s = r
  BY <1>2, <1>4
<1>9. {} \in SUBSET (Player \ {p})
  OBVIOUS
<1>10. DealtTo(ts, p, {})
  BY <1>1, <1>3, <1>7, <1>8, <1>9 DEF DealtTo
<1> QED BY <1>10, Dealing

LEMMA InitPlaces == Init => Custody!Init
<1> SUFFICES ASSUME Init PROVE Custody!Init
  OBVIOUS
<1>1. ASSUME NEW t \in Catalyst PROVE Places[t] = Custody!Nowhere
  <2>1. object[t] # "ground" /\ \A p \in Player : \A s \in Slot : data[p].grid[s] # t
    BY Bounds DEF Init
  <2> QED BY <2>1 DEF Places, PlaceOf, Custody!Nowhere
<1>2. Places = [t \in Catalyst |-> Places[t]]
  BY DEF Places
<1> QED BY <1>1, <1>2 DEF Custody!Init

\* The other requests and Instance::Update leave every catalyst where it is.
LEMMA OthersStay ==
  ASSUME IInv, IInv',
         \/ \E c \in Client :
              \/ NewConnection(c) \/ PrepareGameStart(c) \/ SwapCharacter(c)
              \/ \E status \in {"start", "beam out", "loading"} : PlayerStatusUpdate(c, status)
         \/ Update \/ ResendTask \/ UNCHANGED vars
  PROVE  UNCHANGED Places
<1>1. data \in [Player -> PlayerData]
  BY DEF IInv, TypeOK
<1>2. ASSUME NEW c \in Client, NewConnection(c) PROVE UNCHANGED Places
  BY <1>2, AllStay DEF NewConnection
<1>3. ASSUME NEW c \in Client, PrepareGameStart(c) PROVE UNCHANGED Places
  <2> DEFINE p == conn[c].player
             d == [data[p] EXCEPT !.squad = TRUE]
             parts == {PlayerBits, CharacterBits}
             e == Touched(d, parts)
  <2>1. p \in Player
    BY <1>3, PlayerOf DEF PrepareGameStart
  <2>2. d \in PlayerData /\ d.grid = data[p].grid
    BY <1>1, <2>1 DEF PlayerData
  <2>3. data' = [data EXCEPT ![p] = e] /\ object' = object
    BY <1>3 DEF PrepareGameStart
  <2> HIDE DEF d
  <2>4. parts \in SUBSET Part
    BY Bounds
  <2> HIDE DEF parts
  <2>5. /\ Touched(d, parts) \in PlayerData
        /\ Touched(d, parts).index = d.index /\ Touched(d, parts).squad = d.squad
        /\ Touched(d, parts).grid = d.grid /\ Touched(d, parts).bits = d.bits \cup parts
    BY <2>2, <2>4, TouchedFields
  <2>6. e.grid = data[p].grid
    BY <2>2, <2>5
  <2> HIDE DEF e, p
  <2>7. \A q \in Player : data'[q].grid = data[q].grid
    BY <1>1, <2>3, <2>6
  <2> QED BY <2>3, <2>7, AllStay
<1>4. ASSUME NEW c \in clients, NEW parts, conn[c].player # None,
             SentTo(c, conn[c].player, parts), object' = object
      PROVE  UNCHANGED Places
  <2>1. \A q \in Player : data'[q].grid = data[q].grid
    BY <1>1, <1>4 DEF SentTo, PlayerData
  <2> QED BY <1>4, <2>1, AllStay
<1>5. ASSUME NEW c \in Client, SwapCharacter(c) PROVE UNCHANGED Places
  BY <1>4, <1>5 DEF SwapCharacter
<1>6. ASSUME NEW c \in Client, NEW status, PlayerStatusUpdate(c, status) PROVE UNCHANGED Places
  BY <1>4, <1>6 DEF PlayerStatusUpdate
<1>7. ASSUME ResendTask PROVE UNCHANGED Places
  <2>1. Min(clients) \in clients
    BY <1>7, Minimum, SessionAssumption DEF ResendTask, IInv, TypeOK
  <2> QED BY <1>4, <1>7, <2>1 DEF ResendTask
<1>8. ASSUME Update PROVE UNCHANGED Places
  <2>1. \A q \in Player : data'[q].grid = data[q].grid
    BY <1>1, <1>8 DEF Update, PlayerData
  <2>2. \A t \in Catalyst : object'[t] = "ground" <=> object[t] = "ground"
    BY <1>8 DEF Update
  <2> QED BY <2>1, <2>2, AllStay
<1>9. CASE UNCHANGED vars
  BY <1>9, AllStay DEF vars
<1> QED BY <1>2, <1>3, <1>5, <1>6, <1>7, <1>8, <1>9

LEMMA StepRefines == IInv /\ IInv' /\ [Next]_vars => [Custody!Next]_Places
<1> SUFFICES ASSUME IInv, IInv', [Next]_vars PROVE Custody!Next \/ UNCHANGED Places
  OBVIOUS
<1>1. ASSUME NEW c \in Client, NewConnection(c) \/ PrepareGameStart(c) \/ SwapCharacter(c)
      PROVE  UNCHANGED Places
  BY <1>1, OthersStay
<1>2. ASSUME NEW c \in Client, NEW status \in {"start", "beam out", "loading"},
             PlayerStatusUpdate(c, status)
      PROVE  UNCHANGED Places
  BY <1>2, OthersStay
<1>3. CASE Update \/ ResendTask \/ UNCHANGED vars
  BY <1>3, OthersStay
<1>4. ASSUME NEW c \in Client, RemoveClient(c) PROVE Custody!Next
  <2>1. PICK P \in SUBSET Player : Custody!Vanish(P)
    BY <1>4, RemoveVanishes
  <2> DEFINE Q == P \cap Custody!Carriers
  <2>2. \A t \in Catalyst : Custody!Carried(t) => Places[t].player \in Custody!Carriers
    BY DEF Custody!Carriers
  <2>3. Custody!Vanish(Q) /\ Q \in SUBSET Custody!Carriers
    BY <2>1, <2>2 DEF Custody!Vanish
  <2> QED BY <2>3 DEF Custody!Next
<1>5. ASSUME NEW c \in Client, HelloUnknownUser(c) PROVE Custody!Next
  BY <1>5, HelloUnknownDeals
<1>6. ASSUME NEW c \in Client, NEW u \in User, HelloPlayerRequest(c, u) PROVE Custody!Next
  BY <1>6, HelloDeals
<1>7. ASSUME NEW c \in Client, NEW s \in Slot, DropCatalyst(c, s) PROVE Custody!Next
  BY <1>7, DropPutsDown DEF Custody!Next
<1>8. ASSUME NEW c \in Client, NEW s \in Slot, NEW r \in Slot, MoveCatalyst(c, s, r)
      PROVE  Custody!Next
  BY <1>8, MoveTrades DEF Custody!Next, Custody!Slot, Slot
<1>9. ASSUME NEW c \in Client, NEW t \in Catalyst, PickupCatalyst(c, t) PROVE Custody!Next
  BY <1>9, PickupPicksUp DEF Custody!Next
<1>10. ASSUME NEW t \in Catalyst, NewCatalyst(t) PROVE Custody!Next
  BY <1>10, NewCatalystLays DEF Custody!Next
<1>11. ASSUME NEW c \in Client, NEW s \in Slot, NEW o \in Catalyst \cup {None},
              DragOffGrid(c, s, o)
       PROVE  Custody!Next
  <2>1. PICK p \in Player : Custody!Overwrite(p, s, o)
    BY <1>11, DragOverwrites
  <2>2. s \in Custody!Slot
    BY DEF Custody!Slot, Slot
  <2> QED BY <2>1, <2>2 DEF Custody!Next
<1> QED BY <1>1, <1>2, <1>3, <1>4, <1>5, <1>6, <1>7, <1>8, <1>9, <1>10, <1>11 DEF Next

\* With all its connections, hellos, drags and pickups the server is one of
\* CatalystCustody: player.cpp, catalyst.cpp and server.cpp move no catalyst but in
\* its ways, an overwritten slot among them, and only what the request is about.
THEOREM SessionImplementsCustody == Spec => ImplementsCustody
BY InitPlaces, StepRefines, Inductive, PTL DEF Spec, ImplementsCustody, Custody!Spec
=============================================================================

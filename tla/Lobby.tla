------------------------------- MODULE Lobby -------------------------------
(***************************************************************************)
(* The Blaze server: connections (blaze/client.cpp), the components their  *)
(* requests are dispatched to (blaze/component/), the rooms                *)
(* (sporenet/room.cpp) and the games (game/gamemanager.cpp) they join.     *)
(*                                                                         *)
(* Everything but Hello runs on the io_context thread, one read of a       *)
(* connection at a time: it clears the list of buffers, handles every      *)
(* request that came with it, each appending replies and notifications,    *)
(* writes them in that order and reads again.                              *)
(* A request is [cmd, id, ...]; what it carries is kept where a handler    *)
(* decides by it.  A message is kept by its kind and by whom or what it is *)
(* about.  Accounts has the accounts behind the users; here a user object  *)
(* has the room and the game it is in.  The members a room lists are       *)
(* written to clients and decide nothing: they are left out.               *)
(***************************************************************************)
EXTENDS Integers, Sequences, FiniteSets, SequencesExt

CONSTANTS
    Conns,          \* Blaze connections
    Ids,            \* ids of accounts
    MsgIds,         \* ids a client gives its requests
    Lobbies,        \* rooms and categories there are from the start (4)
    MaxUsers,       \* bound: user objects alive at one time
    MaxMade,        \* bound: rooms, categories and games made, together
    MaxBatch        \* bound: requests of one read

ASSUME LobbyAssumption ==
    /\ MaxUsers \in Nat /\ MaxMade \in Nat /\ MaxBatch \in Nat
    /\ Lobbies \in Nat \ {0}
    /\ 0 \notin Conns

VARIABLES
    accepting,      \* an async_accept is outstanding
    conn,           \* conn[c]: Down, or the user the connection logged in
    registered,     \* registered[i]: the object of account i, or None
    user,           \* user[o]: [id, room, game], or Free
    room,           \* rooms by id: the category, or None
    category,       \* categories by id: the view, or None
    views,          \* number of views
    game,           \* games by id: [running, players]
    out,            \* out[c]: mWriteBuffers
    reading,        \* the connection whose read is handled, or None
    asked           \* the requests of it that were handled, in order

state == <<accepting, conn, registered, user, room, category, views, game>>
vars == <<accepting, conn, registered, user, room, category, views, game,
          out, reading, asked>>

None == 0
Down == -1
Users == 1..MaxUsers
Free == [id |-> None]
Live(o) == user[o] # Free
Who(c) == conn[c]
HasUser(c) == conn[c] > 0
Id(c) == user[conn[c]].id

-----------------------------------------------------------------------------
(* Messages *)

Reply(r) == <<[type |-> "reply", cmd |-> r.cmd, id |-> r.id, about |-> None]>>
Error(r, e) == <<[type |-> "error", cmd |-> r.cmd, id |-> r.id, about |-> e]>>
Note(name, about) == <<[type |-> "notification", cmd |-> name, id |-> 0, about |-> about]>>
Silent == <<>>
IfUser(c, msgs) == IF HasUser(c) THEN msgs ELSE Silent

\* UserSessionComponent
NotifyUserSessionExtendedDataUpdate(i) == Note("UserSessionExtendedDataUpdate", i)
NotifyUserAdded(i) == Note("UserAdded", i)
NotifyUserUpdated(i) == Note("UserUpdated", i)

\* GameManagerComponent
NotifyMatchmakingFailed(c) == IfUser(c, Note("NotifyMatchmakingFailed", Id(c)))
NotifyGameCreated(g) == Note("NotifyGameCreated", g)
NotifyGameRemoved(g) == Note("NotifyGameRemoved", g)
NotifyGameSetup(c, g) == IfUser(c, Note("NotifyGameSetup", g))
NotifyPlayerJoining(g) == Note("NotifyPlayerJoining", g)
NotifyPlayerJoinCompleted(g, i) == Note("NotifyPlayerJoinCompleted", <<g, i>>)
NotifyPlayerRemoved(g, i) == Note("NotifyPlayerRemoved", <<g, i>>)
NotifyGameStateChange(g) == Note("NotifyGameStateChange", g)
NotifyGamePlayerStateChange(g, i) == Note("NotifyGamePlayerStateChange", <<g, i>>)

\* RoomsComponent: a view, category or room that does not exist is not told of.
Exists(n, map) == n \in 1..Len(map)
NotifyRoomViewAdded(v) == IF v \in 1..views THEN Note("NotifyRoomViewAdded", v) ELSE Silent
NotifyRoomViewUpdated(v) == IF v \in 1..views THEN Note("NotifyRoomViewUpdated", v) ELSE Silent
NotifyRoomCategoryAdded(k) ==
    IF Exists(k, category) THEN Note("NotifyRoomCategoryAdded", k) ELSE Silent
NotifyRoomCategoryUpdated(k) ==
    IF Exists(k, category) THEN Note("NotifyRoomCategoryUpdated", k) ELSE Silent
NotifyRoomAdded(n) == Note("NotifyRoomAdded", n)
NotifyRoomUpdated(n) == Note("NotifyRoomUpdated", n)
NotifyRoomMemberJoined(n, i) == Note("NotifyRoomMemberJoined", <<n, i>>)

NotifyUpdateListMembership == Note("NotifyUpdateListMembership", None)

\* MessagingComponent: who a message comes from is looked up by its target; a
\* message that would have no name is not passed on.  (r.first: one of the
\* players of the game has the index 0.)
NotifyMessage(r) ==
    LET named == \/ r.target = "game" /\ Exists(r.to, game) /\ r.first
                    /\ \E i \in Ids : game[r.to].players[i] # None
                 \/ r.target = "user" /\ r.to \in Ids /\ registered[r.to] # None
    IN IF named THEN Note("NotifyMessage", r.to) ELSE Silent
-----------------------------------------------------------------------------
(* Handlers that change no state here, one operator each: their messages.  *)

AcceptTOS(c, r) == Reply(r)
GetTOSInfo(c, r) == Reply(r)
GetTermsAndConditions(c, r) == Reply(r)
GetPrivacyPolicy(c, r) == Reply(r)
GetAuthToken(c, r) == IfUser(c, Reply(r) \o NotifyUserUpdated(Id(c)))
LoginPersona(c, r) ==
    IfUser(c, Reply(r) \o NotifyUserAdded(Id(c)) \o NotifyUserUpdated(Id(c)))

LookupUser(c, r) == IfUser(c, Reply(r))
UpdateNetworkInfo(c, r) ==
    IfUser(c, Reply(r) \o NotifyUserSessionExtendedDataUpdate(Id(c)))
UpdateUserSessionClientData(c, r) == Reply(r)

OnSendMessageResponse(c, r) == Reply(r) \o NotifyMessage(r)
OnOtherMessages(c, r) == Silent          \* fetch, purge, touch and get

FetchClientConfig(c, r) == Silent
Ping(c, r) == Reply(r)
GetTelemetryServer(c, r) == Reply(r)
PreAuth(c, r) == Reply(r)
PostAuth(c, r) == Reply(r)
UserSettingsSave(c, r) == Silent
UserSettingsLoadAll(c, r) == Silent
SetClientMetrics(c, r) == Reply(r)

GetServerInstance(c, r) == Reply(r)

AddUsersToList(c, r) == Reply(r) \o NotifyUpdateListMembership
RemoveUsersFromList(c, r) == Reply(r) \o NotifyUpdateListMembership
GetLists(c, r) == IfUser(c, Reply(r))

OnPlaygroup(c, r) == Silent              \* all eleven commands

SelectViewUpdates(c, r) ==
    IfUser(c, Reply(r) \o IF r.update THEN NotifyRoomViewAdded(1) \o NotifyRoomViewUpdated(1)
                          ELSE Silent)
SelectCategoryUpdates(c, r) ==
    (IF r.to = 0 THEN Silent
     ELSE FlattenSeq([k \in 1..Lobbies |->
              NotifyRoomCategoryAdded(k) \o NotifyRoomCategoryUpdated(k)]))
    \o Reply(r)
SelectPseudoRoomUpdates(c, r) == Reply(r)

CreateGame(c, r) == Reply(r) \o NotifyGameStateChange(1)
DestroyGame(c, r) == Reply(r) \o NotifyGameRemoved(r.to)
SetPlayerAttributes(c, r) == Reply(r)
StartMatchmaking(c, r) == Reply(r)
CancelMatchmaking(c, r) == Reply(r) \o NotifyMatchmakingFailed(c)
\* A player that is connecting is told it is connected: the user of the
\* connection, or whom a dedicated server names.
UpdateMeshConnection(c, r) ==
    LET who == IF r.client = "gameplay" THEN Id(c) ELSE r.player
        told == r.client = "dedicated" \/ (r.client = "gameplay" /\ HasUser(c))
    IN Reply(r) \o
       CASE r.state = "connecting" /\ told ->
                NotifyGamePlayerStateChange(r.to, who) \o NotifyPlayerJoinCompleted(r.to, who)
         [] r.state = "reserved" /\ r.client \in {"gameplay", "dedicated"} ->
                NotifyPlayerRemoved(r.to, r.player)
         [] OTHER -> Silent

\* The tables of the components.  A command or a component that is not in a
\* table gets no answer.
AuthComponent(c, r) ==
    CASE r.cmd = "AcceptTOS" -> AcceptTOS(c, r)
      [] r.cmd = "GetTOSInfo" -> GetTOSInfo(c, r)
      [] r.cmd = "GetTermsAndConditions" -> GetTermsAndConditions(c, r)
      [] r.cmd = "GetPrivacyPolicy" -> GetPrivacyPolicy(c, r)
      [] r.cmd = "GetAuthToken" -> GetAuthToken(c, r)
      [] r.cmd = "LoginPersona" -> LoginPersona(c, r)
      [] OTHER -> Silent
UserSessionComponent(c, r) ==
    CASE r.cmd = "LookupUser" -> LookupUser(c, r)
      [] r.cmd = "UpdateNetworkInfo" -> UpdateNetworkInfo(c, r)
      [] r.cmd = "UpdateUserSessionClientData" -> UpdateUserSessionClientData(c, r)
      [] OTHER -> Silent
MessagingComponent(c, r) ==
    IF r.cmd = "SendMessage" THEN OnSendMessageResponse(c, r) ELSE OnOtherMessages(c, r)
UtilComponent(c, r) ==
    CASE r.cmd = "FetchClientConfig" -> FetchClientConfig(c, r)
      [] r.cmd = "Ping" -> Ping(c, r)
      [] r.cmd = "GetTelemetryServer" -> GetTelemetryServer(c, r)
      [] r.cmd = "PreAuth" -> PreAuth(c, r)
      [] r.cmd = "PostAuth" -> PostAuth(c, r)
      [] r.cmd = "UserSettingsSave" -> UserSettingsSave(c, r)
      [] r.cmd = "UserSettingsLoadAll" -> UserSettingsLoadAll(c, r)
      [] r.cmd = "SetClientMetrics" -> SetClientMetrics(c, r)
      [] OTHER -> Silent
AssociationComponent(c, r) ==
    CASE r.cmd = "AddUsersToList" -> AddUsersToList(c, r)
      [] r.cmd = "RemoveUsersFromList" -> RemoveUsersFromList(c, r)
      [] r.cmd = "GetLists" -> GetLists(c, r)
      [] OTHER -> Silent
RoomsComponent(c, r) ==
    CASE r.cmd = "SelectViewUpdates" -> SelectViewUpdates(c, r)
      [] r.cmd = "SelectCategoryUpdates" -> SelectCategoryUpdates(c, r)
      [] r.cmd = "SelectPseudoRoomUpdates" -> SelectPseudoRoomUpdates(c, r)
      [] OTHER -> Silent
GameManagerComponent(c, r) ==
    CASE r.cmd = "CreateGame" -> CreateGame(c, r)
      [] r.cmd = "DestroyGame" -> DestroyGame(c, r)
      [] r.cmd = "SetPlayerAttributes" -> SetPlayerAttributes(c, r)
      [] r.cmd = "StartMatchmaking" -> StartMatchmaking(c, r)
      [] r.cmd = "CancelMatchmaking" -> CancelMatchmaking(c, r)
      [] r.cmd = "UpdateMeshConnection" -> UpdateMeshConnection(c, r)
      [] OTHER -> Silent
RedirectorComponent(c, r) == IF r.cmd = "GetServerInstance" THEN GetServerInstance(c, r) ELSE Silent
PlaygroupsComponent(c, r) == OnPlaygroup(c, r)
Component(c, r) ==
    CASE r.component = "Auth" -> AuthComponent(c, r)
      [] r.component = "UserSession" -> UserSessionComponent(c, r)
      [] r.component = "Messaging" -> MessagingComponent(c, r)
      [] r.component = "Util" -> UtilComponent(c, r)
      [] r.component = "Association" -> AssociationComponent(c, r)
      [] r.component = "Rooms" -> RoomsComponent(c, r)
      [] r.component = "GameManager" -> GameManagerComponent(c, r)
      [] r.component = "Redirector" -> RedirectorComponent(c, r)
      [] r.component = "Playgroups" -> PlaygroupsComponent(c, r)
      [] OTHER -> Silent

-----------------------------------------------------------------------------
(* A read: the buffers of the one before are cleared, and the messages of  *)
(* each of its requests appended.                                          *)

Kept(c) == out[c]                  \* Mutant: mWriteBuffers is not cleared
Cleared(c) == Silent
Before(c) == IF reading = c THEN out[c] ELSE Cleared(c)
Earlier(c) == IF reading = c THEN asked ELSE <<>>
Reads(c) ==
    /\ conn[c] # Down
    /\ reading = None \/ (reading = c /\ Len(asked) < MaxBatch)
Send(c, r, msgs) ==
    /\ out' = [out EXCEPT ![c] = Before(c) \o msgs]
    /\ asked' = Append(Earlier(c), [cmd |-> r.cmd, id |-> r.id])
    /\ reading' = c

\* No packet is left: the buffers are written, and the connection reads again.
Written(c) ==
    /\ reading = c
    /\ reading' = None /\ asked' = <<>>
    /\ UNCHANGED <<out, state>>

\* What holds a user object: the map of names, a connection, a player of a
\* game.  The members of a room (weak pointers) do not.
Held(o, reg, con, g) ==
    \/ \E i \in Ids : reg[i] = o
    \/ \E c \in Conns : con[c] = o
    \/ \E n \in 1..Len(g) : \E i \in Ids : g[n].players[i] = o
Settle(u, reg, con, g) ==
    LET gone == {o \in Users : Live(o) /\ ~Held(o, reg, con, g)}
    IN /\ registered' = reg /\ conn' = con /\ game' = g
       /\ user' = [o \in Users |-> IF o \in gone THEN Free ELSE u[o]]

\* Login makes an object for an account that is not registered.
Login(c, r) ==
    LET fresh == {o \in Users : ~Live(o)}
        o == CHOOSE x \in fresh : \A y \in fresh : x <= y
    IN \/ /\ registered[r.to] # None
          /\ Send(c, r, Error(r, "AUTH_ERR_INVALID_USER"))
          /\ UNCHANGED state
       \/ /\ registered[r.to] = None /\ fresh # {}
          /\ Settle([user EXCEPT ![o] = [id |-> r.to, room |-> None, game |-> None]],
                    [registered EXCEPT ![r.to] = o], [conn EXCEPT ![c] = o], game)
          /\ Send(c, r, Reply(r))
          /\ UNCHANGED <<accepting, room, category, views>>

\* SilentLogin and ExpressLogin take the object that is registered.
TakeOver(c, r) ==
    IF registered[r.to] = None
    THEN Send(c, r, Error(r, "AUTH_ERR_INVALID_USER")) /\ UNCHANGED state
    ELSE /\ Settle(user, registered, [conn EXCEPT ![c] = registered[r.to]], game)
         /\ Send(c, r, Reply(r))
         /\ UNCHANGED <<accepting, room, category, views>>

\* The connection keeps its object and gets no answer.
Logout(c, r) ==
    /\ Send(c, r, Silent)
    /\ IF HasUser(c) THEN Settle(user, [registered EXCEPT ![Id(c)] = None], conn, game)
                            /\ UNCHANGED <<accepting, room, category, views>>
       ELSE UNCHANGED state

-----------------------------------------------------------------------------
(* Rooms *)

\* Bounded: what is made is never removed.
Made(rooms, cats, games) == (Len(rooms) - Lobbies) + (Len(cats) - Lobbies) + Len(games)

\* A category without a view gets a new one.
NoView(k, cats) == cats[k]                     \* Mutant: none is made
View(k, cats) == IF cats[k] = None THEN views + 1 ELSE cats[k]

JoinRoom(c, r) ==
    LET o == Who(c)
        newRoom == r.to = 0
        rooms == IF newRoom THEN Append(room, None) ELSE room
        n == IF newRoom THEN Len(rooms) ELSE r.to
        cats == IF r.category = 0 THEN Append(category, None) ELSE category
        k == IF r.category = 0 THEN Len(cats) ELSE r.category
        v == View(k, cats)
    IN \/ /\ ~HasUser(c)
          /\ Send(c, r, Silent) /\ UNCHANGED state
       \/ /\ HasUser(c) /\ ~Exists(n, rooms)
          /\ Send(c, r, Error(r, "ROOMS_ERR_NOT_FOUND")) /\ UNCHANGED state
       \/ /\ HasUser(c) /\ Exists(n, rooms) /\ ~Exists(k, cats)
          /\ Made(rooms, category, game) <= MaxMade
          /\ room' = rooms                      \* a new room stays, without a category
          /\ Send(c, r, Error(r, "ROOMS_ERR_CREATE_UNKNOWN_CATEGORY"))
          /\ UNCHANGED <<accepting, conn, registered, user, category, views, game>>
       \/ /\ HasUser(c) /\ Exists(n, rooms) /\ Exists(k, cats)
          /\ Made(rooms, cats, game) <= MaxMade
          /\ room' = [rooms EXCEPT ![n] = k]
          /\ category' = [cats EXCEPT ![k] = v]
          /\ views' = IF v > views THEN v ELSE views
          /\ user' = [user EXCEPT ![o].room = n]
          /\ Send(c, r, (IF newRoom THEN NotifyRoomAdded(n) \o NotifyRoomUpdated(n) ELSE Silent)
                        \o Reply(r) \o NotifyRoomMemberJoined(n, Id(c)))
          /\ UNCHANGED <<accepting, conn, registered, game>>

-----------------------------------------------------------------------------
(* Games *)

InGame(o, g) == [user EXCEPT ![o].game = g]

JoinGame(c, r) ==
    IF HasUser(c) /\ Exists(r.to, game)
    THEN /\ user' = InGame(Who(c), r.to)
         /\ Send(c, r, Reply(r) \o NotifyPlayerJoining(r.to))
         /\ UNCHANGED <<accepting, conn, registered, room, category, views, game>>
    ELSE Send(c, r, Silent) /\ UNCHANGED state

\* The player leaves the game that is named, the registered user of that
\* account whatever game it is in.
LeftNot(i) == user                             \* Mutant: the user is not told
Left(i) == IF registered[i] = None THEN user ELSE InGame(registered[i], None)
RemovePlayer(c, r) ==
    LET g == IF Exists(r.to, game) THEN [game EXCEPT ![r.to].players[r.player] = None] ELSE game
    IN /\ Settle(Left(r.player), registered, conn, g)
       /\ Send(c, r, Reply(r) \o NotifyPlayerRemoved(r.to, r.player))
       /\ UNCHANGED <<accepting, room, category, views>>

\* Starts the game of the user, or starts it again under its players.
Started(g) == [game EXCEPT ![g].running = TRUE]
FinalizeGameCreation(c, r) ==
    LET g == user[Who(c)].game
    IN \/ /\ ~HasUser(c)
          /\ Send(c, r, Silent) /\ UNCHANGED state
       \/ /\ HasUser(c) /\ g = None
          /\ Send(c, r, Reply(r)) /\ UNCHANGED state
       \/ /\ HasUser(c) /\ g # None
          /\ game' = Started(g)
          /\ Send(c, r, Reply(r) \o NotifyGameStateChange(g)
                        \o NotifyGamePlayerStateChange(g, Id(c)) \o NotifyPlayerJoinCompleted(g, Id(c)))
          /\ UNCHANGED <<accepting, conn, registered, user, room, category, views>>

\* Every call makes a new game; none is ever removed.
ResetDedicatedServer(c, r) ==
    LET g == Len(game) + 1
    IN IF ~HasUser(c) THEN Send(c, r, Silent) /\ UNCHANGED state
       ELSE /\ Made(room, category, game) < MaxMade
            /\ game' = Append(game, [running |-> FALSE, players |-> [i \in Ids |-> None]])
            /\ user' = InGame(Who(c), g)
            /\ Send(c, r, Reply(r) \o NotifyGameCreated(g) \o NotifyGameSetup(c, g)
                          \o NotifyPlayerJoining(g))
            /\ UNCHANGED <<accepting, conn, registered, room, category, views>>

\* The RakNet thread of a game: a registered user says hello.
Hello(g, i) ==
    /\ game[g].running /\ registered[i] # None
    /\ game' = [game EXCEPT ![g].players[i] = IF @ = None THEN registered[i] ELSE @]
    /\ UNCHANGED <<accepting, conn, registered, user, room, category, views, out, reading, asked>>

-----------------------------------------------------------------------------
(* Connections *)

Accept(c) ==
    /\ accepting /\ conn[c] = Down /\ reading = None
    /\ conn' = [conn EXCEPT ![c] = None]
    /\ out' = [out EXCEPT ![c] = Silent]
    /\ UNCHANGED <<accepting, registered, user, room, category, views, game, reading, asked>>

\* No further accept is started after one failed.
AcceptFails ==
    /\ accepting /\ reading = None
    /\ accepting' = FALSE
    /\ UNCHANGED <<conn, registered, user, room, category, views, game, out, reading, asked>>

\* A read, a write of the buffers or the handshake failed: the client is deleted.
Disconnect(c) ==
    /\ conn[c] # Down /\ reading \in {None, c}
    /\ Settle(user, registered, [conn EXCEPT ![c] = Down], game)
    /\ reading' = None /\ asked' = <<>>
    /\ UNCHANGED <<accepting, room, category, views, out>>

-----------------------------------------------------------------------------
(* Requests: of every command there is, and of one there is not, with what *)
(* the handlers decide by.                                                 *)

Blank(component, cmd, id) ==
    [component |-> component, cmd |-> cmd, id |-> id, to |-> 0, category |-> 0, player |-> 0,
     state |-> "none", client |-> "none", update |-> FALSE, target |-> "none", first |-> FALSE]

Stateless ==
    {"Auth"} \X {"AcceptTOS", "GetTOSInfo", "GetTermsAndConditions", "GetPrivacyPolicy",
                 "GetAuthToken", "LoginPersona", "Unknown"}
    \cup {"UserSession"} \X {"LookupUser", "UpdateNetworkInfo", "UpdateUserSessionClientData",
                             "Unknown"}
    \cup {"Messaging"} \X {"SendMessage", "FetchMessages"}
    \cup {"Util"} \X {"FetchClientConfig", "Ping", "GetTelemetryServer", "PreAuth", "PostAuth",
                      "UserSettingsSave", "UserSettingsLoadAll", "SetClientMetrics", "Unknown"}
    \cup {"Association"} \X {"AddUsersToList", "RemoveUsersFromList", "GetLists", "Unknown"}
    \cup {"Rooms"} \X {"SelectViewUpdates", "SelectCategoryUpdates", "SelectPseudoRoomUpdates",
                       "Unknown"}
    \cup {"GameManager"} \X {"CreateGame", "DestroyGame", "SetPlayerAttributes",
                             "StartMatchmaking", "CancelMatchmaking", "Unknown"}
    \cup {"Redirector"} \X {"GetServerInstance", "Unknown"}
    \cup {"Playgroups"} \X {"CreatePlaygroup"}
    \cup {"Unknown"} \X {"Unknown"}

Plain(id) == {Blank(q[1], q[2], id) : q \in Stateless}
Selects(id) ==
    {[Blank("Rooms", "SelectViewUpdates", id) EXCEPT !.update = TRUE],
     [Blank("Rooms", "SelectCategoryUpdates", id) EXCEPT !.to = 1]}
ToUsers(id) ==
    {[Blank("Messaging", "SendMessage", id) EXCEPT !.target = "user", !.to = i] : i \in Ids}
ToGames(id) ==
    {[Blank("Messaging", "SendMessage", id) EXCEPT !.target = "game", !.to = 1, !.first = f] :
         f \in BOOLEAN}
Mesh(id, i, s, w) ==
    [Blank("GameManager", "UpdateMeshConnection", id)
         EXCEPT !.to = 1, !.player = i, !.state = s, !.client = w]
Meshes(id) ==
    {Mesh(id, i, s, w) : i \in Ids, s \in {"connecting", "reserved", "connected"},
                         w \in {"gameplay", "dedicated", "other"}}
Asks == [id \in MsgIds |->
    Plain(id) \cup Selects(id) \cup ToUsers(id) \cup ToGames(id) \cup Meshes(id)]

Ask(c, r) == Send(c, r, Component(c, r)) /\ UNCHANGED state

Init ==
    /\ accepting = TRUE
    /\ conn = [c \in Conns |-> Down]
    /\ registered = [i \in Ids |-> None]
    /\ user = [o \in Users |-> Free]
    /\ room = [n \in 1..Lobbies |-> n]
    /\ category = [k \in 1..Lobbies |-> 1]
    /\ views = 1
    /\ game = <<>>
    /\ out = [c \in Conns |-> Silent]
    /\ reading = None
    /\ asked = <<>>

Request(c, id) ==
    \/ \E r \in Asks[id] : Ask(c, r)
    \/ \E i \in Ids :
          \/ Login(c, [Blank("Auth", "Login", id) EXCEPT !.to = i])
          \/ \E cmd \in {"SilentLogin", "ExpressLogin"} :
                 TakeOver(c, [Blank("Auth", cmd, id) EXCEPT !.to = i])
    \/ Logout(c, Blank("Auth", "Logout", id))
    \/ \E n \in 0..Lobbies + MaxMade, k \in 0..Lobbies + MaxMade :
          JoinRoom(c, [Blank("Rooms", "JoinRoom", id) EXCEPT !.to = n, !.category = k])
    \/ \E g \in 1..MaxMade : JoinGame(c, [Blank("GameManager", "JoinGame", id) EXCEPT !.to = g])
    \/ \E g \in 1..MaxMade, i \in Ids :
          RemovePlayer(c, [Blank("GameManager", "RemovePlayer", id) EXCEPT !.to = g, !.player = i])
    \/ FinalizeGameCreation(c, Blank("GameManager", "FinalizeGameCreation", id))
    \/ ResetDedicatedServer(c, Blank("GameManager", "ResetDedicatedServer", id))

Next ==
    \/ \E c \in Conns : \/ Accept(c)
                        \/ Disconnect(c)
                        \/ Reads(c) /\ \E id \in MsgIds : Request(c, id)
                        \/ Written(c)
    \/ AcceptFails
    \/ \E g \in 1..Len(game), i \in Ids : Hello(g, i)

Spec == Init /\ [][Next]_vars

-----------------------------------------------------------------------------
(* What is promised *)

UserObject == [id : Ids, room : Nat, game : Nat]
Game == [running : BOOLEAN, players : [Ids -> {None} \cup Users]]

Commands ==
    {q[2] : q \in Stateless}
    \cup {"UpdateMeshConnection", "Login", "SilentLogin", "ExpressLogin", "Logout", "JoinRoom",
          "JoinGame", "RemovePlayer", "FinalizeGameCreation", "ResetDedicatedServer"}

TypeOK ==
    /\ accepting \in BOOLEAN
    /\ conn \in [Conns -> {Down, None} \cup Users]
    /\ registered \in [Ids -> {None} \cup Users]
    /\ user \in [Users -> {Free} \cup UserObject]
    /\ room \in Seq(Nat) /\ category \in Seq(Nat) /\ views \in Nat
    /\ game \in Seq(Game)
    /\ reading \in Conns \cup {None}
    /\ asked \in Seq([cmd : Commands, id : MsgIds])

\* The answers among the messages s are answers to the requests q: in the order
\* of the requests, one to each at most, with its command and id.
AnswersTo(s, q) ==
    LET answers == {n \in DOMAIN s : s[n].type # "notification"}
    IN \E of \in [answers -> DOMAIN q] :
           /\ \A n \in answers : s[n].cmd = q[of[n]].cmd /\ s[n].id = q[of[n]].id
           /\ \A n, m \in answers : n < m => of[n] < of[m]

\* What is written to a client after a read answers the requests of that read, in
\* their order, each once at most, however many there are and whatever earlier
\* reads left behind (mWriteBuffers lives in the client across reads).  A request
\* may have no answer: many handlers return without one.
InOrder == reading # None => AnswersTo(out[reading], asked)
Answered == [][InOrder']_vars

\* The room of every user has a category that exists, and that category a view:
\* what WriteJoinRoom follows without a test, whatever rooms and categories
\* were joined, made or half made before.
RoomsArePlaced ==
    \A o \in Users : Live(o) /\ user[o].room # None =>
        LET k == room[user[o].room]
        IN k \in 1..Len(category) /\ category[k] \in 1..views

\* What the handler of this step has told: what it has added to the buffers.
Told == {out'[reading'][n] : n \in Len(Before(reading')) + 1..Len(out'[reading'])}
About(kind) == {m \in Told : m.cmd = kind /\ m.type = "notification"}
Handling(cmds) == reading' # None /\ asked' # asked /\ asked'[Len(asked')].cmd \in cmds

\* What a handler that changes who is in what tells of it is so when it returns:
\* the game JoinGame or ResetDedicatedServer says is joined is the one the user of
\* the connection is in, and so the room of JoinRoom; the game FinalizeGameCreation
\* says is in play runs; and the player RemovePlayer says is removed is not in that
\* game, nor does the registered user of that account think it is in any.
\* Handlers that change nothing are not covered: CreateGame, DestroyGame and
\* UpdateMeshConnection tell of games and players they do not look up.
ChangesToldTruly ==
    /\ Handling({"JoinGame", "ResetDedicatedServer"}) =>
           \A m \in About("NotifyPlayerJoining") : user'[conn'[reading']].game = m.about
    /\ Handling({"JoinRoom"}) =>
           \A m \in About("NotifyRoomMemberJoined") : user'[conn'[reading']].room = m.about[1]
    /\ Handling({"FinalizeGameCreation"}) =>
           \A m \in About("NotifyGamePlayerStateChange") : game'[m.about[1]].running
    /\ Handling({"RemovePlayer"}) => \A m \in About("NotifyPlayerRemoved") :
           LET i == m.about[2] IN
           /\ registered'[i] # None => user'[registered'[i]].game = None
           /\ m.about[1] \in 1..Len(game') => game'[m.about[1]].players[i] = None
ChangesAreTold == [][ChangesToldTruly]_vars
=============================================================================

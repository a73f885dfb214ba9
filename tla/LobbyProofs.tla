----------------------------- MODULE LobbyProofs -----------------------------
(***************************************************************************)
(* Theorems about Lobby for any number of connections, accounts, rooms and *)
(* games.                                                                  *)
(*                                                                         *)
(* IInv says that what refers to a user object refers to a living one: an  *)
(* object is freed in the same step as its last reference, so that every   *)
(* handler works on the user it looked up.  A user is in a game that is    *)
(* there, in a room that was given a category, and every category has a    *)
(* view from the step that makes it.  And the answers in the buffers of    *)
(* the read that is handled answer its requests in order: a handler adds   *)
(* one answer at most, to the request it was called for, which is the last.*)
(***************************************************************************)
EXTENDS Lobby, SequenceLemmas

\* sUsersByEmail, Client::mUser and Player::mUser hold the user object.
PointersLive ==
    /\ \A i \in Ids : registered[i] # None => Live(registered[i])
    /\ \A c \in Conns : HasUser(c) => Live(conn[c])
    /\ \A n \in 1..Len(game) : \A i \in Ids :
           game[n].players[i] # None => Live(game[n].players[i])

GamesExist == \A o \in Users : Live(o) => user[o].game \in {None} \cup 1..Len(game)

RoomsExist ==
    \A o \in Users : Live(o) /\ user[o].room # None =>
        user[o].room \in 1..Len(room) /\ room[user[o].room] \in 1..Len(category)

CategoriesHaveViews == \A k \in 1..Len(category) : category[k] \in 1..views

\* Notifications that somebody joins something, and the others.
Joins == {"NotifyPlayerJoining", "NotifyRoomMemberJoined"}
Other ==
    {"UserSessionExtendedDataUpdate", "UserAdded", "UserUpdated", "NotifyMatchmakingFailed",
     "NotifyGameCreated", "NotifyGameRemoved", "NotifyGameSetup", "NotifyPlayerJoinCompleted",
     "NotifyPlayerRemoved", "NotifyGameStateChange", "NotifyGamePlayerStateChange",
     "NotifyRoomViewAdded", "NotifyRoomViewUpdated", "NotifyRoomCategoryAdded",
     "NotifyRoomCategoryUpdated", "NotifyRoomAdded", "NotifyRoomUpdated",
     "NotifyUpdateListMembership", "NotifyMessage"}
Errors == {"AUTH_ERR_INVALID_USER", "ROOMS_ERR_NOT_FOUND", "ROOMS_ERR_CREATE_UNKNOWN_CATEGORY"}

\* What a message is about: a number, an account, a pair of them, an error.
Numbers == Nat \cup Ids
Subject == Numbers \cup (Numbers \X Numbers) \cup Errors
Message == [type : {"reply", "error", "notification"}, cmd : Commands \cup Joins \cup Other,
            id : MsgIds \cup {0}, about : Subject]

BuffersOK == out \in [Conns -> Seq(Message)]

IInv ==
    TypeOK /\ BuffersOK /\ InOrder /\ PointersLive /\ GamesExist /\ RoomsExist /\ CategoriesHaveViews

\* The parts of it about the state, and about the read that is handled.
StateOK ==
    /\ accepting \in BOOLEAN
    /\ conn \in [Conns -> {Down, None} \cup Users]
    /\ registered \in [Ids -> {None} \cup Users]
    /\ user \in [Users -> {Free} \cup UserObject]
    /\ room \in Seq(Nat) /\ category \in Seq(Nat) /\ views \in Nat
    /\ game \in Seq(Game)
    /\ PointersLive /\ GamesExist /\ RoomsExist /\ CategoriesHaveViews
Handled == [cmd : Commands, id : MsgIds]
ReadOK ==
    /\ reading \in Conns \cup {None} /\ asked \in Seq(Handled)
    /\ BuffersOK /\ InOrder

LEMMA IInvParts == IInv <=> StateOK /\ ReadOK
BY DEF IInv, TypeOK, StateOK, ReadOK, Handled

----------------------------------------------------------------------------
\* Messages.

\* Notifications of the given kinds, and nothing else.
AreNotes(s, kinds) ==
    /\ s \in Seq(Message)
    /\ \A n \in DOMAIN s : s[n].type = "notification" /\ s[n].cmd \in kinds

\* Notifications of the given kinds, and at most one answer, to the request.
Answers(s, r, kinds) ==
    /\ s \in Seq(Message)
    /\ \A n \in DOMAIN s :
           IF s[n].type = "notification" THEN s[n].cmd \in kinds
           ELSE /\ s[n].cmd = r.cmd /\ s[n].id = r.id
                /\ \A m \in DOMAIN s : s[m].type # "notification" => m = n

LEMMA NoteIs ==
    ASSUME NEW kinds \in SUBSET (Joins \cup Other), NEW name \in kinds, NEW about \in Subject
    PROVE  AreNotes(Note(name, about), kinds)
<1> DEFINE m == [type |-> "notification", cmd |-> name, id |-> 0, about |-> about]
<1>1. m \in Message /\ m.type = "notification" /\ m.cmd = name
  BY DEF Message
<1> HIDE DEF m
<1>2. <<m>> \in Seq(Message) /\ DOMAIN <<m>> = 1..1 /\ <<m>>[1] = m
  BY <1>1
<1>3. Note(name, about) = <<m>>
  BY DEF Note, m
<1> QED BY <1>1, <1>2, <1>3 DEF AreNotes

LEMMA SilentIs ==
    ASSUME NEW kinds
    PROVE  AreNotes(Silent, kinds) /\ \A r : Answers(Silent, r, kinds)
BY EmptySeq DEF Silent, AreNotes, Answers

LEMMA AnswerIs ==
    ASSUME NEW kinds, NEW r, r.cmd \in Commands, r.id \in MsgIds, NEW e \in Errors
    PROVE  Answers(Reply(r), r, kinds) /\ Answers(Error(r, e), r, kinds)
<1> DEFINE m == [type |-> "reply", cmd |-> r.cmd, id |-> r.id, about |-> None]
           w == [type |-> "error", cmd |-> r.cmd, id |-> r.id, about |-> e]
<1>1. m \in Message /\ m.type = "reply" /\ m.cmd = r.cmd /\ m.id = r.id
  BY DEF Message, Subject, Numbers, None
<1>2. w \in Message /\ w.type = "error" /\ w.cmd = r.cmd /\ w.id = r.id
  BY DEF Message, Subject
<1>3. Reply(r) = <<m>> /\ Error(r, e) = <<w>>
  BY DEF Reply, Error
<1> HIDE DEF m, w
<1>4. <<m>> \in Seq(Message) /\ DOMAIN <<m>> = 1..1 /\ <<m>>[1] = m
  BY <1>1
<1>5. <<w>> \in Seq(Message) /\ DOMAIN <<w>> = 1..1 /\ <<w>>[1] = w
  BY <1>2
<1> QED BY <1>1, <1>2, <1>3, <1>4, <1>5 DEF Answers

LEMMA NotesJoin ==
    ASSUME NEW kinds, NEW s, NEW t, AreNotes(s, kinds), AreNotes(t, kinds)
    PROVE  AreNotes(s \o t, kinds)
<1>1. s \in Seq(Message) /\ t \in Seq(Message)
  BY DEF AreNotes
<1>2. s \o t \in Seq(Message)
  BY <1>1, ConcatProperties
<1>3. \A n \in DOMAIN (s \o t) :
        \/ n \in DOMAIN s /\ (s \o t)[n] = s[n]
        \/ n - Len(s) \in DOMAIN t /\ (s \o t)[n] = t[n - Len(s)]
  BY <1>1, ConcatProperties, LenProperties
<1> QED BY <1>2, <1>3 DEF AreNotes

LEMMA AnswerJoins ==
    ASSUME NEW kinds, NEW r, NEW s, NEW t, AreNotes(s, kinds), Answers(t, r, kinds)
    PROVE  Answers(s \o t, r, kinds) /\ Answers(t \o s, r, kinds)
<1>1. s \in Seq(Message) /\ t \in Seq(Message) /\ Len(s) \in Nat /\ Len(t) \in Nat
      /\ DOMAIN s = 1..Len(s) /\ DOMAIN t = 1..Len(t)
  BY LenProperties DEF AreNotes, Answers
<1>2. s \o t \in Seq(Message) /\ t \o s \in Seq(Message)
  BY <1>1, ConcatProperties
<1>3. DOMAIN (s \o t) = 1..(Len(s) + Len(t)) /\ DOMAIN (t \o s) = 1..(Len(t) + Len(s))
  BY <1>1, <1>2, ConcatProperties, LenProperties
<1>4. \A n \in 1..(Len(s) + Len(t)) :
        \/ n \in DOMAIN s /\ (s \o t)[n] = s[n]
        \/ n - Len(s) \in DOMAIN t /\ (s \o t)[n] = t[n - Len(s)]
  BY <1>1, ConcatProperties
<1>5. \A n \in 1..(Len(t) + Len(s)) :
        \/ n \in DOMAIN t /\ (t \o s)[n] = t[n]
        \/ n - Len(t) \in DOMAIN s /\ (t \o s)[n] = s[n - Len(t)]
  BY <1>1, ConcatProperties
<1>6. Answers(s \o t, r, kinds)
  <2>1. ASSUME NEW n \in 1..(Len(s) + Len(t)), (s \o t)[n].type # "notification"
        PROVE  n - Len(s) \in DOMAIN t /\ (s \o t)[n] = t[n - Len(s)]
    BY <1>4, <2>1 DEF AreNotes
  <2>2. ASSUME NEW n \in 1..(Len(s) + Len(t)), (s \o t)[n].type = "notification"
        PROVE  (s \o t)[n].cmd \in kinds
    BY <1>4, <2>2 DEF AreNotes, Answers
  <2>3. ASSUME NEW n \in 1..(Len(s) + Len(t)), (s \o t)[n].type # "notification"
        PROVE  /\ (s \o t)[n].cmd = r.cmd /\ (s \o t)[n].id = r.id
               /\ \A m \in 1..(Len(s) + Len(t)) : (s \o t)[m].type # "notification" => m = n
    <3>1. (s \o t)[n].cmd = r.cmd /\ (s \o t)[n].id = r.id
      BY <2>1, <2>3 DEF Answers
    <3>2. ASSUME NEW m \in 1..(Len(s) + Len(t)), (s \o t)[m].type # "notification"
          PROVE  m = n
      <4>1. m - Len(s) = n - Len(s)
        BY <2>1, <2>3, <3>2 DEF Answers
      <4> QED BY <1>1, <4>1
    <3> QED BY <3>1, <3>2
  <2> QED BY <1>2, <1>3, <2>2, <2>3 DEF Answers
<1>7. Answers(t \o s, r, kinds)
  <2>1. ASSUME NEW n \in 1..(Len(t) + Len(s)), (t \o s)[n].type # "notification"
        PROVE  n \in DOMAIN t /\ (t \o s)[n] = t[n]
    BY <1>5, <2>1 DEF AreNotes
  <2>2. ASSUME NEW n \in 1..(Len(t) + Len(s)), (t \o s)[n].type = "notification"
        PROVE  (t \o s)[n].cmd \in kinds
    BY <1>5, <2>2 DEF AreNotes, Answers
  <2> QED BY <1>2, <1>3, <2>1, <2>2 DEF Answers
<1> QED BY <1>6, <1>7

----------------------------------------------------------------------------
\* The handlers that change no state: what they write is at most one answer,
\* and nothing about who joins what.

\* What the handlers of Ask look at has its type.
Asked(r) == r.cmd \in Commands /\ r.id \in MsgIds /\ r.to \in Numbers /\ r.player \in Numbers

LEMMA OneNote ==
    ASSUME NEW name \in Other, NEW about \in Numbers \cup (Numbers \X Numbers)
    PROVE  AreNotes(Note(name, about), Other)
<1>1. about \in Subject /\ Other \subseteq Joins \cup Other
  BY DEF Subject
<1> QED BY <1>1, NoteIs

LEMMA NotesAre ==
    ASSUME NEW i \in Numbers, NEW g \in Numbers
    PROVE  /\ AreNotes(NotifyUserSessionExtendedDataUpdate(i), Other)
           /\ AreNotes(NotifyUserAdded(i), Other) /\ AreNotes(NotifyUserUpdated(i), Other)
           /\ AreNotes(NotifyGameRemoved(g), Other) /\ AreNotes(NotifyGameStateChange(g), Other)
           /\ AreNotes(NotifyPlayerJoinCompleted(g, i), Other)
           /\ AreNotes(NotifyPlayerRemoved(g, i), Other)
           /\ AreNotes(NotifyGamePlayerStateChange(g, i), Other)
           /\ AreNotes(NotifyUpdateListMembership, Other)
           /\ AreNotes(NotifyRoomViewAdded(g), Other) /\ AreNotes(NotifyRoomViewUpdated(g), Other)
           /\ AreNotes(NotifyRoomCategoryAdded(g), Other)
           /\ AreNotes(NotifyRoomCategoryUpdated(g), Other)
<1>1. <<g, i>> \in Numbers \X Numbers /\ 0 \in Numbers
  BY DEF Numbers
<1>2. \A about \in Numbers \cup (Numbers \X Numbers) :
        /\ AreNotes(Note("UserSessionExtendedDataUpdate", about), Other)
        /\ AreNotes(Note("UserAdded", about), Other) /\ AreNotes(Note("UserUpdated", about), Other)
        /\ AreNotes(Note("NotifyGameRemoved", about), Other)
        /\ AreNotes(Note("NotifyGameStateChange", about), Other)
        /\ AreNotes(Note("NotifyPlayerJoinCompleted", about), Other)
        /\ AreNotes(Note("NotifyPlayerRemoved", about), Other)
        /\ AreNotes(Note("NotifyGamePlayerStateChange", about), Other)
        /\ AreNotes(Note("NotifyUpdateListMembership", about), Other)
        /\ AreNotes(Note("NotifyRoomViewAdded", about), Other)
        /\ AreNotes(Note("NotifyRoomViewUpdated", about), Other)
        /\ AreNotes(Note("NotifyRoomCategoryAdded", about), Other)
        /\ AreNotes(Note("NotifyRoomCategoryUpdated", about), Other)
  <2>1. {"UserSessionExtendedDataUpdate", "UserAdded", "UserUpdated", "NotifyGameRemoved",
         "NotifyGameStateChange", "NotifyPlayerJoinCompleted", "NotifyPlayerRemoved",
         "NotifyGamePlayerStateChange", "NotifyUpdateListMembership", "NotifyRoomViewAdded",
         "NotifyRoomViewUpdated", "NotifyRoomCategoryAdded", "NotifyRoomCategoryUpdated"}
          \subseteq Other
    BY DEF Other
  <2> QED BY <2>1, OneNote
<1>3. AreNotes(Silent, Other)
  BY SilentIs
<1> QED BY <1>1, <1>2, <1>3
        DEF NotifyUserSessionExtendedDataUpdate, NotifyUserAdded, NotifyUserUpdated,
            NotifyGameRemoved, NotifyGameStateChange, NotifyPlayerJoinCompleted,
            NotifyPlayerRemoved, NotifyGamePlayerStateChange, NotifyUpdateListMembership,
            NotifyRoomViewAdded, NotifyRoomViewUpdated, NotifyRoomCategoryAdded,
            NotifyRoomCategoryUpdated, None

LEMMA IdOf ==
    ASSUME IInv, NEW c \in Conns, HasUser(c)
    PROVE  /\ conn[c] \in Users /\ Live(conn[c]) /\ user[conn[c]] \in UserObject
           /\ Id(c) \in Ids
<1>1. conn[c] \in {-1, 0} \cup Users /\ conn[c] > 0
  BY DEF IInv, TypeOK, HasUser, Down, None
<1>2. conn[c] \in Users
  BY <1>1
<1>3. Live(conn[c])
  BY DEF IInv, PointersLive
<1>4. user[conn[c]] \in UserObject
  BY <1>2, <1>3 DEF IInv, TypeOK, Live
<1> QED BY <1>2, <1>3, <1>4 DEF UserObject, Id

LEMMA AuthAnswers ==
    ASSUME IInv, NEW c \in Conns, NEW r, Asked(r)
    PROVE  Answers(AuthComponent(c, r), r, Other)
<1>1. Answers(Reply(r), r, Other) /\ Answers(Silent, r, Other)
  BY AnswerIs, SilentIs DEF Asked, Errors
<1>2. ASSUME HasUser(c)
      PROVE  /\ Answers(Reply(r) \o NotifyUserUpdated(Id(c)), r, Other)
             /\ Answers(Reply(r) \o NotifyUserAdded(Id(c)) \o NotifyUserUpdated(Id(c)), r, Other)
  <2>1. AreNotes(NotifyUserUpdated(Id(c)), Other) /\ AreNotes(NotifyUserAdded(Id(c)), Other)
    BY <1>2, IdOf, NotesAre DEF Numbers
  <2> QED BY <1>1, <2>1, AnswerJoins
<1> QED BY <1>1, <1>2 DEF AuthComponent, AcceptTOS, GetTOSInfo, GetTermsAndConditions,
           GetPrivacyPolicy, GetAuthToken, LoginPersona, IfUser

LEMMA UserSessionAnswers ==
    ASSUME IInv, NEW c \in Conns, NEW r, Asked(r)
    PROVE  Answers(UserSessionComponent(c, r), r, Other)
<1>1. Answers(Reply(r), r, Other) /\ Answers(Silent, r, Other)
  BY AnswerIs, SilentIs DEF Asked, Errors
<1>2. ASSUME HasUser(c)
      PROVE  Answers(Reply(r) \o NotifyUserSessionExtendedDataUpdate(Id(c)), r, Other)
  <2>1. AreNotes(NotifyUserSessionExtendedDataUpdate(Id(c)), Other)
    BY <1>2, IdOf, NotesAre DEF Numbers
  <2> QED BY <1>1, <2>1, AnswerJoins
<1> QED BY <1>1, <1>2 DEF UserSessionComponent, LookupUser, UpdateNetworkInfo,
           UpdateUserSessionClientData, IfUser

LEMMA MessagingAnswers ==
    ASSUME NEW c \in Conns, NEW r, Asked(r)
    PROVE  Answers(MessagingComponent(c, r), r, Other)
<1>1. Answers(Reply(r), r, Other) /\ Answers(Silent, r, Other) /\ AreNotes(Silent, Other)
  BY AnswerIs, SilentIs DEF Asked, Errors
<1>2. AreNotes(Note("NotifyMessage", r.to), Other)
  <2>1. "NotifyMessage" \in Other /\ r.to \in Numbers \cup (Numbers \X Numbers)
    BY DEF Other, Asked
  <2> QED BY <2>1, OneNote
<1>3. AreNotes(NotifyMessage(r), Other)
  BY <1>1, <1>2 DEF NotifyMessage
<1>4. Answers(Reply(r) \o NotifyMessage(r), r, Other)
  BY <1>1, <1>3, AnswerJoins
<1> QED BY <1>1, <1>4 DEF MessagingComponent, OnSendMessageResponse, OnOtherMessages

LEMMA PlainAnswers ==
    ASSUME NEW c \in Conns, NEW r, Asked(r)
    PROVE  /\ Answers(UtilComponent(c, r), r, Other)
           /\ Answers(RedirectorComponent(c, r), r, Other)
           /\ Answers(PlaygroupsComponent(c, r), r, Other)
<1>1. Answers(Reply(r), r, Other) /\ Answers(Silent, r, Other)
  BY AnswerIs, SilentIs DEF Asked, Errors
<1> QED BY <1>1 DEF UtilComponent, FetchClientConfig, Ping, GetTelemetryServer, PreAuth,
           PostAuth, UserSettingsSave, UserSettingsLoadAll, SetClientMetrics,
           RedirectorComponent, GetServerInstance, PlaygroupsComponent, OnPlaygroup

LEMMA AssociationAnswers ==
    ASSUME NEW c \in Conns, NEW r, Asked(r)
    PROVE  Answers(AssociationComponent(c, r), r, Other)
<1>1. Answers(Reply(r), r, Other) /\ Answers(Silent, r, Other)
  BY AnswerIs, SilentIs DEF Asked, Errors
<1>2. AreNotes(NotifyUpdateListMembership, Other)
  <2>1. 0 \in Numbers
    BY DEF Numbers
  <2> QED BY <2>1, NotesAre
<1>3. Answers(Reply(r) \o NotifyUpdateListMembership, r, Other)
  BY <1>1, <1>2, AnswerJoins
<1> QED BY <1>1, <1>3 DEF AssociationComponent, AddUsersToList, RemoveUsersFromList, GetLists, IfUser

LEMMA NotesAreSequences ==
    ASSUME NEW s
    PROVE  AreNotes(s, Other)
             <=> s \in Seq({m \in Message : m.type = "notification" /\ m.cmd \in Other})
<1> DEFINE N == {m \in Message : m.type = "notification" /\ m.cmd \in Other}
<1>1. ASSUME AreNotes(s, Other) PROVE s \in Seq(N)
  <2>1. s \in Seq(Message)
    BY <1>1 DEF AreNotes
  <2>2. Len(s) \in Nat /\ s \in [1..Len(s) -> Message]
    BY <2>1, LenProperties
  <2>3. s \in [1..Len(s) -> N]
    BY <1>1, <2>2 DEF AreNotes
  <2> QED BY <2>2, <2>3, SeqDef
<1>2. ASSUME s \in Seq(N) PROVE AreNotes(s, Other)
  <2>1. Len(s) \in Nat /\ s \in [1..Len(s) -> N]
    BY <1>2, LenProperties
  <2>2. s \in [1..Len(s) -> Message]
    BY <2>1
  <2>3. s \in Seq(Message)
    BY <2>1, <2>2, SeqDef
  <2> QED BY <2>1, <2>3 DEF AreNotes
<1> QED BY <1>1, <1>2

LEMMA RoomsAnswers ==
    ASSUME IInv, NEW c \in Conns, NEW r, Asked(r)
    PROVE  Answers(RoomsComponent(c, r), r, Other)
<1>1. Answers(Reply(r), r, Other) /\ Answers(Silent, r, Other) /\ AreNotes(Silent, Other)
  BY AnswerIs, SilentIs DEF Asked, Errors
<1>2. Answers(SelectViewUpdates(c, r), r, Other)
  <2>1. 1 \in Numbers
    BY DEF Numbers
  <2>2. AreNotes(NotifyRoomViewAdded(1), Other) /\ AreNotes(NotifyRoomViewUpdated(1), Other)
    BY <2>1, NotesAre
  <2>3. AreNotes(NotifyRoomViewAdded(1) \o NotifyRoomViewUpdated(1), Other)
    BY <2>2, NotesJoin
  <2>4. /\ Answers(Reply(r) \o (NotifyRoomViewAdded(1) \o NotifyRoomViewUpdated(1)), r, Other)
        /\ Answers(Reply(r) \o Silent, r, Other)
    BY <1>1, <2>3, AnswerJoins
  <2> QED BY <1>1, <2>4 DEF SelectViewUpdates, IfUser
<1>3. Answers(SelectCategoryUpdates(c, r), r, Other)
  <2> DEFINE N == {m \in Message : m.type = "notification" /\ m.cmd \in Other}
             s == [k \in 1..Lobbies |-> NotifyRoomCategoryAdded(k) \o NotifyRoomCategoryUpdated(k)]
  <2>1. ASSUME NEW k \in 1..Lobbies
        PROVE  NotifyRoomCategoryAdded(k) \o NotifyRoomCategoryUpdated(k) \in Seq(N)
    <3>1. k \in Numbers
      BY LobbyAssumption DEF Numbers
    <3>2. AreNotes(NotifyRoomCategoryAdded(k), Other) /\ AreNotes(NotifyRoomCategoryUpdated(k), Other)
      BY <3>1, NotesAre
    <3> QED BY <3>2, NotesJoin, NotesAreSequences
  <2>2. Lobbies \in Nat
    BY LobbyAssumption
  <2> HIDE DEF N
  <2>3. s \in [1..Lobbies -> Seq(N)]
    BY <2>1
  <2>4. s \in Seq(Seq(N))
    BY <2>2, <2>3, SeqDef
  <2>5. FlattenSeq(s) \in Seq(N)
    BY <2>4, FlattenType
  <2>6. AreNotes(FlattenSeq(s), Other)
    BY <2>5, NotesAreSequences DEF N
  <2> HIDE DEF s
  <2>7. Answers(FlattenSeq(s) \o Reply(r), r, Other) /\ Answers(Silent \o Reply(r), r, Other)
    BY <1>1, <2>6, AnswerJoins
  <2> QED BY <2>7 DEF SelectCategoryUpdates, s
<1> QED BY <1>1, <1>2, <1>3 DEF RoomsComponent, SelectPseudoRoomUpdates

LEMMA GameManagerAnswers ==
    ASSUME IInv, NEW c \in Conns, NEW r, Asked(r)
    PROVE  Answers(GameManagerComponent(c, r), r, Other)
<1>1. Answers(Reply(r), r, Other) /\ Answers(Silent, r, Other) /\ AreNotes(Silent, Other)
  BY AnswerIs, SilentIs DEF Asked, Errors
<1>2. r.to \in Numbers /\ r.player \in Numbers /\ 1 \in Numbers
  BY DEF Asked, Numbers
<1>3. Answers(CreateGame(c, r), r, Other) /\ Answers(DestroyGame(c, r), r, Other)
  <2>1. AreNotes(NotifyGameStateChange(1), Other) /\ AreNotes(NotifyGameRemoved(r.to), Other)
    BY <1>2, NotesAre
  <2> QED BY <1>1, <2>1, AnswerJoins DEF CreateGame, DestroyGame
<1>4. Answers(CancelMatchmaking(c, r), r, Other)
  <2>1. ASSUME HasUser(c) PROVE AreNotes(Note("NotifyMatchmakingFailed", Id(c)), Other)
    <3>1. Id(c) \in Numbers
      BY <2>1, IdOf DEF Numbers
    <3>2. "NotifyMatchmakingFailed" \in Other
      BY DEF Other
    <3> QED BY <3>1, <3>2, OneNote
  <2>2. AreNotes(NotifyMatchmakingFailed(c), Other)
    BY <1>1, <2>1 DEF NotifyMatchmakingFailed, IfUser
  <2> QED BY <1>1, <2>2, AnswerJoins DEF CancelMatchmaking
<1>5. Answers(UpdateMeshConnection(c, r), r, Other)
  <2> DEFINE who == IF r.client = "gameplay" THEN Id(c) ELSE r.player
             told == r.client = "dedicated" \/ (r.client = "gameplay" /\ HasUser(c))
             notes == CASE r.state = "connecting" /\ told ->
                             NotifyGamePlayerStateChange(r.to, who) \o NotifyPlayerJoinCompleted(r.to, who)
                        [] r.state = "reserved" /\ r.client \in {"gameplay", "dedicated"} ->
                             NotifyPlayerRemoved(r.to, r.player)
                        [] OTHER -> Silent
  <2>1. told => who \in Numbers
    BY <1>2, IdOf DEF Numbers
  <2>2. told => AreNotes(NotifyGamePlayerStateChange(r.to, who) \o NotifyPlayerJoinCompleted(r.to, who), Other)
    <3> HIDE DEF who, told
    <3>1. SUFFICES ASSUME told PROVE AreNotes(NotifyGamePlayerStateChange(r.to, who) \o NotifyPlayerJoinCompleted(r.to, who), Other)
      OBVIOUS
    <3>2. AreNotes(NotifyGamePlayerStateChange(r.to, who), Other)
          /\ AreNotes(NotifyPlayerJoinCompleted(r.to, who), Other)
      BY <1>2, <2>1, <3>1, NotesAre
    <3> QED BY <3>2, NotesJoin
  <2>3. AreNotes(NotifyPlayerRemoved(r.to, r.player), Other)
    BY <1>2, NotesAre
  <2>4. AreNotes(notes, Other)
    <3> HIDE DEF who, told
    <3>1. CASE r.state = "connecting" /\ told
      BY <2>2, <3>1
    <3>2. CASE ~ (r.state = "connecting" /\ told) /\ r.state = "reserved" /\ r.client \in {"gameplay", "dedicated"}
      BY <2>3, <3>2
    <3>3. CASE ~ (r.state = "connecting" /\ told) /\ ~ (r.state = "reserved" /\ r.client \in {"gameplay", "dedicated"})
      BY <1>1, <3>3
    <3> QED BY <3>1, <3>2, <3>3
  <2>5. UpdateMeshConnection(c, r) = Reply(r) \o notes
    BY DEF UpdateMeshConnection
  <2> HIDE DEF notes
  <2> QED BY <1>1, <2>4, <2>5, AnswerJoins
<1> QED BY <1>1, <1>3, <1>4, <1>5 DEF GameManagerComponent, SetPlayerAttributes, StartMatchmaking

LEMMA ComponentAnswers ==
    ASSUME IInv, NEW c \in Conns, NEW r, Asked(r)
    PROVE  Answers(Component(c, r), r, Other)
<1>1. Answers(Silent, r, Other)
  BY SilentIs
<1> QED BY <1>1, AuthAnswers, UserSessionAnswers, MessagingAnswers, PlainAnswers,
           AssociationAnswers, RoomsAnswers, GameManagerAnswers DEF Component

\* What is asked has the types that the handlers rely on, and is none of the
\* requests that change the state.
LEMMA AsksAreAsked ==
    ASSUME NEW id \in MsgIds, NEW r \in Asks[id]
    PROVE  Asked(r) /\ r.cmd \notin {"FinalizeGameCreation", "RemovePlayer"}
<1>1. 0 \in Numbers /\ 1 \in Numbers /\ \A i \in Ids : i \in Numbers
  BY DEF Numbers
<1>2. \A q \in Stateless : q[2] \in Commands /\ q[2] \notin {"FinalizeGameCreation", "RemovePlayer"}
  BY DEF Commands, Stateless
<1>3. {"SelectViewUpdates", "SelectCategoryUpdates", "SendMessage", "UpdateMeshConnection"} \subseteq Commands
  <2>1. /\ <<"Rooms", "SelectViewUpdates">> \in Stateless
        /\ <<"Rooms", "SelectCategoryUpdates">> \in Stateless
        /\ <<"Messaging", "SendMessage">> \in Stateless
    BY DEF Stateless
  <2> QED BY <2>1 DEF Commands
<1>4. \A component, cmd : LET b == Blank(component, cmd, id) IN
        /\ DOMAIN b = {"component", "cmd", "id", "to", "category", "player", "state", "client",
                       "update", "target", "first"}
        /\ b.cmd = cmd /\ b.id = id /\ b.to = 0 /\ b.player = 0
  BY DEF Blank
<1>5. CASE r \in Plain(id)
  <2>1. PICK q \in Stateless : r = Blank(q[1], q[2], id)
    BY <1>5, Zenon DEF Plain
  <2> QED BY <1>1, <1>2, <1>4, <2>1 DEF Asked
<1>6. CASE r \in Selects(id)
  <2> DEFINE a == Blank("Rooms", "SelectViewUpdates", id)
             b == Blank("Rooms", "SelectCategoryUpdates", id)
  <2>1. /\ a.cmd = "SelectViewUpdates" /\ a.id = id /\ a.to = 0 /\ a.player = 0
        /\ b.cmd = "SelectCategoryUpdates" /\ b.id = id /\ b.to = 0 /\ b.player = 0 /\ "to" \in DOMAIN b
    BY <1>4
  <2>2. r = [a EXCEPT !.update = TRUE] \/ r = [b EXCEPT !.to = 1]
    BY <1>6 DEF Selects
  <2> HIDE DEF a, b
  <2>3. r.cmd \in {"SelectViewUpdates", "SelectCategoryUpdates"} /\ r.id = id /\ r.to \in {0, 1}
        /\ r.player = 0
    <3>1. CASE r = [a EXCEPT !.update = TRUE]
      BY <2>1, <3>1
    <3>2. CASE r = [b EXCEPT !.to = 1]
      BY <2>1, <3>2
    <3> QED BY <2>2, <3>1, <3>2
  <2> QED BY <1>1, <1>3, <2>3 DEF Asked
<1>7. CASE r \in ToUsers(id)
  <2> DEFINE b == Blank("Messaging", "SendMessage", id)
  <2>1. b.cmd = "SendMessage" /\ b.id = id /\ b.player = 0 /\ "to" \in DOMAIN b
    BY <1>4
  <2>2. PICK i \in Ids : r = [b EXCEPT !.target = "user", !.to = i]
    BY <1>7 DEF ToUsers
  <2> HIDE DEF b
  <2>3. r.cmd = "SendMessage" /\ r.id = id /\ r.to = i /\ r.player = 0
    BY <2>1, <2>2
  <2> QED BY <1>1, <1>3, <2>3 DEF Asked
<1>8. CASE r \in ToGames(id)
  <2> DEFINE b == Blank("Messaging", "SendMessage", id)
  <2>1. b.cmd = "SendMessage" /\ b.id = id /\ b.player = 0 /\ "to" \in DOMAIN b
    BY <1>4
  <2>2. PICK f \in BOOLEAN : r = [b EXCEPT !.target = "game", !.to = 1, !.first = f]
    BY <1>8, Zenon DEF ToGames
  <2> HIDE DEF b
  <2>3. r.cmd = "SendMessage" /\ r.id = id /\ r.to = 1 /\ r.player = 0
    BY <2>1, <2>2
  <2> QED BY <1>1, <1>3, <2>3 DEF Asked
<1>9. CASE r \in Meshes(id)
  <2> DEFINE b == Blank("GameManager", "UpdateMeshConnection", id)
  <2>1. b.cmd = "UpdateMeshConnection" /\ b.id = id /\ "to" \in DOMAIN b /\ "player" \in DOMAIN b
    BY <1>4
  <2>2. PICK i \in Ids, s \in {"connecting", "reserved", "connected"},
             w \in {"gameplay", "dedicated", "other"} : r = Mesh(id, i, s, w)
    BY <1>9 DEF Meshes
  <2>3. r = [b EXCEPT !.to = 1, !.player = i, !.state = s, !.client = w]
    BY <2>2 DEF Mesh
  <2> HIDE DEF b
  <2>4. r.cmd = "UpdateMeshConnection" /\ r.id = id /\ r.to = 1 /\ r.player = i
    BY <2>1, <2>3
  <2> QED BY <1>1, <1>3, <2>4 DEF Asked
<1> QED BY <1>5, <1>6, <1>7, <1>8, <1>9 DEF Asks
----------------------------------------------------------------------------
\* A read.

\* Every notification of a kind in s is about a.
AllAbout(s, kind, a) ==
    \A n \in DOMAIN s : s[n].type = "notification" /\ s[n].cmd = kind => s[n].about = a

LEMMA AboutJoins ==
    ASSUME NEW s \in Seq(Message), NEW t \in Seq(Message), NEW kind, NEW a,
           AllAbout(s, kind, a), AllAbout(t, kind, a)
    PROVE  AllAbout(s \o t, kind, a)
<1>1. \A n \in DOMAIN (s \o t) :
        \/ n \in DOMAIN s /\ (s \o t)[n] = s[n]
        \/ n - Len(s) \in DOMAIN t /\ (s \o t)[n] = t[n - Len(s)]
  BY ConcatProperties, LenProperties
<1> QED BY <1>1 DEF AllAbout

LEMMA NoteAbout ==
    ASSUME NEW name, NEW kind, NEW a, NEW b, name # kind \/ a = b
    PROVE  AllAbout(Note(name, a), kind, b)
BY DEF AllAbout, Note

LEMMA ReplyAbout ==
    ASSUME NEW r, NEW e, NEW kind, NEW a
    PROVE  AllAbout(Reply(r), kind, a) /\ AllAbout(Error(r, e), kind, a) /\ AllAbout(Silent, kind, a)
BY DEF AllAbout, Reply, Error, Silent

LEMMA NothingAnswered == AnswersTo(<<>>, <<>>)
<1> DEFINE answers == {n \in DOMAIN <<>> : <<>>[n].type # "notification"}
<1>1. DOMAIN <<>> = {}
  BY SMT
<1>2. answers = {}
  BY <1>1
<1> HIDE DEF answers
<1>3. [n \in answers |-> n] \in [answers -> DOMAIN <<>>]
  BY <1>2
<1> QED BY <1>2, <1>3 DEF AnswersTo, answers

\* A handler adds one answer at most, to the request that was added last.
LEMMA AnswersGrow ==
    ASSUME NEW s \in Seq(Message), NEW q \in Seq(Handled), AnswersTo(s, q),
           NEW r, r.cmd \in Commands, r.id \in MsgIds, NEW kinds, NEW t, Answers(t, r, kinds)
    PROVE  AnswersTo(s \o t, Append(q, [cmd |-> r.cmd, id |-> r.id]))
<1> DEFINE a == {n \in DOMAIN s : s[n].type # "notification"}
           b == {n \in DOMAIN (s \o t) : (s \o t)[n].type # "notification"}
           e == [cmd |-> r.cmd, id |-> r.id]
           p == Append(q, e)
<1>1. t \in Seq(Message) /\ Len(s) \in Nat /\ Len(t) \in Nat /\ Len(q) \in Nat
      /\ DOMAIN s = 1..Len(s) /\ DOMAIN t = 1..Len(t) /\ DOMAIN q = 1..Len(q)
  BY LenProperties DEF Answers
<1>2. DOMAIN (s \o t) = 1..(Len(s) + Len(t))
  BY <1>1, ConcatProperties, LenProperties
<1>3. /\ \A n \in 1..Len(s) : (s \o t)[n] = s[n]
      /\ \A n \in 1..(Len(s) + Len(t)) :
             n > Len(s) => n - Len(s) \in 1..Len(t) /\ (s \o t)[n] = t[n - Len(s)]
  BY <1>1, ConcatProperties
<1>4. e \in Handled /\ e.cmd = r.cmd /\ e.id = r.id
  BY DEF Handled
<1> HIDE DEF e
<1>5. /\ DOMAIN p = 1..(Len(q) + 1) /\ p[Len(q) + 1] = e
      /\ \A n \in 1..Len(q) : p[n] = q[n]
  BY <1>1, <1>4, AppendProperties, LenProperties
<1>6. PICK f \in [a -> DOMAIN q] :
        /\ \A n \in a : s[n].cmd = q[f[n]].cmd /\ s[n].id = q[f[n]].id
        /\ \A n, m \in a : n < m => f[n] < f[m]
  BY Zenon DEF AnswersTo
<1>7. ASSUME NEW n \in b, n > Len(s)
      PROVE  /\ (s \o t)[n].cmd = r.cmd /\ (s \o t)[n].id = r.id
             /\ \A m \in b : m > Len(s) => m = n
  <2>1. n - Len(s) \in DOMAIN t /\ t[n - Len(s)].type # "notification" /\ (s \o t)[n] = t[n - Len(s)]
    BY <1>1, <1>2, <1>3, <1>7
  <2>2. (s \o t)[n].cmd = r.cmd /\ (s \o t)[n].id = r.id
    BY <2>1 DEF Answers
  <2>3. ASSUME NEW m \in b, m > Len(s) PROVE m = n
    <3>1. m - Len(s) \in DOMAIN t /\ t[m - Len(s)].type # "notification" /\ m \in Nat /\ n \in Nat
      BY <1>1, <1>2, <1>3, <1>7, <2>3
    <3>2. m - Len(s) = n - Len(s)
      BY <2>1, <3>1 DEF Answers
    <3> QED BY <1>1, <3>1, <3>2
  <2> QED BY <2>2, <2>3
<1>8. \A n \in b : n \in Nat /\ (n <= Len(s) => n \in a /\ (s \o t)[n] = s[n])
  BY <1>1, <1>2, <1>3
<1> DEFINE g == [n \in b |-> IF n <= Len(s) THEN f[n] ELSE Len(q) + 1]
<1>9. \A n \in a : f[n] \in 1..Len(q)
  BY <1>1, <1>6
<1> HIDE DEF a, b, p
<1>10. g \in [b -> DOMAIN p]
  BY <1>1, <1>5, <1>8, <1>9
<1>11. \A n \in b : g[n] = IF n <= Len(s) THEN f[n] ELSE Len(q) + 1
  OBVIOUS
<1> HIDE DEF g
<1>12. ASSUME NEW n \in b PROVE (s \o t)[n].cmd = p[g[n]].cmd /\ (s \o t)[n].id = p[g[n]].id
  <2>1. CASE n <= Len(s)
    <3>1. n \in a /\ (s \o t)[n] = s[n] /\ g[n] = f[n]
      BY <1>8, <1>11, <2>1
    <3>2. p[g[n]] = q[f[n]]
      BY <1>5, <1>9, <3>1
    <3> QED BY <1>6, <3>1, <3>2
  <2>2. CASE ~ (n <= Len(s))
    <3>1. n > Len(s) /\ g[n] = Len(q) + 1
      BY <1>1, <1>8, <1>11, <2>2
    <3> QED BY <1>4, <1>5, <1>7, <3>1
  <2> QED BY <2>1, <2>2
<1>13. ASSUME NEW n \in b, NEW m \in b, n < m PROVE g[n] < g[m]
  <2>1. CASE m <= Len(s)
    <3>1. n <= Len(s)
      BY <1>1, <1>8, <1>13, <2>1
    <3> QED BY <1>6, <1>8, <1>11, <1>13, <2>1, <3>1
  <2>2. CASE ~ (m <= Len(s))
    <3>1. g[m] = Len(q) + 1 /\ m > Len(s)
      BY <1>1, <1>8, <1>11, <2>2
    <3>2. n <= Len(s)
      <4>1. SUFFICES ASSUME n > Len(s) PROVE FALSE
        BY <1>1, <1>8
      <4>2. m = n
        BY <1>7, <3>1, <4>1
      <4> QED BY <1>8, <1>13, <4>2
    <3>3. g[n] \in 1..Len(q)
      BY <1>8, <1>9, <1>11, <3>2
    <3> QED BY <1>1, <3>1, <3>3
  <2> QED BY <2>1, <2>2
<1> QED BY <1>10, <1>12, <1>13, Zenon DEF AnswersTo, b, p, e

\* The handler that runs is that of the given command.
Runs(cmd) ==
    /\ Handling({"JoinGame", "ResetDedicatedServer"}) => cmd \in {"JoinGame", "ResetDedicatedServer"}
    /\ Handling({"JoinRoom"}) => cmd = "JoinRoom"
    /\ Handling({"FinalizeGameCreation"}) => cmd = "FinalizeGameCreation"
    /\ Handling({"RemovePlayer"}) => cmd = "RemovePlayer"

\* What a request finds in the buffers answers the requests before it.
LEMMA BeforeIs ==
    ASSUME IInv, NEW c \in Conns
    PROVE  Before(c) \in Seq(Message) /\ Earlier(c) \in Seq(Handled) /\ AnswersTo(Before(c), Earlier(c))
<1>1. ReadOK /\ c # None
  BY IInvParts, LobbyAssumption DEF None
<1>2. CASE reading = c
  <2>1. Before(c) = out[c] /\ Earlier(c) = asked
    BY <1>2 DEF Before, Earlier
  <2>2. AnswersTo(out[reading], asked)
    BY <1>1, <1>2 DEF ReadOK, InOrder
  <2> QED BY <1>1, <1>2, <2>1, <2>2 DEF ReadOK, BuffersOK
<1>3. CASE reading # c
  <2>1. Before(c) = <<>> /\ Earlier(c) = <<>>
    BY <1>3 DEF Before, Earlier, Cleared, Silent
  <2> QED BY <2>1, EmptySeq, NothingAnswered
<1> QED BY <1>2, <1>3

\* What a handler sends is added to what the read has so far.
LEMMA SendIs ==
    ASSUME IInv, NEW c \in Conns, NEW r, r.cmd \in Commands, r.id \in MsgIds,
           NEW msgs, Answers(msgs, r, Joins \cup Other), Send(c, r, msgs)
    PROVE  /\ ReadOK' /\ reading' = c /\ Runs(r.cmd)
           /\ \A kind, a : AllAbout(msgs, kind, a) => \A m \in About(kind) : m.about = a
           /\ \A kind : Answers(msgs, r, Other) /\ kind \notin Other => About(kind) = {}
<1> DEFINE b == Before(c)
           q == Earlier(c)
           e == [cmd |-> r.cmd, id |-> r.id]
<1>1. msgs \in Seq(Message) /\ b \in Seq(Message) /\ q \in Seq(Handled) /\ AnswersTo(b, q)
  BY BeforeIs DEF Answers
<1>2. out' = [out EXCEPT ![c] = b \o msgs] /\ asked' = Append(q, e) /\ reading' = c
  BY DEF Send
<1>3. out \in [Conns -> Seq(Message)]
  BY DEF IInv, BuffersOK
<1>4. AnswersTo(b \o msgs, Append(q, e))
  BY <1>1, AnswersGrow
<1>5. e \in Handled /\ e.cmd = r.cmd
  BY DEF Handled
<1> HIDE DEF b, q, e
<1>6. b \o msgs \in Seq(Message)
  BY <1>1, ConcatProperties
<1>7. out'[c] = b \o msgs /\ out' \in [Conns -> Seq(Message)]
  BY <1>2, <1>3, <1>6
<1>8. asked' \in Seq(Handled) /\ asked'[Len(asked')] = e
  BY <1>1, <1>2, <1>5, AppendProperties
<1>9. ReadOK'
  BY <1>2, <1>4, <1>7, <1>8 DEF ReadOK, BuffersOK, InOrder
<1>10. Runs(r.cmd)
  BY <1>5, <1>8 DEF Runs, Handling
<1>11. Told = {out'[c][n] : n \in Len(Before(c)) + 1..Len(out'[c])}
  BY <1>2, Zenon DEF Told
<1>12. ASSUME NEW n \in Len(b) + 1..Len(b \o msgs)
       PROVE  n - Len(b) \in DOMAIN msgs /\ (b \o msgs)[n] = msgs[n - Len(b)]
  BY <1>1, ConcatProperties, LenProperties
<1>13. \A m \in Told : \E n \in DOMAIN msgs : m = msgs[n]
  BY <1>7, <1>11, <1>12 DEF b
<1>14. \A kind : \A m \in About(kind) :
         \E n \in DOMAIN msgs : m = msgs[n] /\ msgs[n].cmd = kind /\ msgs[n].type = "notification"
  BY <1>13 DEF About
<1>15. \A kind, a : AllAbout(msgs, kind, a) => \A m \in About(kind) : m.about = a
  BY <1>14 DEF AllAbout
<1>16. \A kind : Answers(msgs, r, Other) /\ kind \notin Other => About(kind) = {}
  BY <1>14 DEF Answers
<1> QED BY <1>2, <1>9, <1>10, <1>15, <1>16

\* Where no request is handled nothing is told.
LEMMA QuietIs ==
    ASSUME IInv, out' \in [Conns -> Seq(Message)],
           \/ reading' = None /\ asked' \in {asked, <<>>}
           \/ UNCHANGED <<out, reading, asked>>
    PROVE  ReadOK' /\ ChangesToldTruly
<1>1. ReadOK
  BY IInvParts
<1>2. asked' \in Seq(Handled) /\ reading' \in Conns \cup {None}
  BY <1>1, EmptySeq DEF ReadOK
<1>3. InOrder'
  BY <1>1 DEF ReadOK, InOrder
<1>4. ReadOK'
  BY <1>2, <1>3 DEF ReadOK, BuffersOK
<1>5. \A cmds : ~Handling(cmds)
  BY DEF Handling
<1> QED BY <1>4, <1>5 DEF ChangesToldTruly

\* What is said of others than those who join is not in question, but for two
\* commands.
LEMMA OthersAreTrue ==
    ASSUME IInv, NEW c \in Conns, NEW r, r.cmd \in Commands, r.id \in MsgIds,
           r.cmd \notin {"FinalizeGameCreation", "RemovePlayer"},
           NEW msgs, Answers(msgs, r, Other), Send(c, r, msgs)
    PROVE  ReadOK' /\ ChangesToldTruly
<1>1. Answers(msgs, r, Joins \cup Other)
  BY DEF Answers
<1>2. /\ ReadOK' /\ Runs(r.cmd)
      /\ \A kind : kind \notin Other => About(kind) = {}
  BY <1>1, SendIs
<1>3. About("NotifyPlayerJoining") = {} /\ About("NotifyRoomMemberJoined") = {}
  BY <1>2 DEF Other
<1> QED BY <1>2, <1>3 DEF ChangesToldTruly, Runs
----------------------------------------------------------------------------
\* The state.

LEMMA UsersAreNumbers == Users \subseteq Nat \ {0} /\ None \notin Users /\ Down \notin Users
BY LobbyAssumption DEF Users, None, Down

LEMMA ObjectsHaveFields ==
    ASSUME NEW b \in {Free} \cup UserObject, b # Free
    PROVE  b \in UserObject /\ b.id \in Ids /\ b.room \in Nat /\ b.game \in Nat
BY DEF UserObject

LEMMA ObjectsAreNotFree == ASSUME NEW b \in UserObject PROVE b # Free
<1>1. DOMAIN b = {"id", "room", "game"} /\ DOMAIN Free = {"id"}
  BY DEF UserObject, Free
<1> QED BY <1>1

LEMMA HeldIsLive ==
    ASSUME StateOK, NEW o \in Users, Held(o, registered, conn, game)
    PROVE  Live(o)
<1>1. CASE \E i \in Ids : registered[i] = o
  BY <1>1, UsersAreNumbers DEF StateOK, PointersLive
<1>2. CASE \E c \in Conns : conn[c] = o
  <2>1. PICK c \in Conns : conn[c] = o
    BY <1>2
  <2>2. conn[c] > 0
    BY <2>1, UsersAreNumbers
  <2> QED BY <2>1, <2>2 DEF StateOK, PointersLive, HasUser
<1>3. CASE \E n \in 1..Len(game) : \E i \in Ids : game[n].players[i] = o
  BY <1>3, UsersAreNumbers DEF StateOK, PointersLive
<1> QED BY <1>1, <1>2, <1>3 DEF Held

\* Settle frees what nothing holds and keeps everything else.
LEMMA SettleIs ==
    ASSUME StateOK, NEW u \in [Users -> {Free} \cup UserObject],
           NEW reg \in [Ids -> {None} \cup Users], NEW con \in [Conns -> {Down, None} \cup Users],
           NEW g \in Seq(Game), Settle(u, reg, con, g),
           UNCHANGED <<accepting, room, category, views>>,
           \A o \in Users : Held(o, reg, con, g) => u[o] # Free,
           \A o \in Users : u[o] # Free => u[o].game \in {None} \cup 1..Len(g),
           \A o \in Users : u[o] # Free /\ u[o].room # None =>
               u[o].room \in 1..Len(room) /\ room[u[o].room] \in 1..Len(category)
    PROVE  /\ StateOK' /\ registered' = reg /\ conn' = con /\ game' = g
           /\ \A o \in Users : Held(o, reg, con, g) => user'[o] = u[o]
<1>1. registered' = reg /\ conn' = con /\ game' = g
  BY DEF Settle
<1>2. /\ \A o \in Users : user'[o] = Free \/ user'[o] = u[o]
      /\ \A o \in Users : Held(o, reg, con, g) => user'[o] = u[o]
      /\ user' \in [Users -> {Free} \cup UserObject]
  BY DEF Settle
<1>3. \A o \in Users : Held(o, reg, con, g) => user'[o] # Free
  BY <1>2
<1>4. \A n \in 1..Len(g) : \A i \in Ids : g[n].players[i] \in {None} \cup Users
  <2>1. ASSUME NEW n \in 1..Len(g), NEW i \in Ids PROVE g[n].players[i] \in {None} \cup Users
    <3>1. g[n] \in Game
      BY ElementOfSeq
    <3>2. g[n].players \in [Ids -> {None} \cup Users]
      BY <3>1 DEF Game
    <3> QED BY <3>2
  <2> QED BY <2>1
<1>5. PointersLive'
  <2>1. ASSUME NEW i \in Ids, reg[i] # None PROVE user'[reg[i]] # Free
    <3>1. reg[i] \in Users /\ Held(reg[i], reg, con, g)
      BY <2>1 DEF Held
    <3> QED BY <1>3, <3>1
  <2>2. ASSUME NEW c \in Conns, con[c] > 0 PROVE user'[con[c]] # Free
    <3>1. con[c] \in Users /\ Held(con[c], reg, con, g)
      BY <2>2 DEF Held, None, Down
    <3> QED BY <1>3, <3>1
  <2>3. ASSUME NEW n \in 1..Len(g), NEW i \in Ids, g[n].players[i] # None
        PROVE  user'[g[n].players[i]] # Free
    <3>1. g[n].players[i] \in Users /\ Held(g[n].players[i], reg, con, g)
      BY <1>4, <2>3 DEF Held
    <3> QED BY <1>3, <3>1
  <2> QED BY <1>1, <2>1, <2>2, <2>3 DEF PointersLive, Live, HasUser
<1>6. GamesExist'
  BY <1>1, <1>2 DEF GamesExist, Live
<1>7. RoomsExist' /\ CategoriesHaveViews'
  BY <1>2 DEF RoomsExist, CategoriesHaveViews, Live, StateOK
<1>8. /\ accepting' \in BOOLEAN /\ room' \in Seq(Nat) /\ category' \in Seq(Nat) /\ views' \in Nat
  BY DEF StateOK
<1> QED BY <1>1, <1>2, <1>5, <1>6, <1>7, <1>8 DEF StateOK

LEMMA Stays == ASSUME StateOK, UNCHANGED state PROVE StateOK'
BY DEF StateOK, state, PointersLive, GamesExist, RoomsExist, CategoriesHaveViews, Live, HasUser

\* What a user object has, as the state stands.
LEMMA ObjectIs ==
    ASSUME StateOK, NEW o \in Users, user[o] # Free
    PROVE  /\ user[o] \in UserObject /\ user[o].game \in {None} \cup 1..Len(game)
           /\ user[o].room # None =>
                  user[o].room \in 1..Len(room) /\ room[user[o].room] \in 1..Len(category)
<1>1. user[o] \in {Free} \cup UserObject
  BY DEF StateOK
<1>2. user[o] \in UserObject
  BY <1>1
<1>3. user[o].game \in {None} \cup 1..Len(game)
  BY DEF StateOK, GamesExist, Live
<1>4. user[o].room # None => user[o].room \in 1..Len(room) /\ room[user[o].room] \in 1..Len(category)
  BY DEF StateOK, RoomsExist, Live
<1> QED BY <1>2, <1>3, <1>4
----------------------------------------------------------------------------
\* The requests that change the state.

LEMMA AskIs ==
    ASSUME IInv, NEW c \in Conns, NEW r, Asked(r),
           r.cmd \notin {"FinalizeGameCreation", "RemovePlayer"}, Ask(c, r)
    PROVE  IInv' /\ ChangesToldTruly
<1>1. Send(c, r, Component(c, r)) /\ UNCHANGED state
  BY DEF Ask
<1>2. StateOK'
  BY <1>1, IInvParts, Stays
<1>3. Answers(Component(c, r), r, Other)
  BY ComponentAnswers
<1>4. ReadOK' /\ ChangesToldTruly
  BY <1>1, <1>3, OthersAreTrue DEF Asked
<1> QED BY <1>2, <1>4, IInvParts DEF IInv, StateOK, ReadOK, TypeOK, Handled

\* A request with no answer, or with an answer and no notification.
LEMMA PlainAnswer ==
    ASSUME NEW r, r.cmd \in Commands, r.id \in MsgIds
    PROVE  /\ Answers(Reply(r), r, Other) /\ Answers(Silent, r, Other)
           /\ \A e \in Errors : Answers(Error(r, e), r, Other)
BY AnswerIs, SilentIs DEF Errors

LEMMA LoginIs ==
    ASSUME IInv, NEW c \in Conns, NEW r, r.cmd = "Login", r.id \in MsgIds, r.to \in Ids, Login(c, r)
    PROVE  IInv' /\ ChangesToldTruly
<1> DEFINE fresh == {o \in Users : ~Live(o)}
           o == CHOOSE x \in fresh : \A y \in fresh : x <= y
<1>1. r.cmd \in Commands /\ r.cmd \notin {"FinalizeGameCreation", "RemovePlayer"}
  BY DEF Commands
<1>2. Answers(Reply(r), r, Other) /\ Answers(Error(r, "AUTH_ERR_INVALID_USER"), r, Other)
  BY <1>1, PlainAnswer DEF Errors
<1>3. StateOK
  BY IInvParts
<1>4. CASE Send(c, r, Error(r, "AUTH_ERR_INVALID_USER")) /\ UNCHANGED state
  <2>1. StateOK'
    BY <1>3, <1>4, Stays
  <2>2. ReadOK' /\ ChangesToldTruly
    BY <1>1, <1>2, <1>4, OthersAreTrue
  <2> QED BY <2>1, <2>2, IInvParts DEF IInv, StateOK, ReadOK, TypeOK, Handled
<1>5. CASE /\ fresh # {}
           /\ Settle([user EXCEPT ![o] = [id |-> r.to, room |-> None, game |-> None]],
                     [registered EXCEPT ![r.to] = o], [conn EXCEPT ![c] = o], game)
           /\ Send(c, r, Reply(r))
           /\ UNCHANGED <<accepting, room, category, views>>
  <2>1. o \in Users
    <3>1. fresh \in SUBSET Nat
      BY UsersAreNumbers
    <3>2. \E x \in fresh : \A y \in fresh : x <= y
      BY <1>5, <3>1, Least
    <3>3. o \in fresh
      BY <3>2
    <3> QED BY <3>3
  <2> HIDE DEF o, fresh
  <2> DEFINE b == [id |-> r.to, room |-> None, game |-> None]
             u == [user EXCEPT ![o] = b]
             reg == [registered EXCEPT ![r.to] = o]
             con == [conn EXCEPT ![c] = o]
  <2>2. b \in UserObject /\ b.game = None /\ b.room = None
    BY DEF UserObject, None
  <2>3. b # Free
    BY <2>2, ObjectsAreNotFree
  <2> HIDE DEF b
  <2>4. /\ u \in [Users -> {Free} \cup UserObject] /\ u[o] = b
        /\ \A x \in Users : x # o => u[x] = user[x]
    BY <2>1, <2>2, <1>3 DEF StateOK
  <2>5. /\ reg \in [Ids -> {None} \cup Users] /\ con \in [Conns -> {Down, None} \cup Users]
        /\ \A i \in Ids : reg[i] = o \/ reg[i] = registered[i]
        /\ \A x \in Conns : con[x] = o \/ con[x] = conn[x]
    BY <2>1, <1>3 DEF StateOK
  <2>6. Settle(u, reg, con, game) /\ UNCHANGED <<accepting, room, category, views>>
    BY <1>5 DEF b
  <2> HIDE DEF u, reg, con
  <2>7. ASSUME NEW x \in Users, Held(x, reg, con, game) PROVE u[x] # Free
    <3>1. CASE x = o
      BY <2>3, <2>4, <3>1
    <3>2. CASE x # o
      <4>1. Held(x, registered, conn, game)
        BY <2>5, <2>7, <3>2 DEF Held
      <4> QED BY <1>3, <2>4, <3>2, <4>1, HeldIsLive DEF Live
    <3> QED BY <3>1, <3>2
  <2>8. ASSUME NEW x \in Users, u[x] # Free
        PROVE  /\ u[x].game \in {None} \cup 1..Len(game)
               /\ u[x].room # None =>
                      u[x].room \in 1..Len(room) /\ room[u[x].room] \in 1..Len(category)
    <3>1. CASE x = o
      BY <2>2, <2>4, <3>1
    <3>2. CASE x # o
      BY <1>3, <2>4, <2>8, <3>2, ObjectIs
    <3> QED BY <3>1, <3>2
  <2>9. game \in Seq(Game)
    BY <1>3 DEF StateOK
  <2>10. StateOK'
    BY <1>3, <2>4, <2>5, <2>6, <2>7, <2>8, <2>9, SettleIs
  <2>11. ReadOK' /\ ChangesToldTruly
    BY <1>1, <1>2, <1>5, OthersAreTrue
  <2> QED BY <2>10, <2>11, IInvParts DEF IInv, StateOK, ReadOK, TypeOK, Handled
<1> QED BY <1>4, <1>5 DEF Login

LEMMA TakeOverIs ==
    ASSUME IInv, NEW c \in Conns, NEW r, r.cmd \in {"SilentLogin", "ExpressLogin"}, r.id \in MsgIds,
           r.to \in Ids, TakeOver(c, r)
    PROVE  IInv' /\ ChangesToldTruly
<1>1. r.cmd \in Commands /\ r.cmd \notin {"FinalizeGameCreation", "RemovePlayer"}
  BY DEF Commands
<1>2. Answers(Reply(r), r, Other) /\ Answers(Error(r, "AUTH_ERR_INVALID_USER"), r, Other)
  BY <1>1, PlainAnswer DEF Errors
<1>3. StateOK
  BY IInvParts
<1>4. CASE registered[r.to] = None
  <2>1. Send(c, r, Error(r, "AUTH_ERR_INVALID_USER")) /\ UNCHANGED state
    BY <1>4 DEF TakeOver
  <2>2. StateOK'
    BY <1>3, <2>1, Stays
  <2>3. ReadOK' /\ ChangesToldTruly
    BY <1>1, <1>2, <2>1, OthersAreTrue
  <2> QED BY <2>2, <2>3, IInvParts DEF IInv, StateOK, ReadOK, TypeOK, Handled
<1>5. CASE registered[r.to] # None
  <2> DEFINE con == [conn EXCEPT ![c] = registered[r.to]]
  <2>1. /\ Settle(user, registered, con, game) /\ Send(c, r, Reply(r))
        /\ UNCHANGED <<accepting, room, category, views>>
    BY <1>5 DEF TakeOver
  <2>2. registered[r.to] \in Users
    BY <1>3, <1>5 DEF StateOK
  <2>3. /\ con \in [Conns -> {Down, None} \cup Users]
        /\ \A x \in Conns : con[x] = registered[r.to] \/ con[x] = conn[x]
    BY <1>3, <2>2 DEF StateOK
  <2> HIDE DEF con
  <2>4. ASSUME NEW x \in Users, Held(x, registered, con, game) PROVE user[x] # Free
    <3>1. Held(x, registered, conn, game)
      BY <2>3, <2>4 DEF Held
    <3> QED BY <1>3, <3>1, HeldIsLive DEF Live
  <2>5. \A x \in Users : user[x] # Free =>
          /\ user[x].game \in {None} \cup 1..Len(game)
          /\ user[x].room # None =>
                 user[x].room \in 1..Len(room) /\ room[user[x].room] \in 1..Len(category)
    BY <1>3, ObjectIs
  <2>6. /\ user \in [Users -> {Free} \cup UserObject] /\ game \in Seq(Game)
        /\ registered \in [Ids -> {None} \cup Users]
    BY <1>3 DEF StateOK
  <2>7. StateOK'
    BY <1>3, <2>1, <2>3, <2>4, <2>5, <2>6, SettleIs
  <2>8. ReadOK' /\ ChangesToldTruly
    BY <1>1, <1>2, <2>1, OthersAreTrue
  <2> QED BY <2>7, <2>8, IInvParts DEF IInv, StateOK, ReadOK, TypeOK, Handled
<1> QED BY <1>4, <1>5

LEMMA LogoutIs ==
    ASSUME IInv, NEW c \in Conns, NEW r, r.cmd = "Logout", r.id \in MsgIds, Logout(c, r)
    PROVE  IInv' /\ ChangesToldTruly
<1>1. r.cmd \in Commands /\ r.cmd \notin {"FinalizeGameCreation", "RemovePlayer"}
  BY DEF Commands
<1>2. StateOK
  BY IInvParts
<1>3. StateOK'
  <2>1. CASE ~HasUser(c)
    BY <1>2, <2>1, Stays DEF Logout
  <2>2. CASE HasUser(c)
    <3> DEFINE reg == [registered EXCEPT ![Id(c)] = None]
    <3>1. Settle(user, reg, conn, game) /\ UNCHANGED <<accepting, room, category, views>>
      BY <2>2 DEF Logout
    <3>2. /\ reg \in [Ids -> {None} \cup Users]
          /\ \A i \in Ids : reg[i] = None \/ reg[i] = registered[i]
      BY <1>2 DEF StateOK
    <3> HIDE DEF reg
    <3>3. ASSUME NEW x \in Users, Held(x, reg, conn, game) PROVE user[x] # Free
      <4>1. Held(x, registered, conn, game)
        BY <3>2, <3>3, UsersAreNumbers DEF Held
      <4> QED BY <1>2, <4>1, HeldIsLive DEF Live
    <3>4. \A x \in Users : user[x] # Free =>
            /\ user[x].game \in {None} \cup 1..Len(game)
            /\ user[x].room # None =>
                   user[x].room \in 1..Len(room) /\ room[user[x].room] \in 1..Len(category)
      BY <1>2, ObjectIs
    <3>5. /\ user \in [Users -> {Free} \cup UserObject] /\ game \in Seq(Game)
          /\ conn \in [Conns -> {Down, None} \cup Users]
      BY <1>2 DEF StateOK
    <3> QED BY <1>2, <3>1, <3>2, <3>3, <3>4, <3>5, SettleIs
  <2> QED BY <2>1, <2>2
<1>4. ReadOK' /\ ChangesToldTruly
  <2>1. Send(c, r, Silent) /\ Answers(Silent, r, Other)
    BY <1>1, PlainAnswer DEF Logout
  <2> QED BY <1>1, <2>1, OthersAreTrue
<1> QED BY <1>3, <1>4, IInvParts DEF IInv, StateOK, ReadOK, TypeOK, Handled

LEMMA DisconnectIs ==
    ASSUME IInv, NEW c \in Conns, Disconnect(c)
    PROVE  IInv' /\ ChangesToldTruly
<1> DEFINE con == [conn EXCEPT ![c] = Down]
<1>1. Settle(user, registered, con, game) /\ UNCHANGED <<accepting, room, category, views>>
  BY DEF Disconnect
<1>2. StateOK
  BY IInvParts
<1>3. /\ con \in [Conns -> {Down, None} \cup Users]
      /\ \A x \in Conns : con[x] = Down \/ con[x] = conn[x]
  BY <1>2 DEF StateOK
<1> HIDE DEF con
<1>4. ASSUME NEW x \in Users, Held(x, registered, con, game) PROVE user[x] # Free
  <2>1. Held(x, registered, conn, game)
    BY <1>3, <1>4, UsersAreNumbers DEF Held
  <2> QED BY <1>2, <2>1, HeldIsLive DEF Live
<1>5. \A x \in Users : user[x] # Free =>
        /\ user[x].game \in {None} \cup 1..Len(game)
        /\ user[x].room # None =>
               user[x].room \in 1..Len(room) /\ room[user[x].room] \in 1..Len(category)
  BY <1>2, ObjectIs
<1>6. /\ user \in [Users -> {Free} \cup UserObject] /\ game \in Seq(Game)
      /\ registered \in [Ids -> {None} \cup Users]
  BY <1>2 DEF StateOK
<1>7. StateOK'
  BY <1>1, <1>2, <1>3, <1>4, <1>5, <1>6, SettleIs
<1>8. ReadOK' /\ ChangesToldTruly
  <2>1. reading' = None /\ asked' = <<>> /\ out' \in [Conns -> Seq(Message)]
    BY DEF Disconnect, IInv, BuffersOK
  <2> QED BY <2>1, QuietIs
<1> QED BY <1>7, <1>8 DEF IInv, StateOK, ReadOK, TypeOK, Handled

\* Who is removed is out of the game that was named, and the registered user of
\* the account in none.
LEMMA RemovePlayerIs ==
    ASSUME IInv, NEW c \in Conns, NEW r, r.cmd = "RemovePlayer", r.id \in MsgIds,
           r.to \in Nat, r.player \in Ids, RemovePlayer(c, r)
    PROVE  IInv' /\ ChangesToldTruly
<1> DEFINE i == r.player
           g == IF Exists(r.to, game) THEN [game EXCEPT ![r.to].players[i] = None] ELSE game
           u == Left(i)
           msgs == Reply(r) \o NotifyPlayerRemoved(r.to, i)
<1>1. /\ Settle(u, registered, conn, g) /\ Send(c, r, msgs)
      /\ UNCHANGED <<accepting, room, category, views>>
  BY DEF RemovePlayer
<1>2. StateOK
  BY IInvParts
<1>3. /\ g \in Seq(Game) /\ Len(g) = Len(game)
      /\ \A n \in 1..Len(game) : \A x \in Ids :
             g[n].players[x] = None \/ g[n].players[x] = game[n].players[x]
      /\ r.to \in 1..Len(game) => g[r.to].players[i] = None
  <2>1. CASE ~ (r.to \in 1..Len(game))
    BY <1>2, <2>1 DEF Exists, StateOK
  <2>2. CASE r.to \in 1..Len(game)
    <3> DEFINE n == r.to
               old == game[n]
               new == [old EXCEPT !.players[i] = None]
    <3>1. game \in Seq(Game) /\ old \in Game
      BY <1>2, <2>2, ElementOfSeq DEF StateOK
    <3>2. g = [game EXCEPT ![n] = new]
      BY <2>2 DEF Exists
    <3> HIDE DEF old
    <3>3. old.players \in [Ids -> {None} \cup Users] /\ old.running \in BOOLEAN
          /\ old = [running |-> old.running, players |-> old.players]
      BY <3>1 DEF Game
    <3> DEFINE p == [old.players EXCEPT ![i] = None]
    <3>4. p \in [Ids -> {None} \cup Users] /\ p[i] = None
          /\ \A x \in Ids : p[x] = None \/ p[x] = old.players[x]
      BY <3>3
    <3>5. new = [old EXCEPT !.players = p]
      OBVIOUS
    <3> HIDE DEF p, new
    <3>6. new \in Game /\ new.players = p
      BY <3>1, <3>4, <3>5 DEF Game
    <3> HIDE DEF g, n
    <3>7. n \in 1..Len(game)
      BY <2>2 DEF n
    <3>8. /\ g \in Seq(Game) /\ Len(g) = Len(game)
          /\ \A x \in 1..Len(game) : g[x] = IF x = n THEN new ELSE game[x]
      BY <3>1, <3>2, <3>6, <3>7, ExceptSeq
    <3>9. g[n].players[i] = None
      BY <3>4, <3>6, <3>7, <3>8
    <3>10. ASSUME NEW m \in 1..Len(game), NEW x \in Ids
           PROVE  g[m].players[x] = None \/ g[m].players[x] = game[m].players[x]
      BY <3>4, <3>6, <3>8 DEF old
    <3> QED BY <3>8, <3>9, <3>10 DEF n
  <2> QED BY <2>1, <2>2
<1>4. /\ u \in [Users -> {Free} \cup UserObject]
      /\ \A x \in Users : u[x] = Free <=> user[x] = Free
      /\ \A x \in Users : user[x] # Free =>
             /\ u[x].game \in {None, user[x].game} /\ u[x].room = user[x].room
             /\ x = registered[i] => u[x].game = None
  <2>1. user \in [Users -> {Free} \cup UserObject]
    BY <1>2 DEF StateOK
  <2>2. CASE registered[i] = None
    BY <2>1, <2>2, UsersAreNumbers DEF Left
  <2>3. CASE registered[i] # None
    <3> DEFINE o == registered[i]
               b == user[o]
               d == [b EXCEPT !.game = None]
    <3>1. o \in Users /\ b # Free
      BY <1>2, <2>3 DEF StateOK, PointersLive, Live
    <3>2. b \in UserObject
      BY <3>1, <1>2, ObjectIs
    <3>3. u = [user EXCEPT ![o] = d]
      BY <2>3 DEF Left, InGame
    <3> HIDE DEF o, b
    <3>4. d \in UserObject /\ d.game = None /\ d.room = b.room
      BY <3>2 DEF UserObject, None
    <3>5. d # Free
      BY <3>4, ObjectsAreNotFree
    <3> HIDE DEF d, u
    <3>6. /\ u \in [Users -> {Free} \cup UserObject] /\ u[o] = d
          /\ \A x \in Users : x # o => u[x] = user[x]
      BY <2>1, <3>1, <3>3, <3>4
    <3> QED BY <3>1, <3>4, <3>5, <3>6 DEF o, b
  <2> QED BY <2>2, <2>3
<1> HIDE DEF g, u
<1>5. ASSUME NEW x \in Users, Held(x, registered, conn, g) PROVE u[x] # Free
  <2>1. Held(x, registered, conn, game)
    BY <1>3, <1>5, UsersAreNumbers DEF Held
  <2> QED BY <1>2, <1>4, <2>1, HeldIsLive DEF Live
<1>6. ASSUME NEW x \in Users, u[x] # Free
      PROVE  /\ u[x].game \in {None} \cup 1..Len(g)
             /\ u[x].room # None =>
                    u[x].room \in 1..Len(room) /\ room[u[x].room] \in 1..Len(category)
  BY <1>2, <1>3, <1>4, <1>6, ObjectIs
<1>7. registered \in [Ids -> {None} \cup Users] /\ conn \in [Conns -> {Down, None} \cup Users]
  BY <1>2 DEF StateOK
<1>8. /\ StateOK' /\ registered' = registered /\ game' = g
      /\ \A x \in Users : Held(x, registered, conn, g) => user'[x] = u[x]
  BY <1>1, <1>2, <1>3, <1>4, <1>5, <1>6, <1>7, SettleIs
<1>9. r.cmd \in Commands /\ r.to \in Numbers /\ i \in Numbers
  BY DEF Commands, Numbers
<1>10. Answers(msgs, r, Joins \cup Other) /\ Answers(msgs, r, Other)
  <2>1. Answers(Reply(r), r, Other)
    BY <1>9, PlainAnswer
  <2>2. AreNotes(NotifyPlayerRemoved(r.to, i), Other)
    BY <1>9, NotesAre
  <2>3. Answers(msgs, r, Other)
    BY <2>1, <2>2, AnswerJoins
  <2> QED BY <2>3 DEF Answers
<1>11. AllAbout(msgs, "NotifyPlayerRemoved", <<r.to, i>>)
  <2>1. AllAbout(NotifyPlayerRemoved(r.to, i), "NotifyPlayerRemoved", <<r.to, i>>)
    BY NoteAbout DEF NotifyPlayerRemoved
  <2>2. AllAbout(Reply(r), "NotifyPlayerRemoved", <<r.to, i>>)
    BY ReplyAbout
  <2>3. Reply(r) \in Seq(Message) /\ NotifyPlayerRemoved(r.to, i) \in Seq(Message)
    BY <1>9, PlainAnswer, NotesAre DEF Answers, AreNotes
  <2> QED BY <2>1, <2>2, <2>3, AboutJoins
<1> HIDE DEF msgs
<1>12. /\ ReadOK' /\ Runs("RemovePlayer")
       /\ \A m \in About("NotifyPlayerRemoved") : m.about = <<r.to, i>>
       /\ About("NotifyPlayerJoining") = {} /\ About("NotifyRoomMemberJoined") = {}
  <2>1. "NotifyPlayerJoining" \notin Other /\ "NotifyRoomMemberJoined" \notin Other
    BY DEF Other
  <2> QED BY <1>1, <1>9, <1>10, <1>11, <2>1, SendIs
<1>13. registered'[i] # None => user'[registered'[i]].game = None
  <2>1. SUFFICES ASSUME registered[i] # None PROVE user'[registered[i]].game = None
    BY <1>8
  <2>2. registered[i] \in Users /\ user[registered[i]] # Free
    BY <1>2, <2>1 DEF StateOK, PointersLive, Live
  <2>3. Held(registered[i], registered, conn, g)
    BY DEF Held
  <2> QED BY <1>4, <1>8, <2>2, <2>3
<1>14. r.to \in 1..Len(game') => game'[r.to].players[i] = None
  BY <1>3, <1>8
<1>15. ChangesToldTruly
  <2>1. <<r.to, i>>[1] = r.to /\ <<r.to, i>>[2] = i
    OBVIOUS
  <2> HIDE DEF i
  <2> QED BY <1>12, <1>13, <1>14, <2>1 DEF ChangesToldTruly, Runs
<1> QED BY <1>8, <1>12, <1>15 DEF IInv, StateOK, ReadOK, TypeOK, Handled

\* The user that a connection has goes to another game.
LEMMA InGameIs ==
    ASSUME StateOK, NEW o \in Users, Live(o), NEW g \in Nat
    PROVE  /\ InGame(o, g) \in [Users -> {Free} \cup UserObject] /\ InGame(o, g)[o].game = g
           /\ \A x \in Users : /\ InGame(o, g)[x] = Free <=> user[x] = Free
                               /\ x # o => InGame(o, g)[x] = user[x]
                               /\ user[x] # Free => InGame(o, g)[x].room = user[x].room
<1> DEFINE b == user[o]
           d == [b EXCEPT !.game = g]
<1>1. user \in [Users -> {Free} \cup UserObject] /\ b # Free
  BY DEF StateOK, Live
<1>2. b \in UserObject
  BY <1>1, ObjectIs
<1>3. InGame(o, g) = [user EXCEPT ![o] = d]
  BY DEF InGame
<1> HIDE DEF b
<1>4. d \in UserObject /\ d.game = g /\ d.room = b.room
  BY <1>2 DEF UserObject
<1>5. d # Free
  BY <1>4, ObjectsAreNotFree
<1> HIDE DEF d
<1>6. /\ InGame(o, g) \in [Users -> {Free} \cup UserObject] /\ InGame(o, g)[o] = d
      /\ \A x \in Users : x # o => InGame(o, g)[x] = user[x]
  BY <1>1, <1>3, <1>4
<1> QED BY <1>1, <1>4, <1>5, <1>6 DEF b

\* What refers to objects refers to living ones, as long as none is freed.
LEMMA KeepsLive ==
    ASSUME StateOK, UNCHANGED <<conn, registered>>,
           \A x \in Users : user[x] # Free => user'[x] # Free,
           \A n \in 1..Len(game') : \A i \in Ids :
               game'[n].players[i] # None =>
                   game'[n].players[i] \in Users /\ user[game'[n].players[i]] # Free
    PROVE  PointersLive'
<1>1. ASSUME NEW i \in Ids, registered[i] # None PROVE user'[registered[i]] # Free
  BY <1>1 DEF StateOK, PointersLive, Live
<1>2. ASSUME NEW c \in Conns, conn[c] > 0 PROVE user'[conn[c]] # Free
  <2>1. conn[c] \in {Down, None} \cup Users
    BY DEF StateOK
  <2>2. conn[c] \in Users
    BY <1>2, <2>1 DEF None, Down
  <2> QED BY <1>2, <2>2 DEF StateOK, PointersLive, Live, HasUser
<1> QED BY <1>1, <1>2 DEF PointersLive, Live, HasUser

LEMMA PlayersAreLive ==
    ASSUME StateOK, NEW n \in 1..Len(game), NEW i \in Ids
    PROVE  /\ game[n] \in Game /\ game[n].players[i] \in {None} \cup Users
           /\ game[n].players[i] # None => user[game[n].players[i]] # Free
<1>1. game \in Seq(Game)
  BY DEF StateOK
<1>2. game[n] \in Game
  BY <1>1, ElementOfSeq
<1>3. game[n].players \in [Ids -> {None} \cup Users]
  BY <1>2 DEF Game
<1>4. game[n].players[i] # None => user[game[n].players[i]] # Free
  BY DEF StateOK, PointersLive, Live
<1> QED BY <1>2, <1>3, <1>4

LEMMA JoinNotes ==
    ASSUME NEW g \in Numbers, NEW i \in Numbers
    PROVE  /\ AreNotes(NotifyPlayerJoining(g), Joins \cup Other)
           /\ AreNotes(NotifyRoomMemberJoined(g, i), Joins \cup Other)
<1>1. /\ g \in Subject /\ <<g, i>> \in Subject
      /\ "NotifyPlayerJoining" \in Joins \cup Other /\ "NotifyRoomMemberJoined" \in Joins \cup Other
  BY DEF Subject, Joins
<1> QED BY <1>1, NoteIs DEF NotifyPlayerJoining, NotifyRoomMemberJoined

LEMMA JoinGameIs ==
    ASSUME IInv, NEW c \in Conns, NEW r, r.cmd = "JoinGame", r.id \in MsgIds, r.to \in Nat,
           JoinGame(c, r)
    PROVE  IInv' /\ ChangesToldTruly
<1> DEFINE g == r.to
           msgs == Reply(r) \o NotifyPlayerJoining(g)
<1>1. StateOK
  BY IInvParts
<1>2. r.cmd \in Commands /\ r.cmd \notin {"FinalizeGameCreation", "RemovePlayer"} /\ g \in Numbers
  BY DEF Commands, Numbers
<1>3. CASE Send(c, r, Silent) /\ UNCHANGED state
  <2>1. StateOK'
    BY <1>1, <1>3, Stays
  <2>2. Answers(Silent, r, Other)
    BY <1>2, PlainAnswer
  <2>3. ReadOK' /\ ChangesToldTruly
    BY <1>2, <1>3, <2>2, OthersAreTrue
  <2> QED BY <2>1, <2>3 DEF IInv, StateOK, ReadOK, TypeOK, Handled
<1>4. CASE HasUser(c) /\ Exists(g, game) /\ ~ (Send(c, r, Silent) /\ UNCHANGED state)
  <2> DEFINE o == conn[c]
  <2>1. /\ user' = InGame(o, g) /\ Send(c, r, msgs)
        /\ UNCHANGED <<accepting, conn, registered, room, category, views, game>>
    BY <1>4 DEF JoinGame, Who
  <2>2. o \in Users /\ Live(o) /\ g \in 1..Len(game)
    BY <1>4, IdOf DEF Exists
  <2>3. /\ user' \in [Users -> {Free} \cup UserObject] /\ user'[o].game = g
        /\ \A x \in Users : /\ user'[x] = Free <=> user[x] = Free
                            /\ x # o => user'[x] = user[x]
                            /\ user[x] # Free => user'[x].room = user[x].room
    BY <1>1, <2>1, <2>2, InGameIs
  <2>4. PointersLive'
    <3>1. \A n \in 1..Len(game) : \A i \in Ids : game[n].players[i] # None =>
              game[n].players[i] \in Users /\ user[game[n].players[i]] # Free
      BY <1>1, PlayersAreLive
    <3> QED BY <1>1, <2>1, <2>3, <3>1, KeepsLive
  <2>5. GamesExist'
    BY <1>1, <2>1, <2>2, <2>3 DEF StateOK, GamesExist, Live
  <2>6. RoomsExist' /\ CategoriesHaveViews'
    BY <1>1, <2>1, <2>3 DEF StateOK, RoomsExist, CategoriesHaveViews, Live
  <2>7. StateOK'
    BY <1>1, <2>1, <2>3, <2>4, <2>5, <2>6 DEF StateOK
  <2>8. Answers(msgs, r, Joins \cup Other)
    <3>1. AreNotes(NotifyPlayerJoining(g), Joins \cup Other)
      BY <1>2, JoinNotes
    <3>2. Answers(Reply(r), r, Joins \cup Other)
      BY <1>2, AnswerIs DEF Errors
    <3> QED BY <3>1, <3>2, AnswerJoins
  <2>9. AllAbout(msgs, "NotifyPlayerJoining", g)
        /\ \A a : AllAbout(msgs, "NotifyRoomMemberJoined", a)
    <3>1. AllAbout(NotifyPlayerJoining(g), "NotifyPlayerJoining", g)
      BY NoteAbout DEF NotifyPlayerJoining
    <3>2. \A a : AllAbout(NotifyPlayerJoining(g), "NotifyRoomMemberJoined", a)
      BY NoteAbout DEF NotifyPlayerJoining
    <3>3. \A kind, a : AllAbout(Reply(r), kind, a)
      BY ReplyAbout
    <3>4. Reply(r) \in Seq(Message) /\ NotifyPlayerJoining(g) \in Seq(Message)
      BY <1>2, JoinNotes, PlainAnswer DEF Answers, AreNotes
    <3> QED BY <3>1, <3>2, <3>3, <3>4, AboutJoins
  <2> HIDE DEF msgs
  <2>10. /\ ReadOK' /\ reading' = c /\ Runs("JoinGame")
         /\ \A m \in About("NotifyPlayerJoining") : m.about = g
         /\ \A a : \A m \in About("NotifyRoomMemberJoined") : m.about = a
    BY <1>2, <2>1, <2>8, <2>9, SendIs
  <2>11. About("NotifyRoomMemberJoined") = {}
    <3>1. \A m \in About("NotifyRoomMemberJoined") : m.about = 0 /\ m.about = 1
      BY <2>10
    <3> QED BY <3>1
  <2>12. ChangesToldTruly
    BY <2>1, <2>3, <2>10, <2>11 DEF ChangesToldTruly, Runs
  <2> QED BY <2>7, <2>10, <2>12 DEF IInv, StateOK, ReadOK, TypeOK, Handled
<1> QED BY <1>3, <1>4 DEF JoinGame

\* A new game gets the next id; its players are yet to come.
LEMMA ResetIs ==
    ASSUME IInv, NEW c \in Conns, NEW r, r.cmd = "ResetDedicatedServer", r.id \in MsgIds,
           ResetDedicatedServer(c, r)
    PROVE  IInv' /\ ChangesToldTruly
<1> DEFINE g == Len(game) + 1
           msgs == Reply(r) \o NotifyGameCreated(g) \o NotifyGameSetup(c, g) \o NotifyPlayerJoining(g)
<1>1. StateOK
  BY IInvParts
<1>2. game \in Seq(Game) /\ Len(game) \in Nat /\ g \in Nat
  BY <1>1, LenProperties DEF StateOK
<1>3. r.cmd \in Commands /\ r.cmd \notin {"FinalizeGameCreation", "RemovePlayer"} /\ g \in Numbers
  BY <1>2 DEF Commands, Numbers
<1>4. CASE ~HasUser(c)
  <2>1. Send(c, r, Silent) /\ UNCHANGED state
    BY <1>4 DEF ResetDedicatedServer
  <2>2. StateOK'
    BY <1>1, <2>1, Stays
  <2>3. Answers(Silent, r, Other)
    BY <1>3, PlainAnswer
  <2>4. ReadOK' /\ ChangesToldTruly
    BY <1>3, <2>1, <2>3, OthersAreTrue
  <2> QED BY <2>2, <2>4 DEF IInv, StateOK, ReadOK, TypeOK, Handled
<1>5. CASE HasUser(c)
  <2> DEFINE o == conn[c]
             new == [running |-> FALSE, players |-> [i \in Ids |-> None]]
  <2>1. /\ user' = InGame(o, g) /\ game' = Append(game, new) /\ Send(c, r, msgs)
        /\ UNCHANGED <<accepting, conn, registered, room, category, views>>
    BY <1>5 DEF ResetDedicatedServer, Who
  <2>2. o \in Users /\ Live(o)
    BY <1>5, IdOf
  <2>3. /\ user' \in [Users -> {Free} \cup UserObject] /\ user'[o].game = g
        /\ \A x \in Users : /\ user'[x] = Free <=> user[x] = Free
                            /\ x # o => user'[x] = user[x]
                            /\ user[x] # Free => user'[x].room = user[x].room
    BY <1>1, <1>2, <2>1, <2>2, InGameIs
  <2>4. new \in Game /\ \A i \in Ids : new.players[i] = None
    BY DEF Game
  <2> HIDE DEF new
  <2>5. /\ game' \in Seq(Game) /\ Len(game') = Len(game) + 1 /\ game'[Len(game) + 1] = new
        /\ \A n \in 1..Len(game) : game'[n] = game[n]
    BY <1>2, <2>1, <2>4, AppendProperties
  <2>6. PointersLive'
    <3>1. ASSUME NEW n \in 1..Len(game'), NEW i \in Ids, game'[n].players[i] # None
          PROVE  game'[n].players[i] \in Users /\ user[game'[n].players[i]] # Free
      <4>1. n \in 1..Len(game) /\ game'[n] = game[n]
        BY <1>2, <2>4, <2>5, <3>1
      <4> QED BY <1>1, <3>1, <4>1, PlayersAreLive
    <3> QED BY <1>1, <2>1, <2>3, <3>1, KeepsLive
  <2>7. GamesExist'
    <3>1. ASSUME NEW x \in Users, user'[x] # Free PROVE user'[x].game \in {None} \cup 1..Len(game')
      <4>1. CASE x = o
        BY <1>2, <2>3, <2>5, <4>1
      <4>2. CASE x # o
        BY <1>1, <1>2, <2>3, <2>5, <3>1, <4>2, ObjectIs
      <4> QED BY <4>1, <4>2
    <3> QED BY <3>1 DEF GamesExist, Live
  <2>8. RoomsExist' /\ CategoriesHaveViews'
    BY <1>1, <2>1, <2>3 DEF StateOK, RoomsExist, CategoriesHaveViews, Live
  <2>9. StateOK'
    BY <1>1, <2>1, <2>3, <2>5, <2>6, <2>7, <2>8 DEF StateOK
  <2> DEFINE a == Reply(r)
             b == NotifyGameCreated(g)
             d == NotifyGameSetup(c, g)
             e == NotifyPlayerJoining(g)
  <2>10. AreNotes(b, Joins \cup Other) /\ AreNotes(d, Joins \cup Other) /\ AreNotes(e, Joins \cup Other)
         /\ Answers(a, r, Joins \cup Other)
    <3>1. g \in Subject /\ {"NotifyGameCreated", "NotifyGameSetup"} \subseteq Joins \cup Other
      BY <1>3 DEF Subject, Other
    <3>2. AreNotes(Note("NotifyGameCreated", g), Joins \cup Other)
          /\ AreNotes(Note("NotifyGameSetup", g), Joins \cup Other)
      BY <3>1, NoteIs
    <3> QED BY <1>3, <3>2, SilentIs, JoinNotes, AnswerIs DEF NotifyGameCreated, NotifyGameSetup, IfUser, Errors
  <2>11. /\ AllAbout(a, "NotifyPlayerJoining", g) /\ AllAbout(b, "NotifyPlayerJoining", g)
         /\ AllAbout(d, "NotifyPlayerJoining", g) /\ AllAbout(e, "NotifyPlayerJoining", g)
         /\ \A x : /\ AllAbout(a, "NotifyRoomMemberJoined", x) /\ AllAbout(b, "NotifyRoomMemberJoined", x)
                   /\ AllAbout(d, "NotifyRoomMemberJoined", x) /\ AllAbout(e, "NotifyRoomMemberJoined", x)
    BY NoteAbout, ReplyAbout DEF NotifyGameCreated, NotifyGameSetup, NotifyPlayerJoining, IfUser
  <2>12. msgs = a \o b \o d \o e
    OBVIOUS
  <2> HIDE DEF msgs, a, b, d, e
  <2>13. Answers(a \o b, r, Joins \cup Other) /\ Answers(a \o b \o d, r, Joins \cup Other)
         /\ Answers(msgs, r, Joins \cup Other)
    <3>1. Answers(a \o b, r, Joins \cup Other)
      BY <2>10, AnswerJoins
    <3>2. Answers(a \o b \o d, r, Joins \cup Other)
      BY <2>10, <3>1, AnswerJoins
    <3> QED BY <2>10, <2>12, <3>1, <3>2, AnswerJoins
  <2>14. AllAbout(msgs, "NotifyPlayerJoining", g) /\ \A x : AllAbout(msgs, "NotifyRoomMemberJoined", x)
    <3>1. /\ a \in Seq(Message) /\ b \in Seq(Message) /\ d \in Seq(Message) /\ e \in Seq(Message)
          /\ a \o b \in Seq(Message) /\ a \o b \o d \in Seq(Message)
      BY <2>10, <2>13 DEF AreNotes, Answers
    <3>2. AllAbout(a \o b, "NotifyPlayerJoining", g) /\ \A x : AllAbout(a \o b, "NotifyRoomMemberJoined", x)
      BY <2>11, <3>1, AboutJoins
    <3>3. AllAbout(a \o b \o d, "NotifyPlayerJoining", g)
          /\ \A x : AllAbout(a \o b \o d, "NotifyRoomMemberJoined", x)
      BY <2>11, <3>1, <3>2, AboutJoins
    <3> QED BY <2>11, <2>12, <3>1, <3>3, AboutJoins
  <2>15. /\ ReadOK' /\ reading' = c /\ Runs("ResetDedicatedServer")
         /\ \A m \in About("NotifyPlayerJoining") : m.about = g
         /\ \A x : \A m \in About("NotifyRoomMemberJoined") : m.about = x
    BY <1>3, <2>1, <2>13, <2>14, SendIs
  <2>16. About("NotifyRoomMemberJoined") = {}
    <3>1. \A m \in About("NotifyRoomMemberJoined") : m.about = 0 /\ m.about = 1
      BY <2>15
    <3> QED BY <3>1
  <2>17. ChangesToldTruly
    BY <2>1, <2>3, <2>15, <2>16 DEF ChangesToldTruly, Runs
  <2> QED BY <2>9, <2>15, <2>17 DEF IInv, StateOK, ReadOK, TypeOK, Handled
<1> QED BY <1>4, <1>5

\* The game that is started is the user's, which is there.
LEMMA FinalizeIs ==
    ASSUME IInv, NEW c \in Conns, NEW r, r.cmd = "FinalizeGameCreation", r.id \in MsgIds,
           FinalizeGameCreation(c, r)
    PROVE  IInv' /\ ChangesToldTruly
<1> DEFINE g == user[Who(c)].game
           i == Id(c)
           msgs == Reply(r) \o NotifyGameStateChange(g) \o NotifyGamePlayerStateChange(g, i)
                            \o NotifyPlayerJoinCompleted(g, i)
<1>1. StateOK
  BY IInvParts
<1>2. r.cmd \in Commands /\ Answers(Silent, r, Other) /\ Answers(Reply(r), r, Other)
  <2>1. r.cmd \in Commands
    BY DEF Commands
  <2> QED BY <2>1, PlainAnswer
<1>3. "NotifyPlayerJoining" \notin Other /\ "NotifyRoomMemberJoined" \notin Other
  BY DEF Other
<1>4. CASE UNCHANGED state /\ (Send(c, r, Silent) \/ Send(c, r, Reply(r)))
  <2>1. PICK some \in {Silent, Reply(r)} : Send(c, r, some)
    BY <1>4
  <2>2. StateOK'
    BY <1>1, <1>4, Stays
  <2>3. Answers(some, r, Other) /\ Answers(some, r, Joins \cup Other)
    BY <1>2 DEF Answers
  <2>4. /\ ReadOK' /\ Runs("FinalizeGameCreation")
        /\ About("NotifyPlayerJoining") = {} /\ About("NotifyRoomMemberJoined") = {}
    BY <1>2, <1>3, <2>1, <2>3, SendIs
  <2>5. \A x : AllAbout(some, "NotifyGamePlayerStateChange", x)
    BY ReplyAbout
  <2>6. \A x : \A m \in About("NotifyGamePlayerStateChange") : m.about = x
    BY <1>2, <2>1, <2>3, <2>5, SendIs
  <2>7. About("NotifyGamePlayerStateChange") = {}
    <3>1. \A m \in About("NotifyGamePlayerStateChange") : m.about = 0 /\ m.about = 1
      BY <2>6
    <3> QED BY <3>1
  <2>8. ChangesToldTruly
    BY <2>4, <2>7 DEF ChangesToldTruly, Runs
  <2> QED BY <2>2, <2>4, <2>8 DEF IInv, StateOK, ReadOK, TypeOK, Handled
<1>5. CASE HasUser(c) /\ g # None /\ game' = Started(g) /\ Send(c, r, msgs)
           /\ UNCHANGED <<accepting, conn, registered, user, room, category, views>>
  <2>1. /\ conn[c] \in Users /\ user[conn[c]] # Free /\ i \in Ids
    BY <1>5, IdOf DEF Live
  <2>2. g \in 1..Len(game)
    BY <1>1, <1>5, <2>1, ObjectIs DEF Who
  <2> HIDE DEF g, i
  <2> DEFINE old == game[g]
             new == [old EXCEPT !.running = TRUE]
  <2>3. game \in Seq(Game) /\ old \in Game
    BY <1>1, <2>2, ElementOfSeq DEF StateOK
  <2>4. game' = [game EXCEPT ![g] = new]
    BY <1>5 DEF Started
  <2> HIDE DEF old
  <2>5. new \in Game /\ new.running /\ new.players = old.players
    BY <2>3 DEF Game
  <2> HIDE DEF new
  <2>6. /\ game' \in Seq(Game) /\ Len(game') = Len(game)
        /\ \A x \in 1..Len(game) : game'[x] = IF x = g THEN new ELSE game[x]
    BY <2>2, <2>3, <2>4, <2>5, ExceptSeq
  <2>7. game'[g].running
    BY <2>2, <2>5, <2>6
  <2>8. PointersLive'
    <3>1. ASSUME NEW n \in 1..Len(game'), NEW x \in Ids, game'[n].players[x] # None
          PROVE  game'[n].players[x] \in Users /\ user[game'[n].players[x]] # Free
      <4>1. n \in 1..Len(game) /\ game'[n].players = game[n].players
        BY <2>5, <2>6 DEF old
      <4> QED BY <1>1, <3>1, <4>1, PlayersAreLive
    <3> QED BY <1>1, <1>5, <3>1, KeepsLive
  <2>9. GamesExist' /\ RoomsExist' /\ CategoriesHaveViews'
    BY <1>1, <1>5, <2>6 DEF StateOK, GamesExist, RoomsExist, CategoriesHaveViews, Live
  <2>10. StateOK'
    BY <1>1, <1>5, <2>6, <2>8, <2>9 DEF StateOK
  <2>11. g \in Numbers /\ i \in Numbers
    BY <2>1, <2>2 DEF Numbers
  <2> DEFINE a == Reply(r)
             b == NotifyGameStateChange(g)
             d == NotifyGamePlayerStateChange(g, i)
             e == NotifyPlayerJoinCompleted(g, i)
             kind == "NotifyGamePlayerStateChange"
  <2>12. AreNotes(b, Other) /\ AreNotes(d, Other) /\ AreNotes(e, Other) /\ Answers(a, r, Other)
    BY <1>2, <2>11, NotesAre
  <2>13. AllAbout(a, kind, <<g, i>>) /\ AllAbout(b, kind, <<g, i>>)
         /\ AllAbout(d, kind, <<g, i>>) /\ AllAbout(e, kind, <<g, i>>)
    BY NoteAbout, ReplyAbout
       DEF NotifyGameStateChange, NotifyGamePlayerStateChange, NotifyPlayerJoinCompleted
  <2>14. msgs = a \o b \o d \o e
    BY DEF g, i
  <2> HIDE DEF msgs, a, b, d, e
  <2>15. Answers(a \o b, r, Other) /\ Answers(a \o b \o d, r, Other) /\ Answers(msgs, r, Other)
    <3>1. Answers(a \o b, r, Other)
      BY <2>12, AnswerJoins
    <3>2. Answers(a \o b \o d, r, Other)
      BY <2>12, <3>1, AnswerJoins
    <3> QED BY <2>12, <2>14, <3>1, <3>2, AnswerJoins
  <2>16. Answers(msgs, r, Joins \cup Other)
    BY <2>15 DEF Answers
  <2>17. AllAbout(msgs, kind, <<g, i>>)
    <3>1. /\ a \in Seq(Message) /\ b \in Seq(Message) /\ d \in Seq(Message) /\ e \in Seq(Message)
          /\ a \o b \in Seq(Message) /\ a \o b \o d \in Seq(Message)
      BY <2>12, <2>15 DEF AreNotes, Answers
    <3>2. AllAbout(a \o b, kind, <<g, i>>)
      BY <2>13, <3>1, AboutJoins
    <3>3. AllAbout(a \o b \o d, kind, <<g, i>>)
      BY <2>13, <3>1, <3>2, AboutJoins
    <3> QED BY <2>13, <2>14, <3>1, <3>3, AboutJoins
  <2>18. /\ ReadOK' /\ Runs("FinalizeGameCreation")
         /\ \A m \in About(kind) : m.about = <<g, i>>
         /\ About("NotifyPlayerJoining") = {} /\ About("NotifyRoomMemberJoined") = {}
    BY <1>2, <1>3, <1>5, <2>15, <2>16, <2>17, SendIs
  <2>19. ChangesToldTruly
    <3>1. ~Handling({"RemovePlayer"})
      BY <2>18 DEF Runs
    <3>2. ASSUME NEW m \in About(kind) PROVE game'[m.about[1]].running
      <4>1. m.about = <<g, i>>
        BY <2>18
      <4> QED BY <2>7, <4>1
    <3> QED BY <2>18, <3>1, <3>2, Zenon DEF ChangesToldTruly
  <2> QED BY <2>10, <2>18, <2>19 DEF IInv, StateOK, ReadOK, TypeOK, Handled
<1> QED BY <1>4, <1>5 DEF FinalizeGameCreation

\* A new room or category is appended; the room that is joined gets the
\* category, and the category a view where it has none.
LEMMA PlacesGrow ==
    ASSUME NEW s \in Seq(Nat), NEW new \in BOOLEAN
    PROVE  LET t == IF new THEN Append(s, None) ELSE s
           IN /\ t \in Seq(Nat) /\ Len(s) \in Nat /\ Len(t) \in Nat /\ Len(s) <= Len(t)
              /\ \A i \in 1..Len(s) : t[i] = s[i]
              /\ new => Len(t) = Len(s) + 1 /\ t[Len(t)] = None
              /\ ~new => Len(t) = Len(s)
<1>1. CASE new
  <2>1. None \in Nat
    BY DEF None
  <2>2. /\ Append(s, None) \in Seq(Nat) /\ Len(Append(s, None)) = Len(s) + 1
        /\ \A i \in 1..Len(s) : Append(s, None)[i] = s[i]
        /\ Append(s, None)[Len(s) + 1] = None
    BY <2>1, AppendProperties
  <2> QED BY <1>1, <2>2, LenProperties
<1>2. CASE ~new
  BY <1>2, LenProperties
<1> QED BY <1>1, <1>2

LEMMA RoomMessages ==
    ASSUME NEW r, r.cmd \in Commands, r.id \in MsgIds, NEW n \in Numbers, NEW i \in Numbers, NEW new \in BOOLEAN
    PROVE  LET msgs == (IF new THEN NotifyRoomAdded(n) \o NotifyRoomUpdated(n) ELSE Silent)
                       \o Reply(r) \o NotifyRoomMemberJoined(n, i)
           IN /\ Answers(msgs, r, Joins \cup Other)
              /\ AllAbout(msgs, "NotifyRoomMemberJoined", <<n, i>>)
              /\ \A x : AllAbout(msgs, "NotifyPlayerJoining", x)
<1> DEFINE a == NotifyRoomAdded(n)
           b == NotifyRoomUpdated(n)
           d == Reply(r)
           e == NotifyRoomMemberJoined(n, i)
           p == IF new THEN a \o b ELSE Silent
           J == "NotifyRoomMemberJoined"
           P == "NotifyPlayerJoining"
<1>1. /\ AreNotes(a, Joins \cup Other) /\ AreNotes(b, Joins \cup Other)
      /\ AreNotes(e, Joins \cup Other) /\ AreNotes(Silent, Joins \cup Other)
      /\ Answers(d, r, Joins \cup Other)
  <2>1. /\ n \in Subject /\ "NotifyRoomAdded" \in Joins \cup Other
        /\ "NotifyRoomUpdated" \in Joins \cup Other
    BY DEF Subject, Other
  <2>2. AreNotes(a, Joins \cup Other) /\ AreNotes(b, Joins \cup Other)
    BY <2>1, NoteIs DEF NotifyRoomAdded, NotifyRoomUpdated
  <2> QED BY <2>2, JoinNotes, SilentIs, AnswerIs DEF Errors
<1>2. /\ AllAbout(a, J, <<n, i>>) /\ AllAbout(b, J, <<n, i>>) /\ AllAbout(d, J, <<n, i>>)
      /\ AllAbout(e, J, <<n, i>>) /\ AllAbout(Silent, J, <<n, i>>)
      /\ \A x : /\ AllAbout(a, P, x) /\ AllAbout(b, P, x) /\ AllAbout(d, P, x)
                /\ AllAbout(e, P, x) /\ AllAbout(Silent, P, x)
  BY NoteAbout, ReplyAbout DEF NotifyRoomAdded, NotifyRoomUpdated, NotifyRoomMemberJoined
<1> HIDE DEF a, b, d, e
<1>3. AreNotes(a \o b, Joins \cup Other) /\ AllAbout(a \o b, J, <<n, i>>)
      /\ \A x : AllAbout(a \o b, P, x)
  <2>1. AreNotes(a \o b, Joins \cup Other)
    BY <1>1, NotesJoin
  <2>2. a \in Seq(Message) /\ b \in Seq(Message)
    BY <1>1 DEF AreNotes
  <2> QED BY <1>2, <2>1, <2>2, AboutJoins
<1>4. AreNotes(p, Joins \cup Other) /\ AllAbout(p, J, <<n, i>>) /\ \A x : AllAbout(p, P, x)
  BY <1>1, <1>2, <1>3
<1> HIDE DEF p
<1>5. Answers(p \o d, r, Joins \cup Other) /\ Answers(p \o d \o e, r, Joins \cup Other)
  <2>1. Answers(p \o d, r, Joins \cup Other)
    BY <1>1, <1>4, AnswerJoins
  <2> QED BY <1>1, <2>1, AnswerJoins
<1>6. /\ p \in Seq(Message) /\ d \in Seq(Message) /\ e \in Seq(Message) /\ p \o d \in Seq(Message)
  BY <1>1, <1>4, <1>5 DEF AreNotes, Answers
<1>7. AllAbout(p \o d, J, <<n, i>>) /\ \A x : AllAbout(p \o d, P, x)
  BY <1>2, <1>4, <1>6, AboutJoins
<1>8. AllAbout(p \o d \o e, J, <<n, i>>) /\ \A x : AllAbout(p \o d \o e, P, x)
  BY <1>2, <1>6, <1>7, AboutJoins
<1> QED BY <1>5, <1>8 DEF a, b, d, e, p

LEMMA JoinRoomIs ==
    ASSUME IInv, NEW c \in Conns, NEW r, r.cmd = "JoinRoom", r.id \in MsgIds,
           r.to \in Nat, r.category \in Nat, JoinRoom(c, r)
    PROVE  IInv' /\ ChangesToldTruly
<1> DEFINE o == Who(c)
           newRoom == r.to = 0
           rooms == IF newRoom THEN Append(room, None) ELSE room
           n == IF newRoom THEN Len(rooms) ELSE r.to
           newCategory == r.category = 0
           cats == IF newCategory THEN Append(category, None) ELSE category
           k == IF newCategory THEN Len(cats) ELSE r.category
           v == View(k, cats)
           msgs == (IF newRoom THEN NotifyRoomAdded(n) \o NotifyRoomUpdated(n) ELSE Silent)
                   \o Reply(r) \o NotifyRoomMemberJoined(n, Id(c))
<1>1. StateOK /\ room \in Seq(Nat) /\ category \in Seq(Nat) /\ views \in Nat
  BY IInvParts DEF StateOK
<1>2. r.cmd \in Commands /\ r.cmd \notin {"FinalizeGameCreation", "RemovePlayer"}
  BY DEF Commands
<1>3. /\ rooms \in Seq(Nat) /\ Len(room) \in Nat /\ Len(rooms) \in Nat /\ Len(room) <= Len(rooms)
      /\ \A i \in 1..Len(room) : rooms[i] = room[i]
  BY <1>1, PlacesGrow
<1>4. /\ cats \in Seq(Nat) /\ Len(category) \in Nat /\ Len(cats) \in Nat /\ Len(category) <= Len(cats)
      /\ \A i \in 1..Len(category) : cats[i] = category[i]
      /\ newCategory => Len(cats) = Len(category) + 1 /\ cats[Len(cats)] = None
      /\ ~newCategory => Len(cats) = Len(category)
  <2>1. newCategory \in BOOLEAN
    OBVIOUS
  <2> HIDE DEF newCategory
  <2> QED BY <1>1, <2>1, PlacesGrow
<1>5. CASE ~HasUser(c) /\ Send(c, r, Silent) /\ UNCHANGED state
  <2>1. Answers(Silent, r, Other)
    BY <1>2, PlainAnswer
  <2>2. ReadOK' /\ ChangesToldTruly /\ StateOK'
    BY <1>1, <1>2, <1>5, <2>1, OthersAreTrue, Stays
  <2> QED BY <2>2 DEF IInv, StateOK, ReadOK, TypeOK, Handled
<1>6. CASE Send(c, r, Error(r, "ROOMS_ERR_NOT_FOUND")) /\ UNCHANGED state
  <2>1. Answers(Error(r, "ROOMS_ERR_NOT_FOUND"), r, Other)
    BY <1>2, PlainAnswer DEF Errors
  <2>2. ReadOK' /\ ChangesToldTruly /\ StateOK'
    BY <1>1, <1>2, <1>6, <2>1, OthersAreTrue, Stays
  <2> QED BY <2>2 DEF IInv, StateOK, ReadOK, TypeOK, Handled
<1>7. CASE /\ room' = rooms
           /\ Send(c, r, Error(r, "ROOMS_ERR_CREATE_UNKNOWN_CATEGORY"))
           /\ UNCHANGED <<accepting, conn, registered, user, category, views, game>>
  <2>1. Answers(Error(r, "ROOMS_ERR_CREATE_UNKNOWN_CATEGORY"), r, Other)
    BY <1>2, PlainAnswer DEF Errors
  <2>2. ReadOK' /\ ChangesToldTruly
    BY <1>2, <1>7, <2>1, OthersAreTrue
  <2> HIDE DEF rooms
  <2>3. PointersLive' /\ GamesExist' /\ CategoriesHaveViews'
    BY <1>1, <1>7 DEF StateOK, PointersLive, GamesExist, CategoriesHaveViews, Live, HasUser
  <2>4. RoomsExist'
    <3>1. ASSUME NEW x \in Users, user[x] # Free, user[x].room # None
          PROVE  user[x].room \in 1..Len(rooms) /\ rooms[user[x].room] \in 1..Len(category)
      <4> DEFINE q == user[x].room
      <4>1. q \in 1..Len(room) /\ room[q] \in 1..Len(category)
        BY <1>1, <3>1, ObjectIs
      <4> HIDE DEF q
      <4>2. q \in 1..Len(rooms) /\ rooms[q] = room[q]
        BY <1>3, <4>1
      <4> QED BY <4>1, <4>2 DEF q
    <3> QED BY <1>7, <3>1 DEF RoomsExist, Live
  <2>5. StateOK'
    BY <1>1, <1>3, <1>7, <2>3, <2>4 DEF StateOK
  <2> QED BY <2>2, <2>5 DEF IInv, StateOK, ReadOK, TypeOK, Handled
<1>8. CASE /\ HasUser(c) /\ Exists(n, rooms) /\ Exists(k, cats)
           /\ room' = [rooms EXCEPT ![n] = k]
           /\ category' = [cats EXCEPT ![k] = v]
           /\ views' = IF v > views THEN v ELSE views
           /\ user' = [user EXCEPT ![o].room = n]
           /\ Send(c, r, msgs)
           /\ UNCHANGED <<accepting, conn, registered, game>>
  <2>1. n \in 1..Len(rooms) /\ k \in 1..Len(cats) /\ n \in Nat /\ k \in Nat
    BY <1>3, <1>4, <1>8 DEF Exists
  <2>2. newCategory => k = Len(cats)
    OBVIOUS
  <2>3. o \in Users /\ user[o] # Free /\ user[o] \in UserObject /\ Id(c) \in Ids /\ o = conn[c]
    BY <1>8, IdOf DEF Who, Live
  <2>4. /\ Answers(msgs, r, Joins \cup Other)
        /\ AllAbout(msgs, "NotifyRoomMemberJoined", <<n, Id(c)>>)
        /\ \A x : AllAbout(msgs, "NotifyPlayerJoining", x)
    <3>1. n \in Numbers /\ Id(c) \in Numbers /\ newRoom \in BOOLEAN
      BY <2>1, <2>3 DEF Numbers
    <3> HIDE DEF n, newRoom
    <3> QED BY <1>2, <3>1, RoomMessages
  <2> HIDE DEF rooms, cats, n, k, o, msgs, newCategory
  <2>5. CategoriesHaveViews
    BY <1>1 DEF StateOK
  <2>6. cats[k] \in Nat /\ \A j \in 1..Len(cats) : j # k => cats[j] \in 1..views
    <3>1. cats[k] \in Nat
      BY <1>4, <2>1, ElementOfSeq
    <3>2. ASSUME NEW j \in 1..Len(cats), j # k PROVE cats[j] \in 1..views
      BY <1>4, <2>1, <2>2, <2>5, <3>2 DEF CategoriesHaveViews, None
    <3> QED BY <3>1, <3>2
  <2>7. v \in 1..views' /\ v \in Nat /\ views' \in Nat /\ views <= views'
    <3>1. CASE cats[k] = None
      <4>1. v = views + 1
        BY <3>1 DEF View
      <4> QED BY <1>1, <1>8, <4>1
    <3>2. CASE cats[k] # None
      <4>1. v = cats[k]
        BY <3>2 DEF View
      <4>2. cats[k] \in Nat \ {0}
        BY <2>6, <3>2 DEF None
      <4> HIDE DEF v
      <4> QED BY <1>1, <1>8, <4>1, <4>2
    <3> QED BY <3>1, <3>2
  <2> HIDE DEF v
  <2>8. /\ category' \in Seq(Nat) /\ Len(category') = Len(cats)
        /\ \A j \in 1..Len(cats) : category'[j] = IF j = k THEN v ELSE cats[j]
    BY <1>4, <1>8, <2>1, <2>7, ExceptSeq
  <2>9. /\ room' \in Seq(Nat) /\ Len(room') = Len(rooms)
        /\ \A j \in 1..Len(rooms) : room'[j] = IF j = n THEN k ELSE rooms[j]
    BY <1>3, <1>8, <2>1, ExceptSeq
  <2>10. CategoriesHaveViews'
    <3>1. ASSUME NEW j \in 1..Len(category') PROVE category'[j] \in 1..views'
      <4>1. j \in 1..Len(cats) /\ category'[j] = IF j = k THEN v ELSE cats[j]
        BY <2>8
      <4>2. views \in Nat /\ views' \in Nat /\ views <= views' /\ v \in 1..views'
        BY <1>1, <2>7 DEF StateOK
      <4>3. CASE j = k
        BY <4>1, <4>2, <4>3
      <4>4. CASE j # k
        <5>1. cats[j] \in 1..views
          BY <2>6, <4>1, <4>4
        <5> DEFINE x == cats[j]
        <5> HIDE DEF x
        <5>2. x \in 1..views'
          BY <4>2, <5>1 DEF x
        <5> QED BY <4>1, <4>4, <5>2 DEF x
      <4> QED BY <4>3, <4>4
    <3> QED BY <3>1 DEF CategoriesHaveViews
  <2> DEFINE b == user[o]
             d == [b EXCEPT !.room = n]
  <2>11. user' = [user EXCEPT ![o] = d] /\ user \in [Users -> {Free} \cup UserObject]
    BY <1>1, <1>8 DEF StateOK
  <2>12. b \in UserObject
    BY <2>3
  <2> HIDE DEF b
  <2>13. d \in UserObject /\ d.room = n /\ d.game = b.game
    BY <2>1, <2>12 DEF UserObject
  <2>14. d # Free
    BY <2>13, ObjectsAreNotFree
  <2> HIDE DEF d
  <2>15. /\ user' \in [Users -> {Free} \cup UserObject] /\ user'[o] = d
         /\ \A x \in Users : x # o => user'[x] = user[x]
    BY <2>3, <2>11, <2>13
  <2>16. PointersLive'
    <3>1. \A m \in 1..Len(game) : \A i \in Ids : game[m].players[i] # None =>
              game[m].players[i] \in Users /\ user[game[m].players[i]] # Free
      BY <1>1, PlayersAreLive
    <3> QED BY <1>1, <1>8, <2>14, <2>15, <3>1, KeepsLive
  <2>17. GamesExist'
    <3>1. ASSUME NEW x \in Users, user'[x] # Free PROVE user'[x].game \in {None} \cup 1..Len(game)
      <4>1. CASE x = o
        BY <1>1, <2>3, <2>13, <2>15, <4>1, ObjectIs DEF b
      <4>2. CASE x # o
        BY <1>1, <2>15, <3>1, <4>2, ObjectIs
      <4> QED BY <4>1, <4>2
    <3> QED BY <1>8, <3>1 DEF GamesExist, Live
  <2>18. RoomsExist'
    <3>1. ASSUME NEW x \in Users, user'[x] # Free, user'[x].room # None
          PROVE  user'[x].room \in 1..Len(room') /\ room'[user'[x].room] \in 1..Len(category')
      <4>1. CASE x = o
        BY <2>1, <2>8, <2>9, <2>13, <2>15, <4>1
      <4>2. CASE x # o
        <5>1. user[x].room \in 1..Len(room) /\ room[user[x].room] \in 1..Len(category)
          BY <1>1, <2>15, <3>1, <4>2, ObjectIs
        <5>2. user[x].room \in 1..Len(rooms) /\ rooms[user[x].room] \in 1..Len(cats)
          <6> DEFINE q == user[x].room
          <6> HIDE DEF q
          <6>1. q \in 1..Len(room) /\ room[q] \in 1..Len(category)
            BY <5>1 DEF q
          <6>2. q \in 1..Len(rooms) /\ rooms[q] = room[q]
            BY <1>3, <6>1
          <6>3. \A z \in 1..Len(category) : z \in 1..Len(cats)
            BY <1>4
          <6> QED BY <6>1, <6>2, <6>3 DEF q
        <5> QED BY <2>1, <2>8, <2>9, <2>15, <4>2, <5>2
      <4> QED BY <4>1, <4>2
    <3> QED BY <3>1 DEF RoomsExist, Live
  <2>19. StateOK'
    BY <1>1, <1>8, <2>7, <2>8, <2>9, <2>10, <2>15, <2>16, <2>17, <2>18 DEF StateOK
  <2>20. /\ ReadOK' /\ reading' = c /\ Runs("JoinRoom")
         /\ \A m \in About("NotifyRoomMemberJoined") : m.about = <<n, Id(c)>>
         /\ \A x : \A m \in About("NotifyPlayerJoining") : m.about = x
    BY <1>2, <1>8, <2>4, SendIs
  <2>21. About("NotifyPlayerJoining") = {}
    <3>1. \A m \in About("NotifyPlayerJoining") : m.about = 0 /\ m.about = 1
      BY <2>20
    <3> QED BY <3>1
  <2>22. user'[conn'[c]].room = n
    BY <1>8, <2>3, <2>13, <2>15
  <2>23. <<n, Id(c)>>[1] = n
    OBVIOUS
  <2>24. ChangesToldTruly
    BY <2>20, <2>21, <2>22, <2>23 DEF ChangesToldTruly, Runs
  <2> QED BY <2>19, <2>20, <2>24 DEF IInv, StateOK, ReadOK, TypeOK, Handled
<1> QED BY <1>5, <1>6, <1>7, <1>8 DEF JoinRoom

----------------------------------------------------------------------------
\* What no request does.

LEMMA HelloIs ==
    ASSUME IInv, NEW g \in 1..Len(game), NEW i \in Ids, Hello(g, i)
    PROVE  IInv' /\ ChangesToldTruly
<1> DEFINE old == game[g]
           p == [old.players EXCEPT ![i] = IF old.players[i] = None THEN registered[i] ELSE old.players[i]]
           new == [old EXCEPT !.players = p]
<1>1. StateOK
  BY IInvParts
<1>2. /\ registered[i] # None
      /\ UNCHANGED <<accepting, conn, registered, user, room, category, views>>
      /\ UNCHANGED <<out, reading, asked>>
  BY DEF Hello
<1>3. game' = [game EXCEPT ![g] = new]
  BY DEF Hello
<1>4. game \in Seq(Game) /\ old \in Game /\ g \in 1..Len(game)
  BY <1>1, ElementOfSeq DEF StateOK
<1>5. registered[i] \in Users /\ user[registered[i]] # Free
  BY <1>1, <1>2 DEF StateOK, PointersLive, Live
<1> HIDE DEF old
<1>6. old.players \in [Ids -> {None} \cup Users]
  BY <1>4 DEF Game
<1>7. /\ p \in [Ids -> {None} \cup Users]
      /\ \A x \in Ids : p[x] = old.players[x] \/ p[x] = registered[i]
  BY <1>5, <1>6
<1> HIDE DEF p
<1>8. new \in Game /\ new.players = p
  BY <1>4, <1>7 DEF Game
<1> HIDE DEF new
<1>9. /\ game' \in Seq(Game) /\ Len(game') = Len(game)
      /\ \A x \in 1..Len(game) : game'[x] = IF x = g THEN new ELSE game[x]
  BY <1>3, <1>4, <1>8, ExceptSeq
<1>10. PointersLive'
  <2>1. ASSUME NEW n \in 1..Len(game'), NEW x \in Ids, game'[n].players[x] # None
        PROVE  game'[n].players[x] \in Users /\ user[game'[n].players[x]] # Free
    <3>1. n \in 1..Len(game)
      BY <1>9
    <3>2. CASE game'[n].players[x] = registered[i]
      BY <1>5, <3>2
    <3>3. CASE game'[n].players[x] # registered[i]
      <4>1. game'[n].players[x] = game[n].players[x]
        BY <1>7, <1>8, <1>9, <3>1, <3>3 DEF old
      <4> QED BY <1>1, <2>1, <3>1, <4>1, PlayersAreLive
    <3> QED BY <3>2, <3>3
  <2> QED BY <1>1, <1>2, <2>1, KeepsLive
<1>11. GamesExist' /\ RoomsExist' /\ CategoriesHaveViews'
  BY <1>1, <1>2, <1>9 DEF StateOK, GamesExist, RoomsExist, CategoriesHaveViews, Live
<1>12. StateOK'
  BY <1>1, <1>2, <1>9, <1>10, <1>11 DEF StateOK
<1>13. ReadOK' /\ ChangesToldTruly
  BY <1>2, QuietIs DEF IInv, BuffersOK
<1> QED BY <1>12, <1>13 DEF IInv, StateOK, ReadOK, TypeOK, Handled

LEMMA AcceptIs ==
    ASSUME IInv, NEW c \in Conns, Accept(c)
    PROVE  IInv' /\ ChangesToldTruly
<1>1. StateOK
  BY IInvParts
<1>2. /\ conn' = [conn EXCEPT ![c] = None] /\ out' = [out EXCEPT ![c] = Silent]
      /\ reading' = None /\ asked' = asked
      /\ UNCHANGED <<accepting, registered, user, room, category, views, game>>
  BY DEF Accept
<1>3. /\ conn' \in [Conns -> {Down, None} \cup Users]
      /\ \A x \in Conns : conn'[x] = None \/ conn'[x] = conn[x]
  BY <1>1, <1>2 DEF StateOK
<1>4. PointersLive'
  <2>1. \A x \in Conns : conn'[x] > 0 => conn'[x] = conn[x]
    BY <1>3 DEF None
  <2> QED BY <1>1, <1>2, <2>1 DEF StateOK, PointersLive, Live, HasUser
<1>5. GamesExist' /\ RoomsExist' /\ CategoriesHaveViews'
  BY <1>1, <1>2 DEF StateOK, GamesExist, RoomsExist, CategoriesHaveViews, Live
<1>6. StateOK'
  BY <1>1, <1>2, <1>3, <1>4, <1>5 DEF StateOK
<1>7. out' \in [Conns -> Seq(Message)]
  <2>1. Silent \in Seq(Message)
    BY EmptySeq DEF Silent
  <2> QED BY <1>2, <2>1 DEF IInv, BuffersOK
<1>8. ReadOK' /\ ChangesToldTruly
  BY <1>2, <1>7, QuietIs
<1> QED BY <1>6, <1>8 DEF IInv, StateOK, ReadOK, TypeOK, Handled

LEMMA AcceptFailsIs ==
    ASSUME IInv, AcceptFails
    PROVE  IInv' /\ ChangesToldTruly
<1>1. /\ accepting' = FALSE /\ UNCHANGED <<out, reading, asked>>
      /\ UNCHANGED <<conn, registered, user, room, category, views, game>>
  BY DEF AcceptFails
<1>2. accepting' \in BOOLEAN
  BY <1>1
<1>3. StateOK
  BY IInvParts
<1>4. PointersLive' /\ GamesExist' /\ RoomsExist' /\ CategoriesHaveViews'
  BY <1>1, <1>3
     DEF StateOK, PointersLive, GamesExist, RoomsExist, CategoriesHaveViews, Live, HasUser
<1>5. StateOK'
  BY <1>1, <1>2, <1>3, <1>4 DEF StateOK
<1>6. ReadOK' /\ ChangesToldTruly
  BY <1>1, QuietIs DEF IInv, BuffersOK
<1> QED BY <1>5, <1>6 DEF IInv, StateOK, ReadOK, TypeOK, Handled

LEMMA WrittenIs ==
    ASSUME IInv, NEW c \in Conns, Written(c)
    PROVE  IInv' /\ ChangesToldTruly
<1>1. UNCHANGED state /\ reading' = None /\ asked' = <<>> /\ out' \in [Conns -> Seq(Message)]
  BY DEF Written, IInv, BuffersOK
<1>2. StateOK'
  BY <1>1, IInvParts, Stays
<1>3. ReadOK' /\ ChangesToldTruly
  BY <1>1, QuietIs
<1> QED BY <1>2, <1>3 DEF IInv, StateOK, ReadOK, TypeOK, Handled

----------------------------------------------------------------------------
\* The invariant, and what every step keeps to.

LEMMA RequestIs ==
    ASSUME IInv, NEW c \in Conns, NEW id \in MsgIds, Request(c, id)
    PROVE  IInv' /\ ChangesToldTruly
<1>1. \A component, cmd : LET b == Blank(component, cmd, id) IN
        /\ {"to", "category", "player"} \subseteq DOMAIN b
        /\ b.cmd = cmd /\ b.id = id
  BY DEF Blank
<1>2. ASSUME NEW r \in Asks[id], Ask(c, r) PROVE IInv' /\ ChangesToldTruly
  BY <1>2, AsksAreAsked, AskIs
<1>3. ASSUME NEW i \in Ids, Login(c, [Blank("Auth", "Login", id) EXCEPT !.to = i])
      PROVE  IInv' /\ ChangesToldTruly
  <2> DEFINE b == Blank("Auth", "Login", id)
             r == [b EXCEPT !.to = i]
  <2>1. b.cmd = "Login" /\ b.id = id /\ "to" \in DOMAIN b
    BY <1>1
  <2> HIDE DEF b
  <2>2. r.cmd = "Login" /\ r.id \in MsgIds /\ r.to \in Ids
    BY <2>1
  <2>3. Login(c, r)
    BY <1>3 DEF b
  <2> HIDE DEF r
  <2> QED BY <2>2, <2>3, LoginIs
<1>4. ASSUME NEW i \in Ids, NEW cmd \in {"SilentLogin", "ExpressLogin"},
             TakeOver(c, [Blank("Auth", cmd, id) EXCEPT !.to = i])
      PROVE  IInv' /\ ChangesToldTruly
  <2> DEFINE b == Blank("Auth", cmd, id)
             r == [b EXCEPT !.to = i]
  <2>1. b.cmd = cmd /\ b.id = id /\ "to" \in DOMAIN b
    BY <1>1
  <2> HIDE DEF b
  <2>2. r.cmd \in {"SilentLogin", "ExpressLogin"} /\ r.id \in MsgIds /\ r.to \in Ids
    BY <2>1
  <2>3. TakeOver(c, r)
    BY <1>4 DEF b
  <2> HIDE DEF r
  <2> QED BY <2>2, <2>3, TakeOverIs
<1>5. ASSUME Logout(c, Blank("Auth", "Logout", id)) PROVE IInv' /\ ChangesToldTruly
  <2> DEFINE r == Blank("Auth", "Logout", id)
  <2>1. r.cmd = "Logout" /\ r.id \in MsgIds
    BY <1>1
  <2>2. Logout(c, r)
    BY <1>5
  <2> HIDE DEF r
  <2> QED BY <2>1, <2>2, LogoutIs
<1>6. ASSUME NEW n \in 0..Lobbies + MaxMade, NEW k \in 0..Lobbies + MaxMade,
             JoinRoom(c, [Blank("Rooms", "JoinRoom", id) EXCEPT !.to = n, !.category = k])
      PROVE  IInv' /\ ChangesToldTruly
  <2> DEFINE b == Blank("Rooms", "JoinRoom", id)
             r == [b EXCEPT !.to = n, !.category = k]
  <2>1. b.cmd = "JoinRoom" /\ b.id = id /\ "to" \in DOMAIN b /\ "category" \in DOMAIN b
    BY <1>1
  <2> HIDE DEF b
  <2>2. n \in Nat /\ k \in Nat
    BY LobbyAssumption
  <2>3. r.cmd = "JoinRoom" /\ r.id \in MsgIds /\ r.to \in Nat /\ r.category \in Nat
    BY <2>1, <2>2
  <2>4. JoinRoom(c, r)
    BY <1>6 DEF b
  <2> HIDE DEF r
  <2> QED BY <2>3, <2>4, JoinRoomIs
<1>7. ASSUME NEW g \in 1..MaxMade, JoinGame(c, [Blank("GameManager", "JoinGame", id) EXCEPT !.to = g])
      PROVE  IInv' /\ ChangesToldTruly
  <2> DEFINE b == Blank("GameManager", "JoinGame", id)
             r == [b EXCEPT !.to = g]
  <2>1. b.cmd = "JoinGame" /\ b.id = id /\ "to" \in DOMAIN b /\ g \in Nat
    BY <1>1, LobbyAssumption
  <2> HIDE DEF b
  <2>2. r.cmd = "JoinGame" /\ r.id \in MsgIds /\ r.to \in Nat
    BY <2>1
  <2>3. JoinGame(c, r)
    BY <1>7 DEF b
  <2> HIDE DEF r
  <2> QED BY <2>2, <2>3, JoinGameIs
<1>8. ASSUME NEW g \in 1..MaxMade, NEW i \in Ids,
             RemovePlayer(c, [Blank("GameManager", "RemovePlayer", id) EXCEPT !.to = g, !.player = i])
      PROVE  IInv' /\ ChangesToldTruly
  <2> DEFINE b == Blank("GameManager", "RemovePlayer", id)
             r == [b EXCEPT !.to = g, !.player = i]
  <2>1. b.cmd = "RemovePlayer" /\ b.id = id /\ "to" \in DOMAIN b /\ "player" \in DOMAIN b /\ g \in Nat
    BY <1>1, LobbyAssumption
  <2> HIDE DEF b
  <2>2. r.cmd = "RemovePlayer" /\ r.id \in MsgIds /\ r.to \in Nat /\ r.player \in Ids
    BY <2>1
  <2>3. RemovePlayer(c, r)
    BY <1>8 DEF b
  <2> HIDE DEF r
  <2> QED BY <2>2, <2>3, RemovePlayerIs
<1>9. ASSUME FinalizeGameCreation(c, Blank("GameManager", "FinalizeGameCreation", id))
      PROVE  IInv' /\ ChangesToldTruly
  <2> DEFINE r == Blank("GameManager", "FinalizeGameCreation", id)
  <2>1. r.cmd = "FinalizeGameCreation" /\ r.id \in MsgIds
    BY <1>1
  <2>2. FinalizeGameCreation(c, r)
    BY <1>9
  <2> HIDE DEF r
  <2> QED BY <2>1, <2>2, FinalizeIs
<1>10. ASSUME ResetDedicatedServer(c, Blank("GameManager", "ResetDedicatedServer", id))
       PROVE  IInv' /\ ChangesToldTruly
  <2> DEFINE r == Blank("GameManager", "ResetDedicatedServer", id)
  <2>1. r.cmd = "ResetDedicatedServer" /\ r.id \in MsgIds
    BY <1>1
  <2>2. ResetDedicatedServer(c, r)
    BY <1>10
  <2> HIDE DEF r
  <2> QED BY <2>1, <2>2, ResetIs
<1> QED BY <1>2, <1>3, <1>4, <1>5, <1>6, <1>7, <1>8, <1>9, <1>10 DEF Request

LEMMA NextIs ==
    ASSUME IInv, Next
    PROVE  IInv' /\ ChangesToldTruly
BY AcceptIs, DisconnectIs, RequestIs, WrittenIs, AcceptFailsIs, HelloIs DEF Next

LEMMA InitIInv == Init => IInv
<1> SUFFICES ASSUME Init PROVE IInv
  OBVIOUS
<1>1. /\ Lobbies \in Nat /\ Lobbies >= 1
  BY LobbyAssumption
<1>2. /\ room \in Seq(Nat) /\ category \in Seq(Nat) /\ Len(category) = Lobbies
      /\ \A k \in 1..Len(category) : category[k] = 1
  <2>1. room \in [1..Lobbies -> Nat] /\ category \in [1..Lobbies -> Nat]
    BY <1>1 DEF Init
  <2>2. room \in Seq(Nat) /\ category \in Seq(Nat)
    BY <1>1, <2>1, SeqDef
  <2>3. Len(category) = Lobbies
    BY <1>1, <2>1, <2>2, LenProperties
  <2> QED BY <2>2, <2>3 DEF Init
<1>3. game \in Seq(Game) /\ Len(game) = 0
  BY EmptySeq DEF Init
<1>4. /\ accepting \in BOOLEAN /\ views \in Nat /\ views = 1
      /\ conn \in [Conns -> {Down, None} \cup Users] /\ registered \in [Ids -> {None} \cup Users]
      /\ user \in [Users -> {Free} \cup UserObject]
      /\ \A o \in Users : ~Live(o)
  BY DEF Init, Live
<1>5. /\ \A i \in Ids : registered[i] = None
      /\ \A c \in Conns : ~HasUser(c)
  BY DEF Init, HasUser, Down
<1>6. PointersLive /\ GamesExist /\ RoomsExist /\ CategoriesHaveViews
  BY <1>2, <1>3, <1>4, <1>5 DEF PointersLive, GamesExist, RoomsExist, CategoriesHaveViews
<1>7. out \in [Conns -> Seq(Message)]
  BY EmptySeq DEF Init, Silent
<1>8. reading = None /\ asked \in Seq(Handled) /\ InOrder
  BY EmptySeq DEF Init, InOrder
<1> QED BY <1>2, <1>3, <1>4, <1>6, <1>7, <1>8 DEF IInv, TypeOK, BuffersOK, Handled

LEMMA StepIInv == IInv /\ [Next]_vars => IInv'
<1> SUFFICES ASSUME IInv, [Next]_vars PROVE IInv'
  OBVIOUS
<1>1. CASE Next
  BY <1>1, NextIs
<1>2. CASE UNCHANGED vars
  BY <1>2 DEF vars, IInv, TypeOK, BuffersOK, InOrder, PointersLive, GamesExist, RoomsExist,
              CategoriesHaveViews, Live, HasUser
<1> QED BY <1>1, <1>2

\* What refers to a user object, a room, a category, a view or a game refers to
\* one that is there, whatever order the handlers run in.
THEOREM Inductive == Spec => []IInv
<1>1. Init => IInv
  BY InitIInv
<1>2. IInv /\ [Next]_vars => IInv'
  BY StepIInv
<1> QED BY <1>1, <1>2, PTL DEF Spec

\* Every variable has its type.
THEOREM TypeCorrect == Spec => []TypeOK
<1>1. IInv => TypeOK
  BY DEF IInv
<1> QED BY <1>1, Inductive, PTL

\* WriteJoinRoom follows the room of a user to its category and to the view of
\* that without a test: both are there.
THEOREM RoomsStayPlaced == Spec => []RoomsArePlaced
<1>1. IInv => RoomsArePlaced
  BY DEF IInv, RoomsExist, CategoriesHaveViews, RoomsArePlaced
<1> QED BY <1>1, Inductive, PTL

\* The answers that are written after a read are to requests of that read, in
\* their order, each once at most: for any number of requests in one read.
THEOREM AnswersMatch == Spec => Answered
<1>1. IInv => InOrder
  BY DEF IInv
<1>2. IInv /\ [Next]_vars => [InOrder']_vars
  BY <1>1, StepIInv, PTL
<1> QED BY <1>1, <1>2, Inductive, PTL DEF Spec, Answered

\* What JoinGame, ResetDedicatedServer, JoinRoom, FinalizeGameCreation and
\* RemovePlayer tell of who is in what is so when they return.
THEOREM ChangesAreSo == Spec => ChangesAreTold
<1>1. IInv /\ [Next]_vars => [ChangesToldTruly]_vars
  BY NextIs
<1> QED BY <1>1, Inductive, PTL DEF Spec, ChangesAreTold
=============================================================================

------------------------------ MODULE Replies ------------------------------
(***************************************************************************)
(* The replies and notifications of the Blaze components, and what becomes *)
(* of a message: it is written, and the other end reads it.                *)
(***************************************************************************)
EXTENDS Messages

Arg(as, arg) == Value(<<arg>>, as)
Id(l) == put_integer(l, Arg("uint32_t", l))
Ids(labels) == Joined(labels, Id)

-----------------------------------------------------------------------------
(* AuthComponent                                                           *)

WriteLogin(personaDetails) ==
    Numbers(<<"NTOS">>) \o Texts(<<"PCTK">>) \o Structs("PLST", <<personaDetails>>, PersonaDetails_Write)
    \o Texts(<<"PRIV", "SKEY">>) \o Numbers(<<"SPAM">>) \o Texts(<<"THST", "TURI">>)
    \o put_integer("UID", personaDetails.id)
WriteFullLogin(sessionInfo) ==
    Numbers(<<"AGUP", "NTOS">>) \o Texts(<<"PCTK", "PRIV">>)
    \o push_struct("SESS", SessionInfo_Write(sessionInfo)) \o Numbers(<<"SPAM">>) \o Texts(<<"THST", "TURI">>)
WriteTOSInfo == Numbers(<<"EAMC", "PMC">>) \o Texts(<<"PRIV", "THST", "TURI">>)
WriteTermsAndConditions == Texts(<<"LDVC">>) \o Numbers(<<"TCOL">>) \o Texts(<<"TCOT">>)
WritePrivacyPolicy == WriteTermsAndConditions

-----------------------------------------------------------------------------
(* UtilComponent, RedirectorComponent, AssociationComponent                *)

WritePostAuth(pss, telemetry, tick, options) ==
    push_struct("PSS", PssConfig_Write(pss)) \o push_struct("TELE", TelemetryServer_Write(telemetry))
    \o push_struct("TICK", TickerServer_Write(tick)) \o push_struct("UROP", UserOptions_Write(options))

ServerAddress == push_union("ADDR", XboxClientAddress, push_struct("VALU",
    put_string("HOST", Arg("string", "host")) \o Numbers(<<"IP">>)
    \o put_integer("PORT", Arg("uint16_t", "port"))))
WriteServerInstanceInfo == ServerAddress \o Numbers(<<"SECU", "XDNS">>)
WriteServerAddressInfo == ServerAddress \o Numbers(<<"TYPE">>)

UpdateListMembersResponse(memberInfoList, removeList) ==
    (IF memberInfoList = <<>> THEN <<>> ELSE Structs("LMID", memberInfoList, ListMemberInfo_Write))
    \o (IF removeList = <<>> THEN <<>> ELSE Structs("REM", removeList, ListMemberId_Write))
WriteLists(listMembersData) == Structs("LMAP", listMembersData, ListMembers_Write)

-----------------------------------------------------------------------------
(* RoomsComponent                                                          *)

RoomView_WriteTo == Texts(<<"DISP">>) \o NoMap("GMET") \o NoMap("META") \o Numbers(<<"MXRM">>)
    \o Texts(<<"NAME">>) \o Numbers(<<"USRM">>) \o Id("VWID")
RoomCategory_WriteTo == Numbers(<<"CAPA">>) \o NoMap("CMET") \o NoMap("CRIT") \o Id("CTID")
    \o Texts(<<"DESC", "DISP", "DISR">>) \o Numbers(<<"EMAX", "EPCT", "FLAG">>) \o NoMap("GMET")
    \o Texts(<<"LOCL", "NAME">>) \o Numbers(<<"NEXP">>) \o Texts(<<"PASS">>) \o Numbers(<<"UCRT">>)
    \o Id("VWID")
Room_WriteTo(users) == Numbers(<<"AREM">>) \o NoMap("ATTR") \o Integers_("BLST", users)
    \o Id("CAP") \o Texts(<<"CNAM">>) \o Numbers(<<"CRET">>) \o NoMap("CRIT") \o Numbers(<<"CRTM">>)
    \o Id("CTID") \o Numbers(<<"ENUM">>) \o Texts(<<"HNAM">>) \o Numbers(<<"HOST">>) \o Texts(<<"NAME">>)
    \o Id("POPU") \o Texts(<<"PSWD", "PVAL">>) \o Id("RMID") \o Numbers(<<"UCRT">>)
WriteJoinRoom(users, memberData) ==
    Texts(<<"CRIT">>) \o Numbers(<<"VERS">>) \o push_struct("CDAT", RoomCategory_WriteTo)
    \o push_struct("RDAT", Room_WriteTo(users)) \o push_struct("VDAT", RoomView_WriteTo)
    \o push_struct("MDAT", RoomMemberData_Write(memberData))

NotifyRoomViewRemoved == Id("VWID")
NotifyRoomCategoryRemoved == Id("CTID")
NotifyRoomRemoved == Id("RMID")
NotifyRoomPopulationUpdated == NoMap("POPA") \o NoMap("POPM")
NotifyRoomMemberLeft == Ids(<<"MBID", "RMID">>)
NotifyRoomMemberUpdated == Ids(<<"BZID", "RMID">>)
NotifyRoomKick == Ids(<<"MBID", "RMID">>)
NotifyRoomHostTransfer == Ids(<<"MBID", "RMID">>)
NotifyRoomAttributesSet == NoMap("ATTR") \o Id("RMID")

-----------------------------------------------------------------------------
(* PlaygroupsComponent                                                     *)

NotifyDestroyPlaygroup == Ids(<<"PGID", "REAS">>)
NotifyJoinPlaygroup(info) ==
    push_struct("INFO", PlaygroupInfo_Write(info)) \o Structs("MLST", <<>>, PlaygroupMemberInfo_Write)
    \o put_integer("USER", info.ownerId)
NotifyMemberJoinedPlaygroup(memberInfo) == push_struct("MEMB", PlaygroupMemberInfo_Write(memberInfo)) \o Id("PGID")
NotifyMemberRemovedFromPlaygroup == Numbers(<<"MLST">>) \o Ids(<<"PGID", "REAS">>)
NotifyPlaygroupAttributesSet == NoMap("ATTR") \o Id("PGID")
NotifyMemberAttributesSet == NoMap("ATTR") \o Numbers(<<"EID">>) \o Id("PGID")
NotifyLeaderChange == Numbers(<<"HSID", "LID">>) \o Id("PGID")
NotifyMemberPermissionsChange == Numbers(<<"LID", "PERM">>) \o Id("PGID")
NotifyJoinControlsChange == Numbers(<<"OPEN">>) \o Id("PGID")
NotifyXboxSessionInfo == Id("PGID") \o Numbers(<<"PRES">>) \o Blobs(<<"XNNC", "XSES">>)

-----------------------------------------------------------------------------
(* GameManagerComponent                                                    *)

WriteStartMatchmaking == Id("MSID")
NotifyMatchmakingAsyncStatus == push_list("ASIL", "String", FALSE, <<>>) \o Ids(<<"MSID", "USID">>)
NotifyPlatformHostInitialized == Id("GID") \o Numbers(<<"PHST">>)
NotifyGameReset(gameData) == push_struct("DATA", ReplicatedGameData_Write(gameData))
NotifyGameSessionUpdated == Id("GID") \o Blobs(<<"XNNC", "XSES">>)
NotifyCreateDynamicDedicatedServerGame(gameData) ==
    push_struct("GREQ", CreateGameRequest_Write(gameData)) \o Texts(<<"MID">>)

-----------------------------------------------------------------------------
(* All of them.                                                            *)

\* What both sides send: an object, the packet, and what is read of a document.
Exchanged(o, Write(_), Read(_), j) == [sent |-> o, packet |-> Write(o), read |-> Read(j)]
Exchange(n, j) == LET p == <<n>> IN
    CASE n = "ClientData" -> Exchanged(ClientData(p), ClientData_Write, ClientData_Read, j)
      [] n = "PresenceInfo" -> Exchanged(PresenceInfo(p), PresenceInfo_Write, PresenceInfo_Read, j)
      [] n = "IpAddress" -> Exchanged(IpAddress(p), IpAddress_Write, IpAddress_Read, j)
      [] n = "HostNameAddress" -> Exchanged(HostNameAddress(p), HostNameAddress_Write, HostNameAddress_Read, j)
      [] n = "IpPairAddress" -> Exchanged(IpPairAddress(p), IpPairAddress_Write, IpPairAddress_Read, j)
      [] n = "PersonaDetails" -> Exchanged(PersonaDetails(p), PersonaDetails_Write, PersonaDetails_Read, j)
      [] n = "ListIdentification" -> Exchanged(ListIdentification(p), ListIdentification_Write, ListIdentification_Read, j)
      [] n = "ListInfo" -> Exchanged(ListInfo(p), ListInfo_Write, ListInfo_Read, j)
      [] n = "ListMemberId" -> Exchanged(ListMemberId(p), ListMemberId_Write, ListMemberId_Read, j)
      [] n = "ClientMessage" -> Exchanged(ClientMessage(p), ClientMessage_Write, ClientMessage_Read, j)
      [] n = "UserIdentification" -> Exchanged(UserIdentification(p), UserIdentification_Write, UserIdentification_Read, j)
      [] n = "UserSessionExtendedData" -> Exchanged(UserSessionExtendedData(p), UserSessionExtendedData_Write, UserSessionExtendedData_Read, j)
      [] n = "UserData" -> Exchanged(UserData(p), UserData_Write, UserData_Read, j)
      [] n = "PlayerConnectionStatus" -> Exchanged(PlayerConnectionStatus(p), PlayerConnectionStatus_Write, PlayerConnectionStatus_Read, j)
      [] n = "UserDetails" -> Exchanged(UserDetails(p), UserDetails_Write, UserDetails_Read, j)
      [] n = "PasswordRulesInfo" -> Exchanged(PasswordRulesInfo(p), PasswordRulesInfo_Write, PasswordRulesInfo_Read, j)
      [] n = "RoomMemberData" -> Exchanged(RoomMemberData(p), RoomMemberData_Write, RoomMemberData_Read, j)
      [] n = "CreateGameRequest" -> Exchanged(CreateGameRequest(p), CreateGameRequest_Write, CreateGameRequest_Read, j)
BothWays == {"ClientData", "PresenceInfo", "IpAddress", "HostNameAddress", "IpPairAddress", "PersonaDetails", "ListIdentification", "ListInfo", "ListMemberId", "ClientMessage", "UserIdentification", "UserSessionExtendedData", "UserData", "PlayerConnectionStatus", "UserDetails", "PasswordRulesInfo", "RoomMemberData", "CreateGameRequest"}
\* What the server only sends.
Sent(n) == LET p == <<n>> IN
    CASE n = "UserOptions" -> UserOptions_Write(UserOptions(p))
      [] n = "TickerServer" -> TickerServer_Write(TickerServer(p))
      [] n = "TelemetryServer" -> TelemetryServer_Write(TelemetryServer(p))
      [] n = "QosConfigInfo" -> QosConfigInfo_Write(QosConfigInfo(p))
      [] n = "ListMemberInfoUpdate" -> ListMemberInfoUpdate_Write(ListMemberInfoUpdate(p))
      [] n = "ServerMessage" -> ServerMessage_Write(ServerMessage(p))
      [] n = "ReplicatedGamePlayer" -> ReplicatedGamePlayer_Write(ReplicatedGamePlayer(p))
      [] n = "WriteLogin" -> WriteLogin(PersonaDetails(p))
      [] n = "WriteFullLogin" -> WriteFullLogin(SessionInfo(p))
      [] n = "WriteTOSInfo" -> WriteTOSInfo
      [] n = "WriteTermsAndConditions" -> WriteTermsAndConditions
      [] n = "WritePrivacyPolicy" -> WritePrivacyPolicy
      [] n = "WritePostAuth" -> WritePostAuth(PssConfig(p), TelemetryServer(p), TickerServer(p), UserOptions(p))
      [] n = "WriteServerInstanceInfo" -> WriteServerInstanceInfo
      [] n = "WriteServerAddressInfo" -> WriteServerAddressInfo
      [] n = "UpdateListMembersResponse" -> UpdateListMembersResponse(Each(p, ListMemberInfo), Each(p, ListMemberId))
      [] n = "WriteLists" -> WriteLists(Each(p, ListMembers))
      [] n = "WriteJoinRoom" -> WriteJoinRoom(Vector(p, "uint64_t"), RoomMemberData(p))
      [] n = "NotifyRoomViewRemoved" -> NotifyRoomViewRemoved
      [] n = "NotifyRoomCategoryRemoved" -> NotifyRoomCategoryRemoved
      [] n = "NotifyRoomRemoved" -> NotifyRoomRemoved
      [] n = "NotifyRoomPopulationUpdated" -> NotifyRoomPopulationUpdated
      [] n = "NotifyRoomMemberLeft" -> NotifyRoomMemberLeft
      [] n = "NotifyRoomMemberUpdated" -> NotifyRoomMemberUpdated
      [] n = "NotifyRoomKick" -> NotifyRoomKick
      [] n = "NotifyRoomHostTransfer" -> NotifyRoomHostTransfer
      [] n = "NotifyRoomAttributesSet" -> NotifyRoomAttributesSet
      [] n = "NotifyDestroyPlaygroup" -> NotifyDestroyPlaygroup
      [] n = "NotifyJoinPlaygroup" -> NotifyJoinPlaygroup(PlaygroupInfo(p))
      [] n = "NotifyMemberJoinedPlaygroup" -> NotifyMemberJoinedPlaygroup(PlaygroupMemberInfo(p))
      [] n = "NotifyMemberRemovedFromPlaygroup" -> NotifyMemberRemovedFromPlaygroup
      [] n = "NotifyPlaygroupAttributesSet" -> NotifyPlaygroupAttributesSet
      [] n = "NotifyMemberAttributesSet" -> NotifyMemberAttributesSet
      [] n = "NotifyLeaderChange" -> NotifyLeaderChange
      [] n = "NotifyMemberPermissionsChange" -> NotifyMemberPermissionsChange
      [] n = "NotifyJoinControlsChange" -> NotifyJoinControlsChange
      [] n = "NotifyXboxSessionInfo" -> NotifyXboxSessionInfo
      [] n = "WriteStartMatchmaking" -> WriteStartMatchmaking
      [] n = "NotifyMatchmakingAsyncStatus" -> NotifyMatchmakingAsyncStatus
      [] n = "NotifyPlatformHostInitialized" -> NotifyPlatformHostInitialized
      [] n = "NotifyGameReset" -> NotifyGameReset(ReplicatedGameData(p))
      [] n = "NotifyGameSessionUpdated" -> NotifyGameSessionUpdated
      [] n = "NotifyCreateDynamicDedicatedServerGame" -> NotifyCreateDynamicDedicatedServerGame(CreateGameRequest(p))
Packet(n) == IF n \in BothWays THEN Exchange(n, Nothing).packet ELSE Sent(n)

-----------------------------------------------------------------------------
Unread == Got(TRUE, 1, Empty(FALSE))
MessageInit ==
    /\ name \in Names
    /\ items \in Sizes
    /\ wide \in Widths
    /\ addressed \in BOOLEAN
    /\ wire = <<>>
    /\ document = Unread
WriteMessage ==
    /\ wire = <<>>
    /\ wire' = Packet_Write(Packet(name))
    /\ UNCHANGED <<name, items, wide, addressed, document>>
ReadMessage ==
    /\ wire # <<>>
    /\ document' = Parser_Read(wire)
    /\ UNCHANGED <<name, items, wide, addressed, wire>>
MessageNext == WriteMessage \/ ReadMessage
MessageSpec == MessageInit /\ [][MessageNext]_messageVars

-----------------------------------------------------------------------------
(* Properties                                                              *)

\* Whatever is written, empty or full, is read to its last byte as the document
\* it was: types, lengths and ends of all values agree between Packet and Parser,
\* and no label stands twice.  Two things the parser does not read as they are
\* written, and a message with one of them is not covered: a number of more than
\* 55 bits, which is one of 64 bits that is negative or at least 2^55, or a
\* negative latency; and a list of object ids.
HoldsObjectIds == {"UserSessionExtendedData", "UserData"}
NumbersFit == \A k \in DOMAIN wire : wire[k][1] = "int" => wire[k][3] <= 8
ParsedWhole ==
    document # Unread /\ NumbersFit /\ ~(name \in HoldsObjectIds /\ items > 0) =>
        /\ document.ok
        /\ document.at = Len(wire) + 1
        /\ document.x.content = Document(Packet(name))

\* What a structure's Read takes from a document that its Write has made, and the
\* parser has read to the end, are the members that were written: no label is
\* taken for another, and no type is narrower than what was written under it.
\* Not covered are numbers of more than 55 bits and lists of object ids, which
\* the parser does not read, and the members that are known to get lost.
KnownLost(n) ==
    CASE n = "UserSessionExtendedData" -> DOMAIN UserSessionExtendedData(<<>>)
      [] n = "UserData" -> {"extendedData", "user"}
      [] n = "CreateGameRequest" -> {"hostNetwork", "resetable", "playgroupSc"}
      [] OTHER -> {}
MessagesRestored ==
    name \in BothWays /\ document # Unread /\ document.ok =>
        LET e == Exchange(name, document.x)
        IN \A m \in DOMAIN e.sent \ KnownLost(name) : m \in DOMAIN e.read /\ e.read[m] = e.sent[m]
=============================================================================

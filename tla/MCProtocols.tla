---------------------------- MODULE MCProtocols ----------------------------
(* The two protocols and the files side by side: a behaviour is of one.    *)
EXTENDS Wire, SaveFile

AllKinds == {"cAIDirector", "CreateData", "GravityForce", "DifficultyTuning", "PlanetData",
    "ChainVoteData", "CompletedChain", "Objective", "CashOutData", "Object",
    "AgentBlackboard", "CombatantData", "InteractableData", "Attributes", "LootData",
    "LobParameters",
    "ProjectileParameters", "Locomotion", "PlayerLocomotion", "Catalyst", "CombatEvent",
    "ServerEvent", "ClientEvent", "Character", "Player"}
AllNames == {
    "ClientData", "PresenceInfo", "IpAddress", "HostNameAddress",
    "IpPairAddress", "PersonaDetails", "ListIdentification", "ListInfo",
    "ListMemberId", "ClientMessage", "UserIdentification",
    "UserSessionExtendedData", "UserData", "PlayerConnectionStatus",
    "UserDetails", "PasswordRulesInfo", "RoomMemberData", "CreateGameRequest",
    "UserOptions", "TickerServer", "TelemetryServer", "QosConfigInfo",
    "ListMemberInfoUpdate", "ServerMessage", "ReplicatedGamePlayer",
    "WriteLogin", "WriteFullLogin", "WriteTOSInfo", "WriteTermsAndConditions",
    "WritePrivacyPolicy", "WritePostAuth", "WriteServerInstanceInfo",
    "WriteServerAddressInfo", "UpdateListMembersResponse", "WriteLists",
    "WriteJoinRoom", "NotifyRoomViewRemoved", "NotifyRoomCategoryRemoved",
    "NotifyRoomRemoved", "NotifyRoomPopulationUpdated", "NotifyRoomMemberLeft",
    "NotifyRoomMemberUpdated", "NotifyRoomKick", "NotifyRoomHostTransfer",
    "NotifyRoomAttributesSet", "NotifyDestroyPlaygroup", "NotifyJoinPlaygroup",
    "NotifyMemberJoinedPlaygroup", "NotifyMemberRemovedFromPlaygroup",
    "NotifyPlaygroupAttributesSet", "NotifyMemberAttributesSet",
    "NotifyLeaderChange", "NotifyMemberPermissionsChange",
    "NotifyJoinControlsChange", "NotifyXboxSessionInfo",
    "WriteStartMatchmaking", "NotifyMatchmakingAsyncStatus",
    "NotifyPlatformHostInitialized", "NotifyGameReset",
    "NotifyGameSessionUpdated", "NotifyCreateDynamicDedicatedServerGame"}

NoKind == "GravityForce"    \* nothing ever happens to one
NoName == "none"

ProtocolInit ==
    \/ Init /\ name = NoName /\ items = 0 /\ wide = "one" /\ addressed = FALSE
            /\ wire = <<>> /\ document = Unread /\ memory = NoUser /\ xml = NoFile
    \/ Init /\ kind = NoKind /\ MessageInit /\ memory = NoUser /\ xml = NoFile
    \/ Init /\ kind = NoKind /\ SaveInit
ProtocolNext ==
    \/ name = NoName /\ Next /\ UNCHANGED <<messageVars, saveVars>>
    \/ name \in Names /\ MessageNext /\ UNCHANGED <<vars, saveVars>>
    \/ name = FileName /\ SaveNext /\ UNCHANGED <<vars, messageVars>>
ProtocolSpec == ProtocolInit /\ [][ProtocolNext]_<<vars, messageVars, saveVars>>
=============================================================================

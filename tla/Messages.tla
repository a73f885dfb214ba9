----------------------------- MODULE Messages ------------------------------
(***************************************************************************)
(* What the Blaze components say: the structures of blaze/functions with   *)
(* their members, how one is written to a packet (X_Write) and, of those   *)
(* that a client sends as well, how one is read from a parsed document     *)
(* (X_Read); and the replies and notifications made of them.               *)
(*                                                                         *)
(* Every member has a value of its own, known by its path, so that a value *)
(* that ends in the wrong place is seen.  An object is a function from the *)
(* names of its members, and put_integer and put_string take what the type *)
(* of a member allows.                                                     *)
(***************************************************************************)
EXTENDS Tdf

CONSTANTS Names,    \* the messages
          Sizes     \* how many items a list or a map may hold
VARIABLES name,        \* which message it is,
          items,        \* how many items its lists and maps hold,
          wide,        \* how large its numbers are,
          addressed,   \* whether the client's addresses are known
          wire,        \* what was written
          document     \* what the other end has read
messageVars == <<name, items, wide, addressed, wire, document>>

-----------------------------------------------------------------------------
(* Members.                                                                *)

\* "one": of one byte; "most": as large as their types allow; "eight": as large
\* as that, but no larger than the parser reads.  encode_tdf_integer takes 64
\* bits: ten bytes of a large number, and of any negative one.  ("uint64_t" is
\* int64_t as well.)
Widths == {"one", "eight", "most"}
Bytes(as) ==
    IF wide = "one" THEN 1
    ELSE CASE as = "bool" -> 1 [] as \in {"uint8_t", "enum"} -> 2 [] as = "uint16_t" -> 3
           [] as = "uint32_t" -> 5 [] as = "int32_t" -> IF wide = "most" THEN 10 ELSE 5
           [] as = "uint64_t" -> IF wide = "most" THEN 10 ELSE 8 [] OTHER -> 1
Value(p, as) == [of |-> p, as |-> as, bytes |-> Bytes(as)]
Members(p, as, names) == [m \in names |-> Value(Append(p, m), as)]
Text(p, names) == Members(p, "string", names)
Bool(p, names) == Members(p, "bool", names)
Enum(p, names) == Members(p, "enum", names)
U8(p, names) == Members(p, "uint8_t", names)
U16(p, names) == Members(p, "uint16_t", names)
U32(p, names) == Members(p, "uint32_t", names)
U64(p, names) == Members(p, "uint64_t", names)
object_id(p) == U16(p, {"x", "y"}) @@ U64(p, {"z"})
Each(p, F(_)) == [i \in 1..items |-> F(Append(p, ToString(i)))]
Vector(p, as) == Each(p, LAMBDA q : Value(q, as))
Table(p, keyAs, as) == Each(p, LAMBDA q : <<Value(Append(q, "key"), keyAs), Value(q, as)>>)
TextTables(p, names) == [m \in names |-> Table(Append(p, m), "string", "string")]

\* pairs: a label, a member, a label, a member and so on.
Put(o, pairs) ==
    Joined([k \in 1..(Len(pairs) \div 2) |-> <<pairs[2 * k - 1], o[pairs[2 * k]]>>],
           LAMBDA lm : IF lm[2].as = "string" THEN put_string(lm[1], lm[2]) ELSE put_integer(lm[1], lm[2]))
\* Constants, by their labels.
Numbers(labels) == Joined(labels, LAMBDA l : put_integer(l, NoValue))
Texts(labels) == Joined(labels, LAMBDA l : put_string(l, NoValue))
Blobs(labels) == Joined(labels, put_blob)
PutObjectId(l, o) == put_object_id(l, o.x, o.y, o.z)
Integers_(l, vector) ==
    push_list(l, "Integer", FALSE, [i \in DOMAIN vector |-> Item(put_integer("", vector[i]))])
Structs(l, objects, Write(_)) ==
    push_list(l, "Struct", FALSE, [i \in DOMAIN objects |-> Item(push_struct("", Write(objects[i])))])
TextMap(l, keyType, table) ==
    push_map(l, keyType, "String", [i \in DOMAIN table |-> Entry(table[i][1], put_string("", table[i][2]))])
IntegerMap(l, table) ==
    push_map(l, "Integer", "Integer",
             [i \in DOMAIN table |-> Entry(table[i][1], put_integer("", table[i][2]))])
NoMap(l) == push_map(l, "String", "String", <<>>)
NoAddress(l) == push_union(l, Unset, <<>>)

\* What a document holds under a label: nothing, when it is not there, of which
\* no member can be read.
Nothing == [type |-> "Nothing", content |-> <<>>]
At(j, l) == LET is == {i \in DOMAIN j.content : j.content[i][1] = l}
            IN IF is = {} THEN Nothing ELSE j.content[CHOOSE i \in is : TRUE][2]
Number(x, types) == IF x.type = "Integer" /\ x.v.as \in types THEN x.v ELSE NoValue
Get(j, pairs, G(_)) ==
    [m \in {pairs[2 * k] : k \in 1..(Len(pairs) \div 2)} |->
        G(At(j, pairs[2 * (CHOOSE k \in 1..(Len(pairs) \div 2) : pairs[2 * k] = m) - 1]))]
AsUint(x) == Number(x, {"bool", "enum", "uint8_t", "uint16_t", "uint32_t"})
AsUint64(x) == Number(x, {"bool", "enum", "uint8_t", "uint16_t", "uint32_t", "uint64_t"})
AsString(x) == IF x.type = "String" THEN x.v ELSE NoValue
GetUint(j, pairs) == Get(j, pairs, AsUint)
GetUint64(j, pairs) == Get(j, pairs, AsUint64)
GetString(j, pairs) == Get(j, pairs, AsString)
GetObjectId(x) ==
    IF x.type = "ObjectId" THEN [x |-> x.content[1], y |-> x.content[2], z |-> x.content[3]] ELSE <<>>
\* Only a list and a map keep what they hold under "_Content".
Content(x) == IF x.type \in {"List", "Map"} THEN x.content ELSE <<>>
Strings(x) == [i \in DOMAIN Content(x) |-> <<x.content[i][1].v, AsString(x.content[i][2])>>]
Of_(x, G(_)) == [i \in DOMAIN Content(x) |-> G(x.content[i])]
Inner(x) == At(x, "_Content")

-----------------------------------------------------------------------------
(* blaze/functions: what both sides send.                                  *)

ClientData(p) == Text(p, {"serviceName"}) @@ Enum(p, {"type"}) @@ U32(p, {"lang"}) @@ Bool(p, {"iito"})
ClientData_Read(j) == GetString(j, <<"SVCN", "serviceName">>)
    @@ GetUint(j, <<"LANG", "lang", "TYPE", "type", "IITO", "iito">>)
ClientData_Write(o) == Put(o, <<"IITO", "iito", "LANG", "lang", "SVCN", "serviceName", "TYPE", "type">>)

PresenceInfo(p) == Enum(p, {"state"}) @@ U32(p, {"level"}) @@ U16(p, {"playgroupId", "extra"})
PresenceInfo_Read(j) ==
    GetUint(j, <<"GRP", "playgroupId", "LVL", "level", "STAT", "state", "XTRA", "extra">>)
PresenceInfo_Write(o) ==
    Put(o, <<"GRP", "playgroupId", "LVL", "level", "STAT", "state", "XTRA", "extra">>)

IpAddress(p) == U32(p, {"address"}) @@ U16(p, {"port"})
IpAddress_Read(j) == GetUint(j, <<"IP", "address", "PORT", "port">>)
IpAddress_Write(o) == Put(o, <<"IP", "address", "PORT", "port">>)

HostNameAddress(p) == Text(p, {"name"}) @@ U16(p, {"port"})
HostNameAddress_Read(j) == GetString(j, <<"NAME", "name">>) @@ GetUint(j, <<"PORT", "port">>)
HostNameAddress_Write(o) == Put(o, <<"NAME", "name", "PORT", "port">>)

IpPairAddress(p) == [m \in {"exip", "inip"} |-> IpAddress(Append(p, m))]
IpPairAddress_Read(j) == [exip |-> IpAddress_Read(At(j, "EXIP")), inip |-> IpAddress_Read(At(j, "INIP"))]
SameAddress(o) == push_struct("EXIP", IpAddress_Write(o.inip)) \o push_struct("INIP", IpAddress_Write(o.inip))
    \* Mutant: the internal address is written twice
IpPairAddress_Write(o) ==
    push_struct("EXIP", IpAddress_Write(o.exip)) \o push_struct("INIP", IpAddress_Write(o.inip))

PersonaDetails(p) == Text(p, {"name"}) @@ U64(p, {"id", "externalReference"}) @@ U32(p, {"last"})
    @@ Enum(p, {"status", "externalReferenceType"})
PersonaDetails_Read(j) == GetString(j, <<"DSNM", "name">>)
    @@ GetUint(j, <<"LAST", "last", "STAS", "status", "XTYP", "externalReferenceType">>)
    @@ GetUint64(j, <<"PID", "id", "XREF", "externalReference">>)
PersonaDetails_Write(o) == Put(o, <<"DSNM", "name", "LAST", "last", "PID", "id", "STAS", "status",
    "XREF", "externalReference", "XTYP", "externalReferenceType">>)

ListIdentification(p) == Text(p, {"name"}) @@ U32(p, {"type"})
ListIdentification_Read(j) == GetString(j, <<"LNM", "name">>) @@ GetUint(j, <<"TYPE", "type">>)
ListIdentification_Write(o) == Put(o, <<"LNM", "name", "TYPE", "type">>)

ListInfo(p) == U32(p, {"flags", "lms", "prid"})
    @@ [blazeObjectId |-> object_id(Append(p, "blazeObjectId")),
        identification |-> ListIdentification(Append(p, "identification"))]
ListInfo_Read(j) == GetUint(j, <<"FLGS", "flags", "LMS", "lms", "PRID", "prid">>)
    @@ [identification |-> ListIdentification_Read(At(j, "LID")),
        blazeObjectId |-> GetObjectId(At(j, "BOID"))]
ListInfo_Write(o) ==
    PutObjectId("BOID", o.blazeObjectId) \o Put(o, <<"FLGS", "flags">>)
    \o push_struct("LID", ListIdentification_Write(o.identification))
    \o Put(o, <<"LMS", "lms", "PRID", "prid">>)

ListMemberId(p) == Text(p, {"name"}) @@ U64(p, {"id", "externalReference"})
    @@ Enum(p, {"externalReferenceType"})
ListMemberId_Read(j) == GetString(j, <<"PNAM", "name">>)
    @@ GetUint64(j, <<"BLID", "id", "XREF", "externalReference">>)
    @@ GetUint(j, <<"XTYP", "externalReferenceType">>)
ListMemberId_Write(o) == Put(o, <<"BLID", "id", "PNAM", "name", "XREF", "externalReference",
                                  "XTYP", "externalReferenceType">>)

ClientMessage(p) == U32(p, {"flags", "stat", "tag", "type"})
    @@ [attributes |-> Table(Append(p, "attributes"), "uint32_t", "string"),
        target |-> object_id(Append(p, "target"))]
ClientMessage_Read(j) == GetUint(j, <<"FLAG", "flags", "STAT", "stat", "TAG", "tag", "TYPE", "type">>)
    @@ [attributes |-> Strings(At(j, "ATTR")), target |-> GetObjectId(At(j, "TARG"))]
ClientMessage_Write(o) ==
    TextMap("ATTR", "Integer", o.attributes) \o Put(o, <<"FLAG", "flags", "STAT", "stat", "TAG", "tag">>)
    \o PutObjectId("TARG", o.target) \o Put(o, <<"TYPE", "type">>)

UserIdentification(p) == Text(p, {"name"}) @@ U64(p, {"id"}) @@ U32(p, {"localization"})
UserIdentification_Read(j) == GetUint(j, <<"ALOC", "localization">>) @@ GetUint64(j, <<"ID", "id">>)
    @@ GetString(j, <<"NAME", "name">>)
UserIdentification_Write(o) == Put(o, <<"AID", "id", "ALOC", "localization">>) \o Blobs(<<"EXBB">>)
    \o Numbers(<<"EXID">>) \o Put(o, <<"ID", "id", "NAME", "name">>)

NetworkQosData(p) == U32(p, {"dbps", "ubps"}) @@ Enum(p, {"type"})
NetworkQosData_Write(o) == Put(o, <<"DBPS", "dbps", "NATT", "type", "UBPS", "ubps">>)

\* The attributes and the data are never filled.
UserSessionExtendedData(p) == Text(p, {"country"}) @@ U64(p, {"userAttributes"}) @@ U32(p, {"hardwareFlags"})
    @@ [qos |-> NetworkQosData(Append(p, "qos")), ip |-> IpPairAddress(Append(p, "ip")),
        clientAttributes |-> <<>>, dataMap |-> <<>>,
        latencyList |-> Vector(Append(p, "latencyList"), "int32_t"),
        blazeObjectIdList |-> Each(Append(p, "blazeObjectIdList"), object_id)]
UserSessionExtendedData_Read(j) == <<>>
UserSessionExtendedData_Write(o) ==
    (IF addressed
     THEN push_union("ADDR", IpPairAddress_Member, push_struct("VALU", IpPairAddress_Write(o.ip)))
     ELSE NoAddress("ADDR"))
    \o Texts(<<"BPS">>) \o IntegerMap("CMAP", o.clientAttributes) \o Put(o, <<"CTY", "country">>)
    \o push_integer_list("CVAR", <<>>) \o IntegerMap("DMAP", o.dataMap)
    \o Put(o, <<"HWFG", "hardwareFlags">>) \o Integers_("PSLM", o.latencyList)
    \o push_struct("QDAT", NetworkQosData_Write(o.qos)) \o Put(o, <<"UATT", "userAttributes">>)
    \o push_list("ULST", "ObjectId", FALSE, [i \in DOMAIN o.blazeObjectIdList |->
                                               Item(PutObjectId("", o.blazeObjectIdList[i]))])

UserData(p) == U32(p, {"statusFlags"})
    @@ [extendedData |-> UserSessionExtendedData(Append(p, "extendedData")),
        user |-> UserIdentification(Append(p, "user"))]
UserData_Read(j) == GetUint(j, <<"FLGS", "statusFlags">>)
    @@ [extendedData |-> UserSessionExtendedData_Read(Inner(At(j, "EDAT"))),
        user |-> UserIdentification_Read(Inner(At(j, "USER")))]
UserData_Write(o) ==
    push_struct("EDAT", UserSessionExtendedData_Write(o.extendedData)) \o Put(o, <<"FLGS", "statusFlags">>)
    \o push_struct("USER", UserIdentification_Write(o.user))

PlayerConnectionStatus(p) == U64(p, {"id"}) @@ U32(p, {"flags"}) @@ Enum(p, {"status"})
PlayerConnectionStatus_Read(j) == GetUint(j, <<"FLGS", "flags", "STAT", "status">>)
    @@ GetUint64(j, <<"PID", "id">>)
PlayerConnectionStatus_Write(o) == Put(o, <<"FLGS", "flags", "PID", "id", "STAT", "status">>)

UserDetails(p) == Text(p, {"mail"})
    @@ [personaDetailsList |-> Each(Append(p, "personaDetailsList"), PersonaDetails)]
UserDetails_Read(j) == GetString(j, <<"MAIL", "mail">>)
    @@ [personaDetailsList |-> Of_(At(j, "PLST"), PersonaDetails_Read)]
UserDetails_Write(o) ==
    Put(o, <<"MAIL", "mail">>) \o Structs("PLST", o.personaDetailsList, PersonaDetails_Write)

PasswordRulesInfo(p) == Text(p, {"vdch"}) @@ U16(p, {"minS", "maxS"})
PasswordRulesInfo_Read(j) == GetUint(j, <<"MAXS", "maxS", "MINS", "minS">>)
    @@ GetString(j, <<"VDCH", "vdch">>)
PasswordRulesInfo_Write(o) == Put(o, <<"MAXS", "maxS", "MINS", "minS", "VDCH", "vdch">>)

RoomMemberData(p) == U64(p, {"memberId"}) @@ U32(p, {"roomId"})
RoomMemberData_Read(j) == GetUint64(j, <<"BZID", "memberId">>) @@ GetUint(j, <<"RMID", "roomId">>)
RoomMemberData_Write(o) == Put(o, <<"BZID", "memberId", "RMID", "roomId">>)

\* The host's addresses arrive as a stub, by their places.
CreateGameRequest(p) ==
    Text(p, {"name", "type", "playgroupId", "playgroupSc", "version", "ctr", "url"})
    @@ U32(p, {"rgid", "settings", "slot"}) @@ U16(p, {"maxPlayers", "queueCapacity", "tcap", "tIndex"})
    @@ Enum(p, {"networkTopology", "presence"}) @@ Bool(p, {"ignore", "resetable"})
    @@ TextTables(p, {"attributes", "playerAttributes", "criteria", "matr"})
    @@ [m \in {"administrators", "seat"} |-> Vector(Append(p, m), "uint64_t")]
    @@ [m \in {"capacity", "tids"} |-> Vector(Append(p, m), "uint16_t")]
    @@ [sidl |-> Vector(Append(p, "sidl"), "uint32_t"), btpl |-> object_id(Append(p, "btpl")),
        hostNetwork |-> IpPairAddress(Append(p, "hostNetwork"))]
CreateGameRequest_Read(j) ==
    LET hnet == Of_(At(j, "HNET"), IpAddress_Read)
    IN GetString(j, <<"GCTR", "ctr", "GNAM", "name", "GTYP", "type", "GURL", "url", "PGID", "playgroupId",
                      "PGSC", "playgroupSc", "VSTR", "version">>)
       @@ GetUint(j, <<"GSET", "settings", "IGNO", "ignore", "NRES", "resetable", "NTOP", "networkTopology",
                       "PMAX", "maxPlayers", "PRES", "presence", "QCAP", "queueCapacity", "RGID", "rgid",
                       "SLOT", "slot", "TCAP", "tcap", "TIDX", "tIndex">>)
       @@ [attributes |-> Strings(At(j, "ATTR")), criteria |-> Strings(At(j, "CRIT")),
           matr |-> Strings(At(j, "MATR")), playerAttributes |-> Strings(At(j, "PATT")),
           administrators |-> Of_(At(j, "ADMN"), AsUint64), seat |-> Of_(At(j, "SEAT"), AsUint64),
           capacity |-> Of_(At(j, "PCAP"), AsUint), sidl |-> Of_(At(j, "SIDL"), AsUint),
           tids |-> Of_(At(j, "TIDS"), AsUint), btpl |-> GetObjectId(At(j, "BTPL")),
           hostNetwork |-> IF Len(hnet) = 2 THEN [inip |-> hnet[1], exip |-> hnet[2]] ELSE <<>>]
Not(v) == [v EXCEPT !.of = Append(@, "negated")]
Stub(l, address) == push_list(l, "Struct", TRUE, <<Item(push_struct("", IpPairAddress_Write(address)))>>)
CreateGameRequest_Write(o) ==
    Integers_("ADMN", o.administrators) \o TextMap("ATTR", "String", o.attributes)
    \o PutObjectId("BTPL", o.btpl) \o TextMap("CRIT", "String", o.criteria)
    \o Put(o, <<"GCTR", "ctr", "GNAM", "name", "GSET", "settings", "GTYP", "type", "GURL", "url">>)
    \o Stub("HNET", o.hostNetwork) \o Put(o, <<"IGNO", "ignore">>) \o TextMap("MATR", "String", o.matr)
    \o put_integer("NRES", Not(o.resetable)) \o Put(o, <<"NTOP", "networkTopology">>)
    \o TextMap("PATT", "String", o.playerAttributes) \o Integers_("PCAP", o.capacity)
    \o Put(o, <<"PGID", "playgroupId">>) \o Blobs(<<"PGSR">>)
    \o Put(o, <<"PMAX", "maxPlayers", "PRES", "presence", "QCAP", "queueCapacity", "RGID", "rgid">>)
    \o Integers_("SEAT", o.seat) \o Integers_("SIDL", o.sidl) \o Put(o, <<"SLOT", "slot", "TCAP", "tcap">>)
    \o Integers_("TIDS", o.tids) \o Put(o, <<"TIDX", "tIndex">>) \o Numbers(<<"VOIP">>)
    \o Put(o, <<"VSTR", "version">>)

-----------------------------------------------------------------------------
(* blaze/functions: what the server only sends.                            *)

UserOptions(p) == Enum(p, {"value"})
UserOptions_Write(o) == Put(o, <<"TMOP", "value">>)

TickerServer(p) == Text(p, {"address", "key"}) @@ U32(p, {"port"})
TickerServer_Write(o) == Put(o, <<"ADRS", "address", "PORT", "port", "SKEY", "key">>)

TelemetryServer(p) == Text(p, {"address", "disable", "filter", "noToggleOk", "session", "key"})
    @@ U32(p, {"location", "port", "sendDelay", "sendPercentage"}) @@ Bool(p, {"anonymous"})
TelemetryServer_Write(o) == Put(o, <<"ADRS", "address", "ANON", "anonymous", "DISA", "disable",
    "FILT", "filter", "LOC", "location", "NOOK", "noToggleOk", "PORT", "port", "SDLY", "sendDelay",
    "SESS", "session", "SKEY", "key", "SPCT", "sendPercentage">>)

\* The oids are texts in a list of integers, and never filled.
PssConfig(p) == Text(p, {"address", "pjid"}) @@ U32(p, {"port", "rprt", "tiid"}) @@ [oids |-> <<>>]
PssConfig_Write(o) == Put(o, <<"ADRS", "address">>) \o Blobs(<<"CSIG">>) \o Integers_("OIDS", o.oids)
    \o Put(o, <<"PJID", "pjid", "PORT", "port", "RPRT", "rprt", "TIID", "tiid">>)

QosPingSiteInfo(p) == Text(p, {"name", "address"}) @@ U16(p, {"port"})
QosPingSiteInfo_Write(o) == Put(o, <<"PSA", "address", "PSP", "port", "SNA", "name">>)

QosConfigInfo(p) == U32(p, {"serviceId"}) @@ U16(p, {"latencyProbes"})
    @@ [bandwidthPingSiteInfo |-> Each(Append(p, "bandwidthPingSiteInfo"), QosPingSiteInfo),
        pingSiteInfoByAlias |-> Each(Append(p, "pingSiteInfoByAlias"),
            LAMBDA q : <<Value(Append(q, "key"), "string"), QosPingSiteInfo(q)>>)]
QosConfigInfo_Write(o) ==
    LET sites == o.pingSiteInfoByAlias
    IN push_struct("BWPS", IF o.bandwidthPingSiteInfo = <<>> THEN <<>>
                           ELSE QosPingSiteInfo_Write(o.bandwidthPingSiteInfo[1]))
       \o Put(o, <<"LNP", "latencyProbes">>)
       \o push_map("LTPS", "String", "Struct", [i \in DOMAIN sites |->
              Entry(sites[i][1], push_struct("", QosPingSiteInfo_Write(sites[i][2])))])
       \o Put(o, <<"SVID", "serviceId">>)

HostInfo(p) == U64(p, {"id"}) @@ U8(p, {"slot"})
HostInfo_Write(o) == Put(o, <<"HPID", "id", "HSLT", "slot">>)

SessionInfo(p) == Text(p, {"email", "key"}) @@ U64(p, {"blazeId", "uid", "lastLogin"})
    @@ Bool(p, {"firstLogin"}) @@ [personaDetails |-> PersonaDetails(Append(p, "personaDetails"))]
SessionInfo_Write(o) ==
    Put(o, <<"BUID", "blazeId", "FRST", "firstLogin", "KEY", "key", "LLOG", "lastLogin", "MAIL", "email">>)
    \o push_struct("PDTL", PersonaDetails_Write(o.personaDetails)) \o Put(o, <<"UID", "uid">>)

ListMemberInfo(p) == U64(p, {"time"}) @@ [id |-> ListMemberId(Append(p, "id"))]
ListMemberInfo_Write(o) == push_struct("LMID", ListMemberId_Write(o.id)) \o Put(o, <<"TIME", "time">>)

ListMemberInfoUpdate(p) == Enum(p, {"type"}) @@ [info |-> ListMemberInfo(Append(p, "info"))]
ListMemberInfoUpdate_Write(o) ==
    push_struct("LMID", ListMemberInfo_Write(o.info)) \o Put(o, <<"LUPT", "type">>)

ListMembers(p) == U32(p, {"ofrc", "toct"})
    @@ [memberList |-> Each(Append(p, "memberList"), ListMemberInfo), info |-> ListInfo(Append(p, "info"))]
ListMembers_Write(o) ==
    push_struct("INFO", ListInfo_Write(o.info)) \o Structs("MEML", o.memberList, ListMemberInfo_Write)
    \o Put(o, <<"OFRC", "ofrc", "TOCT", "toct">>)

ServerMessage(p) == Text(p, {"name"}) @@ U32(p, {"flags", "messageId", "time"})
    @@ [message |-> ClientMessage(Append(p, "message")), source |-> object_id(Append(p, "source"))]
ServerMessage_Write(o) ==
    Put(o, <<"FLAG", "flags", "MGID", "messageId", "NAME", "name">>)
    \o push_struct("PYLD", ClientMessage_Write(o.message)) \o PutObjectId("SRCE", o.source)
    \o Put(o, <<"TIME", "time">>)

\* The attributes are texts under integers, and never filled.
PlaygroupInfo(p) == Text(p, {"uuid", "ukey", "name"}) @@ U64(p, {"ownerId"}) @@ U32(p, {"playgroupId"})
    @@ U16(p, {"memberLimit"}) @@ U8(p, {"hostSlotId"}) @@ Enum(p, {"state", "ntop", "pres"})
    @@ Bool(p, {"uprs", "enbv"}) @@ [attributes |-> <<>>]
PlaygroupInfo_Write(o) ==
    TextMap("ATTR", "Integer", o.attributes) \o Put(o, <<"ENBV", "enbv">>) \o NoAddress("HNET")
    \o Put(o, <<"HSID", "hostSlotId", "JOIN", "state", "MLIM", "memberLimit", "NAME", "name", "NTOP", "ntop",
                "OWNR", "ownerId", "PGID", "playgroupId", "PRES", "pres", "UKEY", "ukey", "UPRS", "uprs",
                "UUID", "uuid">>) \o Numbers(<<"VOIP">>) \o Blobs(<<"XNNC", "XSES">>)

PlaygroupMemberInfo(p) == U32(p, {"jtim", "permissions"}) @@ U8(p, {"slot"})
    @@ [attributes |-> <<>>, user |-> UserIdentification(Append(p, "user"))]
PlaygroupMemberInfo_Write(o) ==
    TextMap("ATTR", "Integer", o.attributes) \o Put(o, <<"JTIM", "jtim", "PERM", "permissions">>)
    \o NoAddress("PNET") \o Put(o, <<"SID", "slot">>) \o push_struct("USER", UserIdentification_Write(o.user))

ReplicatedGamePlayer(p) == Text(p, {"name"}) @@ U64(p, {"id", "time"}) @@ U16(p, {"tIndex"}) @@ U8(p, {"slot"})
    @@ U32(p, {"gameId", "localization", "uid"}) @@ Enum(p, {"slotType", "state"})
    @@ [ugid |-> object_id(Append(p, "ugid")), hostNetwork |-> IpPairAddress(Append(p, "hostNetwork"))]
ReplicatedGamePlayer_Write(o) ==
    Blobs(<<"BLOB">>) \o Numbers(<<"EXID">>) \o Put(o, <<"GID", "gameId", "LOC", "localization", "NAME", "name">>)
    \o NoMap("PATT") \o Put(o, <<"PID", "id">>)
    \o push_union("PNET", IpPairAddress_Member, push_struct("VALU", IpPairAddress_Write(o.hostNetwork)))
    \o Put(o, <<"SID", "slot", "SLOT", "slotType", "STAT", "state", "TIDX", "tIndex", "TIME", "time">>)
    \o PutObjectId("UGID", o.ugid) \o Put(o, <<"UID", "uid">>)

ReplicatedGameData(p) == Text(p, {"name", "type", "playgroupId", "psas", "uuid", "version"})
    @@ U64(p, {"gpvh", "gsid"}) @@ U32(p, {"id", "settings", "hses", "seed"})
    @@ U16(p, {"maxPlayers", "queueCapacity", "tcap"}) @@ Enum(p, {"state", "networkTopology", "presence"})
    @@ Bool(p, {"ignore", "resetable"}) @@ TextTables(p, {"attributes", "criteria"})
    @@ [m \in {"capacity", "tids"} |-> Vector(Append(p, m), "uint16_t")]
    @@ [m \in {"pHost", "tHost"} |-> HostInfo(Append(p, m))]
    @@ [administrators |-> Vector(Append(p, "administrators"), "uint64_t"),
        hostNetwork |-> IpPairAddress(Append(p, "hostNetwork")),
        networkQos |-> NetworkQosData(Append(p, "networkQos"))]
ReplicatedGameData_Write(o) ==
    Integers_("ADMN", o.administrators) \o TextMap("ATTR", "String", o.attributes)
    \o Integers_("CAP", o.capacity) \o TextMap("CRIT", "String", o.criteria)
    \o Put(o, <<"GID", "id", "GNAM", "name", "GPVH", "gpvh", "GSET", "settings", "GSID", "gsid",
                "GSTA", "state", "GTYP", "type">>)
    \o Stub("HNET", o.hostNetwork) \o Put(o, <<"HSES", "hses", "IGNO", "ignore", "MCAP", "maxPlayers">>)
    \o push_struct("NQOS", NetworkQosData_Write(o.networkQos)) \o put_integer("NRES", Not(o.resetable))
    \o Put(o, <<"NTOP", "networkTopology", "PGID", "playgroupId">>) \o Blobs(<<"PGSR">>)
    \o push_struct("PHST", HostInfo_Write(o.pHost))
    \o Put(o, <<"PRES", "presence", "PSAS", "psas", "QCAP", "queueCapacity", "SEED", "seed", "TCAP", "tcap">>)
    \o push_struct("THST", HostInfo_Write(o.tHost)) \o Integers_("TIDS", o.tids)
    \o Put(o, <<"UUID", "uuid">>) \o Numbers(<<"VOIP">>) \o Put(o, <<"VSTR", "version">>)
    \o Blobs(<<"XNNC", "XSES">>)
=============================================================================

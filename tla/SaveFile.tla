------------------------------ MODULE SaveFile ------------------------------
(***************************************************************************)
(* What is kept of a user between two logins: the XML document that        *)
(* User::Save makes of a User and User::Load makes a new User of.  An      *)
(* element is <<tag, text>> or <<tag, elements>>; the text of a value is   *)
(* the value and the form it is put in.  Values are those of Messages, a   *)
(* number that is looked at with "is", the number.                         *)
(***************************************************************************)
EXTENDS Replies

VARIABLES
    memory,   \* the User of a login
    xml       \* the file of its name
saveVars == <<memory, xml>>

NoUser == <<>>
NoFile == <<>>
FileName == "data/user"    \* the name of these behaviours, which no message has

-----------------------------------------------------------------------------
(* utils: elements with a text.                                            *)

Floats == {"float", "double"}
Form(v) == CASE v.as = "string" -> "text" [] v.as \in Floats -> "decimals" [] OTHER -> "digits"
Pairs(pairs) == [k \in 1..(Len(pairs) \div 2) |-> <<pairs[2 * k - 1], pairs[2 * k]>>]

xml_add_text_node(o, pairs) ==
    Joined(Pairs(pairs), LAMBDA tm : << <<tm[1], [v |-> o[tm[2]], form |-> Form(o[tm[2]])]>> >>)

NoText == [v |-> NoValue, form |-> "none"]
Child(node, tag, none) ==
    LET i == SelectInSeq(node, LAMBDA e : e[1] = tag) IN IF i = 0 THEN none ELSE node[i][2]
xml_get_text_node(node, pairs, To(_)) ==
    [m \in {p[2] : p \in ToSet(Pairs(pairs))} |->
        To(Child(node, Pairs(pairs)[SelectInSeq(Pairs(pairs), LAMBDA p : p[2] = m)][1], NoText))]

\* A number that is wider than the type it is read as loses its high digits.
Narrowest == <<"bool", "uint8_t", "uint16_t", "uint32_t", "int64_t", "uint64_t">>
Fits_(as, type) == SelectInSeq(Narrowest, LAMBDA t : t = as) <= SelectInSeq(Narrowest, LAMBDA t : t = type)
ToNumber(x, type) == IF x.form = "digits" /\ Fits_(x.v.as, type) THEN x.v ELSE NoValue
ToBool(x) == ToNumber(x, "bool")
ToU8(x) == ToNumber(x, "uint8_t")
ToU16(x) == ToNumber(x, "uint16_t")
ToU32(x) == ToNumber(x, "uint32_t")
ToI64(x) == ToNumber(x, "int64_t")
ToU64(x) == ToNumber(x, "uint64_t")
ToFloat(x) == IF x.form \in {"digits", "decimals"} THEN x.v ELSE NoValue
ToText(x) == IF x.form = "text" THEN x.v ELSE NoValue

Number_(p, as, n) == Value(p, as) @@ [is |-> n]
NumberOf(v) == IF "is" \in DOMAIN v THEN v.is ELSE 0
Pick(ids, i) == ids[((2 * i + (IF wide # "one" THEN 1 ELSE 0)) % Len(ids)) + 1]
EachChild(node, tag, tags, Read_(_)) ==
    LET named == SelectSeq(Child(node, tag, <<>>), LAMBDA e : e[1] \in tags)
    IN [i \in DOMAIN named |-> Read_(named[i][2])]

-----------------------------------------------------------------------------
(* Account                                                                 *)

Words == {"chainProgression", "creatureRewards", "currentGameId", "currentPlaygroupId",
    "defaultDeckPveId", "defaultDeckPvpId", "level", "xp", "dna", "newPlayerInventory",
    "newPlayerProgress", "cashoutBonusTime", "starLevel", "unlockCatalysts",
    "unlockDiagonalCatalysts", "unlockInventory", "unlockFuelTanks", "unlockPveDecks",
    "unlockPvpDecks", "unlockStats", "unlockInventoryIdentify", "unlockEditorFlairSlots",
    "upsell", "capLevel", "capProgression"}
MaxAvatar == 16
Account(p) == U32(p, Words) @@ Bool(p, {"tutorialCompleted", "grantAllAccess", "grantOnlineAccess"})
    @@ [id |-> Value(Append(p, "id"), "int64_t"),
        avatarId |-> Number_(Append(p, "avatarId"), "uint32_t", Pick(<<0, MaxAvatar>>, 0))]

\* The second of two tags for a member is the one that counts.
Account_Read(node) ==
    [avatarId |-> LET a == ToU32(Child(node, "avatar_id", NoText))
                  IN IF NumberOf(a) \in 0..MaxAvatar THEN a ELSE [a EXCEPT !.is = MaxAvatar],
     tutorialCompleted |-> LET t == Child(node, "tutorial_completed", NoText)
                           IN IF t.form = "YN" THEN t.v ELSE NoValue,
     unlockInventory |-> NoValue]
    @@ xml_get_text_node(node, <<"id", "id">>, ToI64)
    @@ xml_get_text_node(node, <<"grant_all_access", "grantAllAccess",
        "grant_online_access", "grantOnlineAccess", "chain_progression", "chainProgression",
        "creature_rewards", "creatureRewards", "current_game_id", "currentGameId",
        "current_playgroup_id", "currentPlaygroupId", "default_deck_pve_id", "defaultDeckPveId",
        "default_deck_pvp_id", "defaultDeckPvpId", "level", "level", "xp", "xp", "dna", "dna",
        "new_player_inventory", "newPlayerInventory", "new_player_progress", "newPlayerProgress",
        "cashout_bonus_time", "cashoutBonusTime", "star_level", "starLevel",
        "unlock_catalysts", "unlockCatalysts",
        "unlock_diagonal_catalysts", "unlockDiagonalCatalysts",
        "unlock_fuel_tanks", "unlockFuelTanks", "unlock_pve_decks", "unlockPveDecks",
        "unlock_pvp_decks", "unlockPvpDecks", "unlock_stats", "unlockStats",
        "unlock_inventory_identify", "unlockInventoryIdentify",
        "unlock_editor_flair_slots", "unlockEditorFlairSlots", "upsell", "upsell",
        "cap_level", "capLevel", "cap_progression", "capProgression">>, ToU32)

Account_Write(o) ==
    << <<"tutorial_completed", [v |-> o.tutorialCompleted, form |-> "YN"]>> >>
    \o xml_add_text_node(o, <<"chain_progression", "chainProgression",
        "creature_rewards", "creatureRewards", "current_game_id", "currentGameId",
        "current_playgroup_id", "currentPlaygroupId", "default_deck_pve_id", "defaultDeckPveId",
        "default_deck_pvp_id", "defaultDeckPvpId", "dna", "dna", "level", "level",
        "avatar_id", "avatarId", "id", "id", "new_player_inventory", "newPlayerInventory",
        "new_player_progress", "newPlayerProgress", "cashout_bonus_time", "cashoutBonusTime",
        "star_level", "starLevel", "unlock_catalysts", "unlockCatalysts",
        "unlock_diagonal_catalysts", "unlockDiagonalCatalysts",
        "unlock_fuel_tanks", "unlockFuelTanks", "unlock_inventory", "unlockInventoryIdentify",
        "unlock_pve_decks", "unlockPveDecks", "unlock_pvp_decks", "unlockPvpDecks",
        "unlock_stats", "unlockStats", "unlock_inventory_identify", "unlockInventoryIdentify",
        "unlock_editor_flair_slots", "unlockEditorFlairSlots", "upsell", "upsell", "xp", "xp",
        "grant_all_access", "grantAllAccess", "cap_level", "capLevel",
        "cap_progression", "capProgression">>)

-----------------------------------------------------------------------------
(* Feed                                                                    *)

FeedMessageTypes == {1, 2, 3}
FeedItem(p, i) == Text(p, {"metadata", "name"}) @@ U64(p, {"timestamp"}) @@ U32(p, {"accountId", "id"})
    @@ [messageId |-> Number_(Append(p, "messageId"), "uint32_t", Pick(<<1, 2, 3>>, i))]
FeedItem_Read(node) ==
    xml_get_text_node(node, <<"account_id", "accountId", "id", "id">>, ToU32)
    @@ [messageId |-> LET type == ToU32(Child(node, "message_id", NoText))
                      IN IF NumberOf(type) \in FeedMessageTypes THEN type ELSE NoValue]
    @@ xml_get_text_node(node, <<"metadata", "metadata", "name", "name">>, ToText)
    @@ xml_get_text_node(node, <<"time", "timestamp">>, ToU64)
FeedItem_Write(o) == xml_add_text_node(o, <<"account_id", "accountId", "id", "id",
    "message_id", "messageId", "metadata", "metadata", "name", "name", "time", "timestamp">>)
\* Whatever an item is called.
Feed_Read(user) ==
    LET elements == Child(Child(user, "feed", <<>>), "items", <<>>)
    IN [i \in DOMAIN elements |-> FeedItem_Read(elements[i][2])]
Feed_Write(feed) == << <<"feed",
    IF feed = <<>> THEN <<>>
    ELSE << <<"items", [i \in DOMAIN feed |-> <<"item", FeedItem_Write(feed[i])>>]>> >> >> >>

-----------------------------------------------------------------------------
(* Creatures and squads                                                    *)

Creature(p) == Text(p, {"mTemplate", "mPngLargeUrl", "mPngThumbUrl", "mStats", "mAbilityStats"})
    @@ U32(p, {"mId", "mVersion"}) @@ Members(p, "float", {"mGearScore", "mItemPoints"})
    @@ Members(p, "int64_t", {"mCreatorId"})
\* The template is looked up by the name in the attribute.
Creature_Read(node) ==
    xml_get_text_node(node, <<"@template", "mTemplate", "png_large_url", "mPngLargeUrl",
                              "png_thumb_url", "mPngThumbUrl">>, ToText)
    @@ xml_get_text_node(node, <<"id", "mId", "version", "mVersion">>, ToU32)
    @@ xml_get_text_node(node, <<"gear_score", "mGearScore", "item_points", "mItemPoints">>, ToFloat)
    @@ [m \in {"mStats", "mAbilityStats", "mCreatorId"} |-> NoValue]
Creature_Write(o) == xml_add_text_node(o, <<"@template", "mTemplate", "id", "mId",
    "version", "mVersion", "gear_score", "mGearScore", "item_points", "mItemPoints",
    "png_large_url", "mPngLargeUrl", "png_thumb_url", "mPngThumbUrl">>)
Creatures_Read(user) == EachChild(user, "creatures", {"creature"}, Creature_Read)
Creatures_Write(creatures) ==
    << <<"creatures", [i \in DOMAIN creatures |-> <<"creature", Creature_Write(creatures[i])>>]>> >>

SquadPlaces == 1..3
Squad(p) == Text(p, {"mName", "mCategory"}) @@ U32(p, {"mId", "mSlot"}) @@ Bool(p, {"mLocked"})
    @@ [mCreatureIds |-> [i \in SquadPlaces |-> Value(p \o <<"mCreatureIds", ToString(i)>>, "uint32_t")]]
Squad_Read(node) ==
    LET creatures == Child(node, "creatures", <<>>)
    IN xml_get_text_node(node, <<"name", "mName", "category", "mCategory">>, ToText)
       @@ xml_get_text_node(node, <<"id", "mId", "slot", "mSlot", "locked", "mLocked">>, ToU32)
       @@ [mCreatureIds |-> [i \in SquadPlaces |->
             IF i <= Len(creatures) THEN ToU32(Child(creatures[i][2], "@id", NoText)) ELSE NoValue]]
Squad_Write(o) ==
    xml_add_text_node(o, <<"name", "mName", "id", "mId", "category", "mCategory", "slot", "mSlot",
                           "locked", "mLocked">>)
    \o << <<"creatures", [i \in SquadPlaces |->
             <<"creature", xml_add_text_node(o.mCreatureIds, <<"@id", i>>)>>]>> >>

-----------------------------------------------------------------------------
(* Parts: an asset that there is not becomes the first, or none.           *)

SetRigblock(v) == IF NumberOf(v) \in 1..1573 \cup 10001..10835 THEN v ELSE [v EXCEPT !.is = 1]
SetPrefix(v) == IF NumberOf(v) \in 1..338 THEN v ELSE [v EXCEPT !.is = 0]
SetSuffix(v) == IF NumberOf(v) \in 1..83 \cup 10001..10275 THEN v ELSE [v EXCEPT !.is = 0]

PartItem(p, i) ==
    LET Asset(m, ids) == Number_(Append(p, m), "uint16_t", Pick(ids, i))
    IN Bool(p, {"mIsFlair"}) @@ U32(p, {"mCost", "mEquippedToCreatureId"}) @@ U16(p, {"mLevel"})
       @@ U8(p, {"mMarketStatus", "mRarity", "mStatus", "mUsage"}) @@ U64(p, {"mTimestamp"})
       @@ [mRigblockAssetId |-> Asset("mRigblockAssetId", <<1, 1573, 10001, 10835>>),
           mPrefixAssetId |-> Asset("mPrefixAssetId", <<0, 1, 338>>),
           mPrefixSecondaryAssetId |-> Asset("mPrefixSecondaryAssetId", <<338, 0, 1>>),
           mSuffixAssetId |-> Asset("mSuffixAssetId", <<83, 10001, 0, 10275>>)]
Part_Read(node) ==
    LET asset == xml_get_text_node(node, <<"rigblock_asset_id", "mRigblockAssetId",
                   "prefix_asset_id", "mPrefixAssetId",
                   "prefix_secondary_asset_id", "mPrefixSecondaryAssetId",
                   "suffix_asset_id", "mSuffixAssetId">>, ToU32)
    IN xml_get_text_node(node, <<"is_flair", "mIsFlair">>, ToBool)
       @@ xml_get_text_node(node, <<"cost", "mCost", "creature_id", "mEquippedToCreatureId">>, ToU32)
       @@ xml_get_text_node(node, <<"level", "mLevel">>, ToU16)
       @@ xml_get_text_node(node, <<"market_status", "mMarketStatus", "rarity", "mRarity",
                                    "status", "mStatus", "usage", "mUsage">>, ToU8)
       @@ xml_get_text_node(node, <<"creation_date", "mTimestamp">>, ToU64)
       @@ [mRigblockAssetId |-> SetRigblock(asset.mRigblockAssetId),
           mPrefixAssetId |-> SetPrefix(asset.mPrefixAssetId),
           mPrefixSecondaryAssetId |-> SetPrefix(asset.mPrefixSecondaryAssetId),
           mSuffixAssetId |-> SetSuffix(asset.mSuffixAssetId)]
Part_Write(o) == xml_add_text_node(o, <<"is_flair", "mIsFlair", "cost", "mCost",
    "creature_id", "mEquippedToCreatureId", "level", "mLevel", "market_status", "mMarketStatus",
    "rarity", "mRarity", "status", "mStatus", "usage", "mUsage", "creation_date", "mTimestamp",
    "rigblock_asset_id", "mRigblockAssetId", "prefix_asset_id", "mPrefixAssetId",
    "prefix_secondary_asset_id", "mPrefixSecondaryAssetId", "suffix_asset_id", "mSuffixAssetId">>)
\* An element of another name, which no save makes, would be a first rigblock.
Parts_Read(user) == LET parts == Child(user, "parts", <<>>)
                    IN [i \in DOMAIN parts |-> Part_Read(parts[i][2])]
Parts_Write(parts) == << <<"parts", [i \in DOMAIN parts |-> <<"part", Part_Write(parts[i])>>]>> >>

-----------------------------------------------------------------------------
(* User                                                                    *)

AUser == Text(<<>>, {"mName", "mPassword"})
    @@ [mAccount |-> Account(<<"account">>),
        mCreatures |-> Each(<<"creatures">>, Creature),
        mSquads |-> Each(<<"squads">>, Squad),
        mFeed |-> [i \in 1..items |-> FeedItem(<<"feed", ToString(i)>>, i)],
        mParts |-> [i \in 1..items |-> PartItem(<<"parts", ToString(i)>>, i)]]

Load(file) ==
    LET user == Child(file, "user", <<>>)
    IN xml_get_text_node(user, <<"name", "mName", "password", "mPassword">>, ToText)
       @@ [mAccount |-> Account_Read(Child(user, "account", <<>>)),
           mCreatures |-> Creatures_Read(user),
           mSquads |-> EachChild(user, "squads", {"squad"}, Squad_Read),
           mFeed |-> Feed_Read(user),
           mParts |-> Parts_Read(user)]

Save(u) == << <<"user",
    xml_add_text_node(u, <<"name", "mName", "password", "mPassword">>)
    \o << <<"account", Account_Write(u.mAccount)>> >>
    \o Creatures_Write(u.mCreatures)
    \o << <<"squads", [i \in DOMAIN u.mSquads |-> <<"squad", Squad_Write(u.mSquads[i])>>]>> >>
    \o Feed_Write(u.mFeed)
    \o Parts_Write(u.mParts)>> >>

-----------------------------------------------------------------------------
SaveInit ==
    /\ name = FileName
    /\ items \in Sizes
    /\ wide \in {"one", "most"}
    /\ addressed = FALSE
    /\ wire = <<>>
    /\ document = Unread
    /\ memory = AUser
    /\ xml = NoFile
Logout == xml' = Save(memory) /\ UNCHANGED memory
Login == xml # NoFile /\ memory' = Load(xml) /\ UNCHANGED xml
SaveNext == Logout \/ Login

-----------------------------------------------------------------------------
(* Properties                                                              *)

\* What no save keeps: the unlocked inventory (the count of identifications is
\* written under its tag too), access to the online parts, and the statistics
\* and the creator of a creature.
Without(o, names) == [m \in DOMAIN o |-> IF m \in names THEN NoValue ELSE o[m]]
Kept(u) ==
    [u EXCEPT !.mAccount = Without(@, {"unlockInventory", "grantOnlineAccess"}),
              !.mCreatures = [i \in DOMAIN @ |->
                                 Without(@[i], {"mStats", "mAbilityStats", "mCreatorId"})]]

\* A user that logs in again is the user that logged out, but for what no save
\* keeps; and nothing fades from login to login, a load and a save more leave the
\* file as it is.
UserRestored ==
    name = FileName /\ xml # NoFile => Load(xml) = Kept(memory) /\ Save(Load(xml)) = xml

\* What is written is restored by the code that reads it: the members of every
\* structure of Blaze, and the user that User::Save has put in a file.
Restored == MessagesRestored /\ UserRestored
=============================================================================

-------------------------------- MODULE Wire --------------------------------
(***************************************************************************)
(* One structure that the server keeps and a client has a copy of: the     *)
(* setters that change it and note what has to be told, the update that    *)
(* writes what was noted (reflection_serializer, the packets of            *)
(* raknet/server.cpp) and the client that reads it by its own layout.      *)
(* A byte on the wire is <<what it belongs to, its place there, {}>>; the  *)
(* mask of a reflection is <<"mask", its place, the fields it has set>>.   *)
(***************************************************************************)
EXTENDS Layouts, FiniteSets

CONSTANTS
    Kinds,          \* the structures to look at
    AttributeTypes  \* the attributes that are set

VARIABLES
    kind,        \* the structure of this behaviour
    stale,       \* fields an announced change left different at the client
    bits,        \* mDataBits: fields noted one by one
    raised,      \* update flags: the parts noted as a whole
    packet,      \* the last packet: its form and the fields it holds
    mData,       \* the attributes that are held: those that are not 0
    mErasedData  \* the attributes that became 0

vars == <<kind, stale, bits, raised, packet, mData, mErasedData>>
attributes == <<mData, mErasedData>>

-----------------------------------------------------------------------------
(* Layouts by name.  Without a class of its own the client has the same.   *)

Layout(members, raw, field, count) ==
    [members |-> members, raw |-> raw, field |-> field, count |-> count]
Whole(members, raw, field) == Layout(members, raw, field, Cardinality(DOMAIN field))
NoRaw == Raw(0, <<>>)

Server(k) ==
    CASE k = "cAIDirector" -> Whole(cAIDirector, cAIDirector_WriteTo, cAIDirector_WriteReflection)
      [] k = "CreateData" -> Whole(cGameObjectCreateData, cGameObjectCreateData_WriteTo,
                                   cGameObjectCreateData_WriteReflection)
      [] k = "GravityForce" -> Whole(<<>>, GravityForce_WriteTo, GravityForce_WriteReflection)
      [] k = "DifficultyTuning" -> Whole(DifficultyTuning, DifficultyTuning_WriteTo,
                                         DifficultyTuning_WriteReflection)
      [] k = "PlanetData" -> Whole(PlanetData, PlanetData_WriteTo, <<>>)
      [] k = "ChainVoteData" -> Whole(ChainVoteData, ChainVoteData_WriteTo(FALSE), <<>>)
      [] k = "CompletedChain" -> Whole(ChainVoteData, ChainVoteData_WriteTo(TRUE), <<>>)
      [] k = "Objective" -> Whole(Objective, Objective_WriteTo, <<>>)
      [] k = "CashOutData" -> Whole(CashOutData, CashOutData_WriteTo, <<>>)
      [] k = "Object" -> Whole(Object, Object_WriteTo, Object_WriteReflection)
      [] k = "AgentBlackboard" -> Whole(AgentBlackboard, AgentBlackboard_WriteTo,
                                        AgentBlackboard_WriteReflection)
      [] k = "CombatantData" -> Whole(<<>>, CombatantData_WriteTo, CombatantData_WriteReflection)
      [] k = "InteractableData" -> Whole(<<>>, InteractableData_WriteTo,
                                         InteractableData_WriteReflection)
      [] k = "Attributes" -> Whole(<<>>, Attributes_WriteTo, Attributes_WriteReflection)
      [] k = "LootData" -> Whole(LootData, LootData_WriteTo, LootData_WriteReflection)
      [] k = "LobParameters" -> Whole(LobParameters, LobParameters_WriteTo,
                                      LobParameters_WriteReflection)
      [] k = "ProjectileParameters" -> Whole(ProjectileParameters, ProjectileParameters_WriteTo,
                                             ProjectileParameters_WriteReflection)
      [] k \in {"Locomotion", "PlayerLocomotion"} ->
             Whole(Locomotion, Locomotion_WriteTo, Locomotion_WriteReflection)
      [] k = "Catalyst" -> Whole(Catalyst, Catalyst_WriteTo, Catalyst_WriteReflection)
      [] k = "CombatEvent" -> Whole(GameCombatEvent, NoRaw, GameCombatEvent_WriteReflection)
      [] k = "ServerEvent" -> Layout(ServerEvent, NoRaw, ServerEvent_WriteReflection, 26)
      [] k = "ClientEvent" -> Layout(ClientEvent, NoRaw, ClientEvent_WriteReflection, 26)
      [] k = "Character" -> Layout(Character, Character_WriteTo, Character_WriteReflection, 124)
      [] k = "Player" -> Whole(Player, Player_WriteTo, Player_WriteReflection)

Client(k) ==
    CASE k = "Object" -> Whole(sporelabsObject, sporelabsObject_WriteTo,
                               sporelabsObject_WriteReflection)
      [] k = "AgentBlackboard" -> Whole(cAgentBlackboard, cAgentBlackboard_WriteTo,
                                        cAgentBlackboard_WriteReflection)
      [] k = "CombatantData" -> Whole(<<>>, cCombatantData_WriteTo, cCombatantData_WriteReflection)
      [] k = "InteractableData" -> Whole(<<>>, cInteractableData_WriteTo,
                                         cInteractableData_WriteReflection)
      [] k = "LootData" -> Whole(cLootData, cLootData_WriteTo, cLootData_WriteReflection)
      [] k = "LobParameters" -> Whole(cLobParams, cLobParams_WriteTo, cLobParams_WriteReflection)
      [] k = "ProjectileParameters" -> Whole(cProjectileParams, cProjectileParams_WriteTo,
                                             cProjectileParams_WriteReflection)
      [] k \in {"Locomotion", "PlayerLocomotion"} ->
             Whole(LocomotionData, LocomotionData_WriteTo, LocomotionData_WriteReflection)
      [] k = "Catalyst" -> Whole(labsCrystal, labsCrystal_WriteTo, labsCrystal_WriteReflection)
      [] k = "CombatEvent" -> Whole(CombatEvent, NoRaw, CombatEvent_WriteReflection)
      [] OTHER -> Server(k)

-----------------------------------------------------------------------------
(* The reflection: a mask of the fields that follow in ascending order, or *)
(* with more than 16 fields each behind its index and 0xFF after the last. *)

Ascending(count, fields) == SelectSeq([k \in 1..count |-> k - 1], LAMBDA i : i \in fields)
Run(n, w) == [k \in 1..w |-> <<n, k, {}>>]
OneByteMask(count) == IF count <= 16 THEN 1 ELSE 0    \* Mutant: one byte is enough
MaskBytes(count) == IF count <= 8 THEN 1 ELSE IF count <= 16 THEN 2 ELSE 0
begin(count, fields) == [k \in 1..MaskBytes(count) |-> <<"mask", k, fields>>]
end(count) == IF MaskBytes(count) = 0 THEN << <<"index", 255, {}>> >> ELSE <<>>
write(l, i) ==
    (IF MaskBytes(l.count) = 0 THEN << <<"index", i, {}>> >> ELSE <<>>)
    \o Run(l.field[i], Width(l.members, l.field[i]))
WriteReflection(l, fields) ==
    LET order == Ascending(l.count, fields)
    IN begin(l.count, fields) \o FlattenSeq([k \in DOMAIN order |-> write(l, order[k])]) \o end(l.count)

\* The client: r holds where it reads and what it has read.
Take(l, st, r, i) ==
    LET w == Width(l.members, l.field[i])
    IN IF i \notin DOMAIN l.field \/ r.at + w - 1 > Len(st) THEN [r EXCEPT !.ok = FALSE]
       ELSE [r EXCEPT !.at = @ + w, !.got = @ @@ [j \in {i} |-> SubSeq(st, r.at, r.at + w - 1)]]
RECURSIVE Tagged(_, _, _)
Tagged(l, st, r) ==
    IF ~r.ok \/ r.at > Len(st) \/ st[r.at][1] # "index" THEN [r EXCEPT !.ok = FALSE]
    ELSE IF st[r.at][2] = 255 THEN [r EXCEPT !.at = @ + 1]
    ELSE Tagged(l, st, Take(l, st, [r EXCEPT !.at = @ + 1], st[r.at][2]))
Read(l, st) ==
    LET skip == IF l.count <= 8 THEN 1 ELSE IF l.count <= 16 THEN 2 ELSE 0
        from == [at |-> skip + 1, got |-> <<>>, ok |-> TRUE]
    IN IF l.count > 16
       THEN Tagged(l, st, from)
       ELSE FoldLeft(LAMBDA r, i : Take(l, st, r, i), from, Ascending(l.count, st[1][3]))

\* The fields a client has got right, by the server's names.
Understood(k, fields) ==
    LET s == Server(k)  r == Read(Client(k), WriteReflection(s, fields))
    IN {s.field[i] : i \in {j \in fields : /\ r.ok
                                           /\ j \in DOMAIN r.got
                                           /\ r.got[j] = Run(s.field[j], Len(r.got[j]))
                                           /\ Len(r.got[j]) = Width(s.members, s.field[j])}}

-----------------------------------------------------------------------------
(* The raw form: where each field is, in the order they are written.       *)

Places(l) ==
    LET Piece(p) == FoldLeft(LAMBDA r, n :
            [at |-> r.at + Width(l.members, n), of |-> Append(r.of, <<n, r.at, Width(l.members, n)>>)],
            [at |-> p[1], of |-> <<>>], p[2]).of
    IN FlattenSeq([k \in DOMAIN l.raw.pieces |-> Piece(l.raw.pieces[k])])
WriteTo(l) ==
    FoldLeft(LAMBDA c, p : [o \in p[2]..(p[2] + p[3] - 1) |-> <<p[1], o - p[2]>>] @@ c,
             <<>>, Places(l))
Twin(k, n) ==
    LET f == Client(k).field
    IN IF \E i \in DOMAIN f : f[i] = n THEN Server(k).field[CHOOSE i \in DOMAIN f : f[i] = n] ELSE n

-----------------------------------------------------------------------------
(* The setters: what an operation changes, which bits it sets and which    *)
(* part it raises for the next update.  What it tells at once is not stale.*)

Op(sets, marks, raises) == [sets |-> sets, marks |-> marks, raises |-> raises]
Own(f) == Op({f}, {f}, {})
Part(f) == Op({f}, {}, {"component"})

Moves == {Own(f) : f \in {"position", "mOrientation", "mLinearVelocity", "mAngularVelocity"}}
SetPlayerIndex ==
    Op({"mPlayerIndex", "mbPlayerControlled"}, {"mPlayerIndex", "mbPlayerControlled"}, {})
ObjectSetters ==
    {Own(f) : f \in {"owner", "mInputSyncStamp", "mInteractableState", "mMarkerId", "mScale",
                     "mTeam", "mMovementType", "mbHasCollision", "mVisible"}}
    \cup {SetPlayerIndex}

CombatantSetters == {Part("mHitPoints"), Part("mManaPoints")}
InteractableSetters == {Part("mAbility"), Part("mTimesUsed"), Part("mUsesAllowed")}
LootSetters == {Part("mId"), Part("mInstanceId"), Part("mDNAAmount"), Part("mCatalystLevel"),
    Op({"mRigblockAsset", "mSuffixAssetId", "mPrefixAssetId", "mSecondaryPrefixAssetId",
        "mItemLevel", "mRarity"}, {}, {"component"})}
BlackboardSetters == {Part(f) : f \in {"mTargetId", "mNumAttackers", "mStealthType",
                                        "mInCombat", "mTargetable"}}

\* A goal is noted as a whole, parameters one by one, and some not at all.
LocomotionParameters ==
    {Op({f}, {f}, {"component"}) : f \in {"mProjectileParameters", "mLobParameters"}}
LocomotionBits == {Own(f) : f \in {"mReflectedLastUpdate", "mInitialDirection",
    "mTargetPosition", "mExpectedGeoCollision", "mTargetId", "mGoalFlags"}}
Goal(sets) == Op(sets, {}, {"component"})
Distances == {"mAllowedStopDistance", "mDesiredStopDistance"}
SetGoalPosition == Goal({"mTargetId", "mFacing", "mTargetPosition",
    "mExternalLinearVelocity", "mGoalFlags", "mGoalPosition"} \cup Distances)
SetGoalObjectEx == SetGoalPosition
SetFacing == SetGoalPosition
Stop == Goal({"mTargetId", "mFacing", "mTargetPosition", "mExternalLinearVelocity", "mGoalFlags"})
MoveToPointWhileFacingTarget == SetGoalPosition
ApplyExternalVelocity == Goal({"mTargetId", "mFacing", "mGoalFlags", "mExternalLinearVelocity"})
ClearExternalVelocity == Goal({"mGoalFlags", "mExternalLinearVelocity"})
ClearTargetObject == Goal({"mGoalFlags", "mTargetId"})
Goals == {SetGoalPosition, SetGoalObjectEx, SetFacing, Stop, MoveToPointWhileFacingTarget,
          ApplyExternalVelocity, ClearExternalVelocity, ClearTargetObject}

Setup == {"mStatus", "mStatusProgress", "mbDataSetup", "mTeam", "mPlayerOnlineId",
    "mLockCamera", "mLockedAbilityMin", "mLockedDeckIndexMin", "mAvatarLevel", "mDNA", "mAvatarXP"}
NewPlayer == Setup \cup {"mPlayerIndex", "mChainProgression", "mCharacterData",
                         "mCatalysts", "mCatalystBonuses"}
SetStatus == Op({"mStatus", "mStatusProgress"}, {"mStatus", "mStatusProgress"}, {"player"})
SwapCharacter == Op({"mCurrentDeckIndex"}, {"mCurrentDeckIndex"}, {"player"})
SetCharacter == Op({"mCharacterData"}, {"mCharacterData"}, {"character"})
SetSquad ==
    Op({"mCurrentDeckIndex", "mQueuedDeckIndex", "mDeckScore"} \cup SetCharacter.sets,
       {"mCurrentDeckIndex", "mQueuedDeckIndex", "mDeckScore"} \cup SetCharacter.marks,
       {"player"} \cup SetCharacter.raises)
UpdateCatalystBonuses == Op({"mCatalystBonuses"}, {"mCatalystBonuses"}, {"player"})
SetCatalyst == [UpdateCatalystBonuses EXCEPT !.raises = @ \cup {"crystal"}]
SyncedFields == {"mHealthPoints", "mMaxHealthPoints", "mManaPoints", "mMaxManaPoints"}
SyncCharacterData == Op(SyncedFields, SyncedFields, {"character"})
\* A new character: its asset and its abilities come whole with the player's data.
SetFields == SyncedFields \cup {"mVersion", "mNounId", "mCreatureType", "mGearScore",
                                "mGearScoreFlattened"}
NewCharacter == Op(SetFields, SetFields, SetSquad.raises)
\* What is raised for the player's other parts.
Elsewhere(part) == Op({}, {}, {part})

Setters ==
    CASE kind = "Object" -> Moves \cup ObjectSetters
      [] kind = "CombatantData" -> CombatantSetters
      [] kind = "InteractableData" -> InteractableSetters
      [] kind = "LootData" -> LootSetters
      [] kind = "AgentBlackboard" -> BlackboardSetters
      [] kind = "Locomotion" -> LocomotionParameters \cup LocomotionBits
      [] kind = "PlayerLocomotion" -> Goals
      [] kind = "Player" -> {SetStatus, SwapCharacter, SetSquad, SetCatalyst, Elsewhere("character")}
      [] kind = "Character" -> {SyncCharacterData, NewCharacter, Elsewhere("player")}
      [] OTHER -> {}

-----------------------------------------------------------------------------
(* The update: what is written, and what is forgotten with it.             *)

Fields(k) == DOMAIN Server(k).field
Noted(k) == {i \in Fields(k) : Server(k).field[i] \in bits}
NoPacket == [form |-> "none", fields |-> {}]

\* SendObjectPlayerMove
PlayerMove == {"mGoalFlags", "mGoalPosition", "mFacing", "mExternalLinearVelocity",
    "mExternalForce", "mAllowedStopDistance", "mDesiredStopDistance", "mTargetPosition", "mTargetId"}

\* Attributes::WriteReflection: what is held and noted, then 0 for what was
\* erased.  Both stay as they are: nothing calls ResetReflectionBits.
Indices(names) == {i \in Fields("Attributes") : Server("Attributes").field[i] \in names}
Held == Indices(mData \cap bits)
Erased == Indices(mErasedData)
WeaponDamage == {111, 112}

\* SendObjectUpdate writes an object's noted fields, and of a raised component
\* all; of a character that is not a player's, what of its movement is noted.
ToWrite ==
    CASE kind = "Object" -> IF bits # {} THEN Noted(kind) ELSE {}
      [] kind = "Locomotion" -> IF raised # {} THEN Noted(kind) ELSE {}
      [] kind = "Player" -> IF "player" \in raised THEN Noted(kind) ELSE {}
      [] kind = "Character" -> IF "character" \in raised THEN Noted(kind) ELSE {}
      [] kind = "Attributes" -> Held \cup Erased \cup WeaponDamage
      [] OTHER -> Fields(kind)
Reset ==
    CASE kind \in {"Object", "Player", "Character"} -> {}
      [] OTHER -> bits
\* The client's value is the one that was written last.
Contradicted == mData \cap mErasedData

-----------------------------------------------------------------------------
Init ==
    /\ kind \in Kinds
    /\ stale = IF kind = "Player" THEN NewPlayer ELSE {}
    /\ bits = stale
    /\ raised = IF kind = "Player" THEN {"player"} ELSE {}
    /\ packet = NoPacket
    /\ mData = {} /\ mErasedData = {}

\* What raises nothing of a component waits for something that does.
Change(op) ==
    /\ stale' = stale \cup op.sets
    /\ bits' = bits \cup op.marks
    /\ raised' = raised \cup op.raises
    /\ packet' = NoPacket
    /\ UNCHANGED <<kind, attributes>>

\* SetAttributeValue with 0 or with another value.  One that was noted and is
\* not held must be among the erased: where it is not, since it was 0 from the
\* start, the code erases what it did not find, and the program ends.
KeptErased(i) == mErasedData       \* Mutant: the old erasure stays
WithoutErased(i) == mErasedData \ {i}
SetZero(i) ==
    /\ mData' = mData \ {i}
    /\ mErasedData' = mErasedData \cup ({i} \cap mData)
    /\ stale' = stale \cup ({i} \cap mData)
SetNonzero(i) ==
    /\ i \in bits /\ i \notin mData => i \in mErasedData
    /\ mData' = mData \cup {i}
    /\ mErasedData' = IF i \in mData THEN mErasedData ELSE WithoutErased(i)
    /\ stale' = stale \cup {i}
SetAttributeValue ==
    /\ kind = "Attributes"
    /\ \E i \in AttributeTypes : (SetZero(i) \/ SetNonzero(i)) /\ bits' = bits \cup {i}
    /\ raised' = {"component"}
    /\ packet' = NoPacket
    /\ UNCHANGED kind

\* One that moves by itself is told where it goes, not which fields changed.
MovePlayer ==
    /\ kind = "PlayerLocomotion" /\ raised # {}
    /\ stale' = stale \ PlayerMove
    /\ raised' = {}
    /\ packet' = [form |-> "move", fields |-> {}]
    /\ UNCHANGED <<kind, bits, attributes>>

Update ==
    /\ kind # "PlayerLocomotion"
    /\ Setters # {} => bits # {} \/ raised # {}
    /\ kind = "Attributes" => raised # {}
    /\ packet' = [form |-> "reflection", fields |-> ToWrite]
    /\ stale' = stale \ (Understood(kind, ToWrite) \ Contradicted)
    /\ bits' = Reset
    /\ raised' = {}
    /\ UNCHANGED <<kind, attributes>>

SendRaw ==
    /\ Server(kind).raw.size > 0
    /\ packet' = [form |-> "raw", fields |-> {}]
    /\ UNCHANGED <<kind, stale, bits, raised, attributes>>

Next ==
    \/ \E op \in Setters : Change(op)
    \/ SetAttributeValue
    \/ MovePlayer
    \/ Update
    \/ SendRaw

Spec == Init /\ [][Next]_vars

-----------------------------------------------------------------------------
(* Properties                                                              *)

\* Whatever was noted, in whatever combination, the client reads all of it and
\* nothing else from a reflection, each field whole and under its own name:
\* mask, order, widths and the nested raw forms of both layouts agree.
ReadsBack ==
    packet.form = "reflection" =>
        Understood(kind, packet.fields) = {Server(kind).field[i] : i \in packet.fields}

\* In the raw form no piece runs into the next or past the end, and the client
\* finds every field in the bytes where its own layout has it.  Objectives and
\* the vote of a completed chain are known not to fit (see the README).
DoesNotFit == {"Objective", "CompletedChain"}
Fits(k) ==
    LET s == Server(k)  c == Client(k)  cells == WriteTo(s)  places == Places(c)
    IN /\ s.raw.size = c.raw.size
       /\ DOMAIN cells \subseteq 0..(s.raw.size - 1)
       /\ Cardinality(DOMAIN cells)
            = FoldLeft(LAMBDA n, p : n + p[3], 0, places)
       /\ \A i \in DOMAIN places : \A o \in 0..(places[i][3] - 1) :
              /\ places[i][2] + o \in DOMAIN cells
              /\ cells[places[i][2] + o] = <<Twin(k, places[i][1]), o>>
Fitting == {k \in Kinds : Fits(k)}
Intact == packet.form = "raw" => kind \in Fitting \cup DoesNotFit

\* A client is never left with an old value that no update is going to tell it:
\* what an announced change altered is noted until it has been read.  The
\* movement of an NPC is known to break this (see the README).
NothingMissed ==
    CASE kind \in {"Object", "Player", "Character"} ->
             /\ stale \subseteq bits
             /\ kind # "Object" /\ stale # {} =>
                    (IF kind = "Player" THEN "player" ELSE "character") \in raised
      [] kind = "Locomotion" -> TRUE
      [] OTHER -> stale # {} => raised # {}
=============================================================================

------------------------------- MODULE Layouts -------------------------------
(***************************************************************************)
(* How the structures of the RakNet protocol are laid out.  Each has       *)
(*   - its members: how many bytes one takes when it is written (4 when    *)
(*     nothing else is said; bool, uint8_t and the enums over it take 1);  *)
(*   - WriteTo: the raw form, pieces at fixed offsets in a fixed size;     *)
(*   - WriteReflection: the fields by their index, to be sent one by one.  *)
(* A structure inside another one is a field as long as its raw form, and  *)
(* a run of equal fields is one field.  The classes named c... and ...Data *)
(* of raknet/types.h carry the names the client has for them; the classes  *)
(* of Game that the server really sends are their twins.                   *)
(***************************************************************************)
EXTENDS Integers, Sequences, SequencesExt

Of(bytes, names) == [n \in names |-> bytes]
Width(members, n) == IF n \in DOMAIN members THEN members[n] ELSE 4
Raw(size, pieces) == [size |-> size, pieces |-> pieces]
Numbered(names) == [i \in 0..(Len(names) - 1) |-> names[i + 1]]

-----------------------------------------------------------------------------
(* What exists in raknet/types only.                                       *)

cAIDirector == Of(1, {"mbBossSpawned", "mbBossHorde", "mbCaptainSpawned",
                      "mbBossComplete", "mbHordeSpawned"})
cAIDirector_WriteTo == Raw(\h4D0, <<
    <<\h00D, <<"mbBossSpawned", "mbBossHorde", "mbCaptainSpawned", "mbBossComplete">>>>,
    <<\h014, <<"mBossId">>>>, <<\h47C, <<"mActiveHordeWaves">>>>,
    <<\h48C, <<"mbHordeSpawned">>>> >>)
cAIDirector_WriteReflection == Numbered(<<"mbBossSpawned", "mbBossHorde",
    "mbCaptainSpawned", "mbBossComplete", "mbHordeSpawned", "mBossId", "mActiveHordeWaves">>)

cGameObjectCreateData == Of(1, {"team", "hasCollision", "playerControlled"})
    @@ Of(8, {"assetId"}) @@ Of(12, {"position"})
cGameObjectCreateData_WriteTo == Raw(\h70, <<
    <<0, <<"noun", "position", "rotXDegrees", "rotYDegrees", "rotZDegrees">>>>,
    <<\h20, <<"assetId", "scale", "team", "hasCollision", "playerControlled">>>> >>)
cGameObjectCreateData_WriteReflection == Numbered(<<"noun", "position",
    "rotXDegrees", "rotYDegrees", "rotZDegrees", "assetId", "scale", "team",
    "hasCollision", "playerControlled">>)

GravityForce_WriteTo == Raw(\h20, << <<\h08, <<"radius", "force", "forceForMover">>>> >>)
GravityForce_WriteReflection == Numbered(<<"radius", "force", "forceForMover">>)

DifficultyTuning == Of(8, {"HealthPercentIncrease", "DamagePercentIncrease",
    "ItemLevelRange", "RatingConversion", "ExpectedAvatarLevel", "GearScoreRange",
    "GearScoreMax"})
DifficultyTuning_WriteTo == Raw(\h48, << <<0, <<"HealthPercentIncrease",
    "DamagePercentIncrease", "ItemLevelRange", "GearScoreRange", "GearScoreMax",
    "ExpectedAvatarLevel", "RatingConversion", "StarModeHealthMult",
    "StarModeDamageMult", "StarModeEliteChanceAdd", "StarModeSuggestedLevelAdd">>>> >>)
DifficultyTuning_WriteReflection == Numbered(<<"HealthPercentIncrease",
    "DamagePercentIncrease", "ItemLevelRange", "GearScoreRange", "GearScoreMax",
    "ExpectedAvatarLevel", "RatingConversion", "StarModeHealthMult",
    "StarModeDamageMult", "StarModeEliteChanceAdd", "StarModeSuggestedLevelAdd">>)

PlanetSize == \h19
PlanetData == Of(1, {"playerIndex"})
PlanetData_WriteTo == Raw(PlanetSize, << <<0, <<"kills", "unk", "damageDealt",
    "damageTaken", "healingDone", "healingReceived", "playerIndex">>>> >>)

Planets(base, names) == [i \in 1..4 |-> <<base + (i - 1) * PlanetSize, <<names[i]>>>>]
ChainVoteData == Of(1, {"mProgression"}) @@ Of(24, {"mEnemyNouns", "six"})
    @@ Of(8, {"mLevelNouns", "fourThree"}) @@ Of(16, {"dna", "bonus"})
    @@ Of(PlanetSize, {"sum1", "sum2", "sum3", "sum4", "was1", "was2", "was3", "was4"})
ChainVoteData_WriteTo(completed) ==
    LET start == IF completed
                 THEN <<"minorDifficulty", "majorDifficulty", "timeCompleted", "time">>
                 ELSE <<"mLevel", "mLevelIndex", "mStarLevel", "time">>
        more == <<"mProgression", "mEnemyNouns", "mLevelNouns">>
    IN Raw(\h151,
         << <<0, start \o more \o IF completed THEN <<"fourThree">> ELSE <<>> >>,
            <<\h39, <<"party", "movie", "movie2">>>>, <<\h45, <<"voiceover", "mode">>>> >>
         \o (IF completed THEN << <<\h4D, <<"zero", "index", "dna", "bonus">>>> >>
                 \o Planets(\h76, <<"sum1", "sum2", "sum3", "sum4">>) ELSE <<>>)
         \o << <<\hD9, <<"party2", "movie3", "movie4">>>> >>
         \o (IF completed THEN << <<\hE9, <<"planet">>>> >>
                 \o Planets(\hEE, <<"was1", "was2", "was3", "was4">>)
                 \o << <<\hEE + 4 * PlanetSize, <<"six">>>> >>
             ELSE << <<\hE9, <<"planet", "six">>>> >>))

\* The size is taken for a number of bits: the next objective starts there.
Objective == Of(\h40, {"debugData"})
Objective_WriteTo == Raw((4 + 4 + \h30) \div 8, << <<0, <<"id", "value", "debugData">>>> >>)

CashOutData == Of(16, {"mGoldMedals", "mSilverMedals", "mBronzeMedals",
    "mUniqueChances", "mRareChances"})
CashOutData_WriteTo == Raw(\h2C8, << <<0, <<"mPlanetsCompleted", "mDna">>>>,
    <<\h34, <<"mGoldMedals", "mSilverMedals", "mBronzeMedals">>>>,
    <<\h64, <<"mUniqueChances", "mRareChances">>>> >>)

-----------------------------------------------------------------------------
(* The client's classes and the server's twins of them.                    *)

sporelabsObject == Of(1, {"mTeam", "mbPlayerControlled", "mPlayerIdx", "mVisible",
        "mbHasCollision", "mMovementType", "mDisableRepulsion"})
    @@ Of(8, {"mLastAnimationPlayTimeMs", "mGraphicsStateStartTimeMs", "mNewGraphicsStateStartTimeMs"})
    @@ Of(12, {"mLinearVelocity", "mAngularVelocity", "mPosition"}) @@ Of(16, {"mOrientation"})
sporelabsObject_WriteTo == Raw(\h308, <<
    <<\h010, <<"mScale", "mMarkerScale">>>>,
    <<\h018, <<"mPosition", "mOrientation", "mLinearVelocity", "mAngularVelocity">>>>,
    <<\h050, <<"mOwnerID", "mTeam", "mPlayerIdx">>>>,
    <<\h058, <<"mInputSyncStamp", "mbPlayerControlled">>>>,
    <<\h05F, <<"mVisible", "mbHasCollision", "mMovementType">>>>,
    <<\h088, <<"sourceMarkerKey_markerId">>>>, <<\h0AC, <<"mLastAnimationState">>>>,
    <<\h0B8, <<"mLastAnimationPlayTimeMs", "mOverrideMoveIdleAnimationState">>>>,
    <<\h258, <<"mGraphicsState">>>>,
    <<\h260, <<"mGraphicsStateStartTimeMs", "mNewGraphicsStateStartTimeMs">>>>,
    <<\h284, <<"mDisableRepulsion">>>>, <<\h288, <<"mInteractableState">>>> >>)
sporelabsObject_WriteReflection == Numbered(<<"mTeam", "mbPlayerControlled",
    "mInputSyncStamp", "mPlayerIdx", "mLinearVelocity", "mAngularVelocity", "mPosition",
    "mOrientation", "mScale", "mMarkerScale", "mLastAnimationState",
    "mLastAnimationPlayTimeMs", "mOverrideMoveIdleAnimationState", "mGraphicsState",
    "mGraphicsStateStartTimeMs", "mNewGraphicsStateStartTimeMs", "mVisible",
    "mbHasCollision", "mOwnerID", "mMovementType", "mDisableRepulsion",
    "mInteractableState", "sourceMarkerKey_markerId">>)

Object == Of(1, {"mTeam", "mPlayerIndex", "mbPlayerControlled", "mVisible",
        "mbHasCollision", "mDisableRepulsion", "mMovementType"})
    @@ Of(8, {"mLastAnimationPlayTime", "mGraphicsStateStartTime", "mNewGraphicsStateStartTime"})
    @@ Of(12, {"mLinearVelocity", "mAngularVelocity", "position"}) @@ Of(16, {"mOrientation"})
Object_WriteTo == Raw(\h308, <<
    <<\h010, <<"mScale", "mMarkerScale">>>>,
    <<\h018, <<"position", "mOrientation", "mLinearVelocity", "mAngularVelocity">>>>,
    <<\h050, <<"owner", "mTeam", "mPlayerIndex">>>>,
    <<\h058, <<"mInputSyncStamp", "mbPlayerControlled">>>>,
    <<\h05F, <<"mVisible", "mbHasCollision", "mMovementType">>>>,
    <<\h088, <<"mMarkerId">>>>, <<\h0AC, <<"mLastAnimationState">>>>,
    <<\h0B8, <<"mLastAnimationPlayTime", "mOverrideMoveIdleAnimationState">>>>,
    <<\h258, <<"mGraphicsState">>>>,
    <<\h260, <<"mGraphicsStateStartTime", "mNewGraphicsStateStartTime">>>>,
    <<\h284, <<"mDisableRepulsion">>>>, <<\h288, <<"mInteractableState">>>> >>)
Object_WriteReflection == Numbered(<<"mTeam", "mbPlayerControlled",
    "mInputSyncStamp", "mPlayerIndex", "mLinearVelocity", "mAngularVelocity", "position",
    "mOrientation", "mScale", "mMarkerScale", "mLastAnimationState",
    "mLastAnimationPlayTime", "mOverrideMoveIdleAnimationState", "mGraphicsState",
    "mGraphicsStateStartTime", "mNewGraphicsStateStartTime", "mVisible",
    "mbHasCollision", "owner", "mMovementType", "mDisableRepulsion",
    "mInteractableState", "mMarkerId">>)

cAgentBlackboard == Of(1, {"mbInCombat", "mStealthType", "mbTargetable"})
cAgentBlackboard_WriteTo == Raw(\h598, << <<\h550, <<"targetId", "mbInCombat">>>>,
    <<\h556, <<"mStealthType">>>>, <<\h578, <<"mbTargetable">>>>,
    <<\h57C, <<"mNumAttackers">>>> >>)
cAgentBlackboard_WriteReflection == Numbered(
    <<"targetId", "mbInCombat", "mStealthType", "mbTargetable", "mNumAttackers">>)

AgentBlackboard == Of(1, {"mInCombat", "mStealthType", "mTargetable"})
AgentBlackboard_WriteTo == Raw(\h598, << <<\h550, <<"mTargetId", "mInCombat">>>>,
    <<\h556, <<"mStealthType">>>>, <<\h578, <<"mTargetable">>>>,
    <<\h57C, <<"mNumAttackers">>>> >>)
AgentBlackboard_WriteReflection == Numbered(
    <<"mTargetId", "mInCombat", "mStealthType", "mTargetable", "mNumAttackers">>)

cCombatantData_WriteTo == Raw(\h70, << <<\h40, <<"mHitPoints", "mManaPoints">>>> >>)
cCombatantData_WriteReflection == Numbered(<<"mHitPoints", "mManaPoints">>)
CombatantData_WriteTo == Raw(\h70, << <<\h40, <<"mHitPoints", "mManaPoints">>>> >>)
CombatantData_WriteReflection == Numbered(<<"mHitPoints", "mManaPoints">>)

cInteractableData_WriteTo == Raw(\h34, << <<\h08, <<"mNumTimesUsed", "mNumUsesAllowed">>>>,
    <<\h14, <<"mInteractableAbility">>>> >>)
cInteractableData_WriteReflection == Numbered(
    <<"mNumTimesUsed", "mNumUsesAllowed", "mInteractableAbility">>)
Unmoved == Raw(\h34, << <<\h08, <<"mTimesUsed", "mUsesAllowed", "mAbility">>>> >>)
    \* Mutant: the ability follows at once
InteractableData_WriteTo == Raw(\h34, << <<\h08, <<"mTimesUsed", "mUsesAllowed">>>>,
    <<\h14, <<"mAbility">>>> >>)
InteractableData_WriteReflection == Numbered(<<"mTimesUsed", "mUsesAllowed", "mAbility">>)

cLootData == Of(8, {"mId", "mLootInstanceId"})
cLootData_WriteTo == Raw(\h80, << <<\h08, <<"crystalLevel">>>>,
    <<\h10, <<"mId", "mRigblockAsset", "mSuffixAssetId", "mPrefixAssetId1",
              "mPrefixAssetId2", "mItemLevel", "mRarity">>>>,
    <<\h40, <<"mLootInstanceId", "mDNAAmount">>>> >>)
cLootData_WriteReflection == Numbered(<<"crystalLevel", "mId", "mRigblockAsset",
    "mSuffixAssetId", "mPrefixAssetId1", "mPrefixAssetId2", "mItemLevel", "mRarity",
    "mLootInstanceId", "mDNAAmount">>)

LootData == Of(8, {"mId", "mInstanceId"})
LootData_WriteTo == Raw(\h80, << <<\h08, <<"mCatalystLevel">>>>,
    <<\h10, <<"mId", "mRigblockAsset", "mSuffixAssetId", "mPrefixAssetId",
              "mSecondaryPrefixAssetId", "mItemLevel", "mRarity">>>>,
    <<\h40, <<"mInstanceId", "mDNAAmount">>>> >>)
LootData_WriteReflection == Numbered(<<"mCatalystLevel", "mId", "mRigblockAsset",
    "mSuffixAssetId", "mPrefixAssetId", "mSecondaryPrefixAssetId", "mItemLevel",
    "mRarity", "mInstanceId", "mDNAAmount">>)

cLobParams == Of(1, {"groundCollisionOnly", "stopBounceOnCreatures"})
    @@ Of(12, {"lobUpDir", "planeDir"})
cLobParams_WriteTo == Raw(\h54, << <<\h18, <<"lobUpDir">>>>,
    <<\h30, <<"bounceNum", "bounceRestitution", "groundCollisionOnly", "stopBounceOnCreatures">>>>,
    <<\h3C, <<"planeDir">>>>,
    <<\h48, <<"planeDirLinearParam", "upLinearParam", "upQuadraticParam">>>> >>)
cLobParams_WriteReflection == Numbered(<<"planeDirLinearParam", "upLinearParam",
    "upQuadraticParam", "lobUpDir", "planeDir", "bounceNum", "bounceRestitution",
    "groundCollisionOnly", "stopBounceOnCreatures">>)

LobParameters == Of(1, {"mGroundCollisionOnly", "mStopBounceOnCreatures"})
    @@ Of(12, {"mUpDirection", "mPlaneDirection"})
LobParameters_WriteTo == Raw(\h54, << <<\h18, <<"mUpDirection">>>>,
    <<\h30, <<"mBounceNumber", "mBounceRestitution", "mGroundCollisionOnly", "mStopBounceOnCreatures">>>>,
    <<\h3C, <<"mPlaneDirection">>>>,
    <<\h48, <<"mPlaneLinear", "mUpLinear", "mUpQuadratic">>>> >>)
LobParameters_WriteReflection == Numbered(<<"mPlaneLinear", "mUpLinear",
    "mUpQuadratic", "mUpDirection", "mPlaneDirection", "mBounceNumber",
    "mBounceRestitution", "mGroundCollisionOnly", "mStopBounceOnCreatures">>)

cProjectileParams == Of(1, {"mProjectileFlags", "mPiercing", "mIgnoreGroundCollide",
    "mIgnoreCreatureCollide"}) @@ Of(12, {"mDirection"})
cProjectileParams_WriteTo == Raw(\h3C, <<
    <<0, <<"mSpeed", "mAcceleration", "mJinkInfo", "mRange", "mSpinRate", "mDirection",
           "mProjectileFlags">>>>,
    <<\h24, <<"mHomingDelay", "mTurnRate", "mTurnAcceleration", "mPiercing",
              "mIgnoreGroundCollide", "mIgnoreCreatureCollide">>>>,
    <<\h34, <<"mEccentricity", "mCombatantSweepHeight">>>> >>)
cProjectileParams_WriteReflection == Numbered(<<"mSpeed", "mAcceleration", "mJinkInfo",
    "mRange", "mSpinRate", "mDirection", "mProjectileFlags", "mHomingDelay", "mTurnRate",
    "mTurnAcceleration", "mEccentricity", "mPiercing", "mIgnoreGroundCollide",
    "mIgnoreCreatureCollide", "mCombatantSweepHeight">>)

ProjectileParameters == Of(1, {"mProjectileFlags", "mPiercing", "mIgnoreGroundCollide",
    "mIgnoreCreatureCollide"}) @@ Of(12, {"mDirection"})
ProjectileParameters_WriteTo == Raw(\h3C, <<
    <<0, <<"mSpeed", "mAcceleration", "mJinkInfo", "mRange", "mSpinRate", "mDirection",
           "mProjectileFlags">>>>,
    <<\h24, <<"mHomingDelay", "mTurnRate", "mTurnAcceleration", "mPiercing",
              "mIgnoreGroundCollide", "mIgnoreCreatureCollide">>>>,
    <<\h34, <<"mEccentricity", "mCombatantSweepHeight">>>> >>)
ProjectileParameters_WriteReflection == Numbered(<<"mSpeed", "mAcceleration", "mJinkInfo",
    "mRange", "mSpinRate", "mDirection", "mProjectileFlags", "mHomingDelay", "mTurnRate",
    "mTurnAcceleration", "mEccentricity", "mPiercing", "mIgnoreGroundCollide",
    "mIgnoreCreatureCollide", "mCombatantSweepHeight">>)

LocomotionData == Of(8, {"lobStartTime"}) @@ Of(cLobParams_WriteTo.size, {"lobParams"})
    @@ Of(cProjectileParams_WriteTo.size, {"mProjectileParams"})
    @@ Of(12, {"mGoalPosition", "mPartialGoalPosition", "mFacing", "mExternalLinearVelocity",
               "mExternalForce", "mTargetPosition", "mExpectedGeoCollision",
               "mInitialDirection", "mOffset"})
LocomotionData_WriteTo == Raw(\h290, <<
    <<\h08, <<"reflectedLastUpdate">>>>, <<\h44, <<"mProjectileParams">>>>,
    <<\h84, <<"mExpectedGeoCollision", "mTargetObjectId">>>>,
    <<\h9C, <<"mInitialDirection">>>>,
    <<\hD8, <<"lobStartTime", "lobPrevSpeedModifier", "lobParams">>>>,
    <<\h138, <<"mOffset", "mGoalFlags", "mGoalPosition", "mPartialGoalPosition">>>>,
    <<\h178, <<"mFacing", "mExternalLinearVelocity", "mExternalForce",
               "mAllowedStopDistance", "mDesiredStopDistance">>>>,
    <<\h1AC, <<"mTargetPosition">>>> >>)
LocomotionData_WriteReflection == Numbered(<<"lobStartTime", "lobPrevSpeedModifier",
    "lobParams", "mProjectileParams", "mGoalFlags", "mGoalPosition",
    "mPartialGoalPosition", "mFacing", "mExternalLinearVelocity", "mExternalForce",
    "mAllowedStopDistance", "mDesiredStopDistance", "mTargetObjectId", "mTargetPosition",
    "mExpectedGeoCollision", "mInitialDirection", "mOffset", "reflectedLastUpdate">>)

Locomotion == Of(8, {"mLobStartTime"}) @@ Of(LobParameters_WriteTo.size, {"mLobParameters"})
    @@ Of(ProjectileParameters_WriteTo.size, {"mProjectileParameters"})
    @@ Of(12, {"mGoalPosition", "mPartialGoalPosition", "mFacing", "mExternalLinearVelocity",
               "mExternalForce", "mTargetPosition", "mExpectedGeoCollision",
               "mInitialDirection", "mOffset"})
Locomotion_WriteTo == Raw(\h290, <<
    <<\h08, <<"mReflectedLastUpdate">>>>, <<\h44, <<"mProjectileParameters">>>>,
    <<\h84, <<"mExpectedGeoCollision", "mTargetId">>>>, <<\h9C, <<"mInitialDirection">>>>,
    <<\hD8, <<"mLobStartTime", "mLobPrevSpeedModifier", "mLobParameters">>>>,
    <<\h138, <<"mOffset", "mGoalFlags", "mGoalPosition", "mPartialGoalPosition">>>>,
    <<\h178, <<"mFacing", "mExternalLinearVelocity", "mExternalForce",
               "mAllowedStopDistance", "mDesiredStopDistance">>>>,
    <<\h1AC, <<"mTargetPosition">>>> >>)
Locomotion_WriteReflection == Numbered(<<"mLobStartTime", "mLobPrevSpeedModifier",
    "mLobParameters", "mProjectileParameters", "mGoalFlags", "mGoalPosition",
    "mPartialGoalPosition", "mFacing", "mExternalLinearVelocity", "mExternalForce",
    "mAllowedStopDistance", "mDesiredStopDistance", "mTargetId", "mTargetPosition",
    "mExpectedGeoCollision", "mInitialDirection", "mOffset", "mReflectedLastUpdate">>)

\* labsCrystal and Catalyst have no gaps: the padding is written.
labsCrystal == Of(2, {"level"}) @@ Of(10, {"padding"})
labsCrystal_WriteTo == Raw(16, << <<0, <<"crystalNoun", "level", "padding">>>> >>)
labsCrystal_WriteReflection == Numbered(<<"crystalNoun", "level">>)
Catalyst == Of(2, {"mRarity"}) @@ Of(10, {"padding"})
Catalyst_WriteTo == Raw(16, << <<0, <<"mNounId", "mRarity", "padding">>>> >>)
Catalyst_WriteReflection == Numbered(<<"mNounId", "mRarity">>)

CombatEvent == Of(12, {"damageDirection"})
CombatEvent_WriteTo == Raw(\h28, << <<0, <<"flags">>>>,
    <<\h04, <<"deltaHealth", "absorbedAmount", "targetID", "sourceID", "abilityID",
              "damageDirection">>>>, <<\h24, <<"integerHpChange">>>> >>)
CombatEvent_WriteReflection == Numbered(<<"flags", "deltaHealth", "absorbedAmount",
    "targetID", "sourceID", "abilityID", "damageDirection", "integerHpChange">>)
GameCombatEvent == Of(12, {"mDirection"})
GameCombatEvent_WriteReflection == Numbered(<<"mFlags", "mDeltaHealth", "mAbsorbedAmount",
    "mTargetId", "mSourceId", "mAbilityId", "mDirection", "mIntegerHpChange">>)

-----------------------------------------------------------------------------
(* What exists in Game only.  The two kinds of event share one index space.*)

ServerEvent == Of(1, {"mEffectIndex", "mRemove", "mHardStop", "mForceAttach", "mCritical",
        "mIgnoreFlags"})
    @@ Of(12, {"mPosition", "mFacing", "mTargetPoint"}) @@ Of(16, {"mOrientation"})
ServerEvent_WriteReflection == Numbered(<<"mSimpleSwarmEffectId", "mEffectIndex",
    "mRemove", "mHardStop", "mForceAttach", "mCritical", "mServerEventDef", "mObjectId",
    "mSecondaryObjectId", "mAttackerId", "mPosition", "mFacing", "mOrientation",
    "mTargetPoint">>) @@ [i \in {16} |-> "mIgnoreFlags"]
ClientEvent == Of(1, {"mIgnoreFlags"})
    @@ Of(8, {"mLootReferenceId", "mLootInstanceId", "mLootCreationTime"})
ClientEvent_WriteReflection == [i \in {7} |-> "mObjectId"]
    @@ [i \in 14..25 |-> <<"mTextValue", "mEventId", "mIgnoreFlags", "mLootReferenceId",
        "mLootInstanceId", "mLootRigblockId", "mLootSuffixAssetId", "mLootPrefixAssetId1",
        "mLootPrefixAssetId2", "mLootItemLevel", "mLootRarity", "mLootCreationTime">>[i - 13]]

\* The part attributes 0..73, 74, 75..97 and 98..110 are four runs of floats.
Character == Of(8, {"mAssetId", "mDeployCooldown"}) @@ Of(9 * 4, {"mAbilityRanks"})
    @@ Of(74 * 4, {"attributes0"}) @@ Of(23 * 4, {"attributes75"})
    @@ Of(13 * 4, {"attributes98"})
Character_WriteTo == Raw(\h620, << <<\h008, <<"mAssetId", "mVersion">>>>,
    <<\h0B4, <<"mNounId">>>>, <<\h0B8, <<"attributes0">>>>, <<\h1E4, <<"ImmuneToSleep">>>>,
    <<\h1EC, <<"attributes75">>>>, <<\h24C, <<"attributes98">>>>,
    <<\h3B8, <<"mCreatureType">>>>,
    <<\h3C0, <<"mDeployCooldown", "mAbilityPoints", "mAbilityRanks">>>>,
    <<\h3F0, <<"mHealthPoints", "mMaxHealthPoints", "mManaPoints", "mMaxManaPoints",
               "mGearScore", "mGearScoreFlattened">>>> >>)
Character_WriteReflection == Numbered(<<"mVersion", "mNounId", "mAssetId",
    "mCreatureType", "mDeployCooldown", "mAbilityPoints", "mAbilityRanks", "mHealthPoints",
    "mMaxHealthPoints", "mManaPoints", "mMaxManaPoints", "mGearScore", "mGearScoreFlattened">>)

Player == Of(1, {"mbDataSetup", "mPlayerIndex", "mTeam", "mbIsCharged", "mLockCamera",
        "mbLockedOverdrive", "mbLockedCrystals"})
    @@ Of(8, {"mPlayerOnlineId", "mCatalystBonuses"})
    @@ Of(3 * Character_WriteTo.size, {"mCharacterData"})
    @@ Of(9 * Catalyst_WriteTo.size, {"mCatalysts"})
Player_WriteTo == Raw(\h14B8, << <<0, <<"mbDataSetup">>>>,
    <<\h0004, <<"mStatus", "mStatusProgress">>>>,
    <<\h000C, <<"mCurrentDeckIndex", "mQueuedDeckIndex">>>>,
    <<\h0018, <<"mCharacterData">>>>, <<\h1278, <<"mPlayerIndex">>>>,
    <<\h1280, <<"mPlayerOnlineId">>>>, <<\h12DC, <<"mTeam">>>>,
    <<\h12E0, <<"mCurrentCreatureId", "mEnergyPoints">>>>, <<\h12EC, <<"mbIsCharged">>>>,
    <<\h12F0, <<"mDNA">>>>, <<\h12F8, <<"mAvatarXP", "mAvatarLevel">>>>,
    <<\h1304, <<"mChainProgression">>>>, <<\h133C, <<"mCatalysts">>>>,
    <<\h13CC, <<"mCatalystBonuses">>>>, <<\h1408, <<"mLockCamera">>>>,
    <<\h140C, <<"mDeckScore">>>>, <<\h1414, <<"mbLockedOverdrive", "mbLockedCrystals">>>>,
    <<\h1418, <<"mLockedAbilityMin">>>>, <<\h1420, <<"mLockedDeckIndexMin">>>> >>)
Player_WriteReflection == Numbered(<<"mbDataSetup", "mCurrentDeckIndex",
    "mQueuedDeckIndex", "mCharacterData", "mPlayerIndex", "mTeam", "mPlayerOnlineId",
    "mStatus", "mStatusProgress", "mCurrentCreatureId", "mEnergyPoints", "mbIsCharged",
    "mDNA", "mCatalysts", "mCatalystBonuses", "mAvatarLevel", "mAvatarXP",
    "mChainProgression", "mLockCamera", "mbLockedOverdrive", "mbLockedCrystals",
    "mLockedAbilityMin", "mLockedDeckIndexMin", "mDeckScore">>)
\* The attributes by number; of those from 99 on the raw form has none until
\* more than 99 are held, and it is never asked for.
Attributes_WriteTo == Raw(\h634, <<
    <<\h26C, [i \in 1..99 |-> ToString(i - 1)]>>,
    <<\h43C, <<"mMinWeaponDamage", "mMaxWeaponDamage">>>> >>)
Attributes_WriteReflection ==
    [i \in 0..112 |-> IF i = 111 THEN "mMinWeaponDamage"
                      ELSE IF i = 112 THEN "mMaxWeaponDamage" ELSE ToString(i)]
=============================================================================

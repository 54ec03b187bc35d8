----------------------------- MODULE WorldServer -----------------------------
(***************************************************************************)
(* The packet handlers of ArcheCore.WorldServer, run one at a time by the  *)
(* main thread, over the session objects, the entt registry and the        *)
(* WorldManager's maps.  Any handler may be called by any session at any   *)
(* time, as ProcessPacket allows; WorldGame adds what clients do.          *)
(*                                                                         *)
(* A component access that the registry does not define (a missing or a    *)
(* duplicate component) is recorded in faults.  An access through          *)
(* entt::null lies outside every storage page and ends the process; the    *)
(* others end it where entt's assertions are compiled in and otherwise go  *)
(* on with whatever bytes are there.                                       *)
(***************************************************************************)
EXTENDS Naturals

CONSTANTS
    Sessions,       \* the WorldSession objects the acceptor ever makes
    Handles,        \* entt::entity values
    NullEntity,     \* entt::null
    Positions,      \* the contents of a Transform, as packets carry them
    SpawnPosition,  \* the template's spawn position
    Templates,      \* CharacterTemplates, by race and gender
    Fragmentable,   \* those whose bag and bank are non-zero multiples of ten
    Unseen,         \* no SCUnitState sent for this object yet
    MaxObjects      \* bound on the objects ever created

FirstObjectId == 256
ObjIds == FirstObjectId .. FirstObjectId + MaxObjects - 1

\* What CharacterManager::Create gives an entity; the visual options come with
\* CSSpawnCharacter, the velocity with CSNotifyInGame.
Components == [objectId : ObjIds, unitId : Nat, template : Templates,
               position : Positions, visual : BOOLEAN, velocity : BOOLEAN]

ASSUME ConstantsOK ==
    /\ NullEntity \notin Handles
    /\ SpawnPosition \in Positions
    /\ Unseen \notin Positions
    /\ Fragmentable \subseteq Templates
    /\ MaxObjects \in Nat
    /\ NullEntity \notin Components

VARIABLES
    up,               \* the process has not ended
    faults,           \* undefined component accesses made so far
    connections,      \* WorldManager::Connections
    inGame,           \* WorldSession::inGame
    character,        \* WorldSession::entityCharacter
    characterIds,     \* WorldSession::characterIds
    registry,         \* the default world's registry: entity -> components,
                      \* NullEntity for a handle not yet given out
    objects,          \* WorldManager::Entities: ObjId -> entity
    nextObjectId,     \* WorldManager::NextObjectId
    nextCharacterId,  \* CharacterManager::m_NextCharacterId
    seen,             \* per session: where each shown object was last said to be
    sent              \* per session: what the last handler sent

worldVars == <<registry, objects, nextObjectId, nextCharacterId>>
sessionVars == <<inGame, character, characterIds>>
vars == <<up, faults, connections, sessionVars, worldVars, seen, sent>>

-----------------------------------------------------------------------------
(* Packets and components. *)

Packet(type, arg) == [type |-> type, arg |-> arg]
ChangeState(n) == Packet("ChangeState", n)
UnitState(o) == Packet("SCUnitState", o)
Movement(o) == Packet("SCOneUnitMovement", o)
Plain(types) == {Packet(t, 0) : t \in types}

FaultKinds == {"NullEntity", "NoVisualOptions", "VisualTwice", "VelocityTwice"}

\* The entities that have a Transform and a WorldComponent, those among them
\* without CharacterVisualOptions, and those with a Velocity.
Created == {e \in Handles : registry[e] # NullEntity}
Bare == {e \in Created : ~registry[e].visual}
Spawned == {e \in Created : registry[e].velocity}

FreshWithoutTransform(objectId, unitId, template) ==
    [objectId |-> objectId, unitId |-> unitId, template |-> template,
     position |-> Unseen, visual |-> FALSE, velocity |-> FALSE]

Fresh(objectId, unitId, template) ==
    [objectId |-> objectId, unitId |-> unitId, template |-> template,
     position |-> SpawnPosition, visual |-> FALSE, velocity |-> FALSE]

-----------------------------------------------------------------------------
(* Sending. *)

ToOnly(s, packets) == [t \in Sessions |-> IF t = s THEN packets ELSE {}]

\* BroadcastMessage over GetNearbyConnections: everyone connected and in game.
Nearby(excluded) == connections \ excluded
AudienceConnected(excluded) == Nearby(excluded)
AudienceInverted(excluded) == {t \in Nearby(excluded) : ~inGame[t]}
Audience(excluded) == {t \in Nearby(excluded) : inGame[t]}

\* What a client knows after one SCUnitState for each entity of shown.
Show(view, shown) ==
    [o \in ObjIds |->
        IF \E e \in shown : registry[e].objectId = o
        THEN registry[CHOOSE e \in shown : registry[e].objectId = o].position
        ELSE view[o]]

-----------------------------------------------------------------------------
(* Undefined accesses. *)

GoesOn(kinds) ==
    /\ faults' = faults \cup kinds
    /\ up' = TRUE

Aborts(kinds) ==
    /\ kinds # {}
    /\ faults' = faults \cup kinds
    /\ up' = FALSE
    /\ sent' = [t \in Sessions |-> {}]
    /\ UNCHANGED <<connections, sessionVars, worldVars, seen>>

-----------------------------------------------------------------------------
Init ==
    /\ up = TRUE
    /\ faults = {}
    /\ connections = {}
    /\ inGame = [s \in Sessions |-> FALSE]
    /\ character = [s \in Sessions |-> NullEntity]
    /\ characterIds = [s \in Sessions |-> [i \in 0..3 |-> 0]]
    /\ registry = [e \in Handles |-> NullEntity]
    /\ objects = [o \in ObjIds |-> NullEntity]
    /\ nextObjectId = FirstObjectId
    /\ nextCharacterId = 1
    /\ seen = [s \in Sessions |-> [o \in ObjIds |-> Unseen]]
    /\ sent = [s \in Sessions |-> {}]

\* The accept callback of the io thread.
OnClientConnected(s) ==
    /\ up
    /\ s \notin connections
    /\ connections' = connections \cup {s}
    /\ sent' = [t \in Sessions |-> {}]
    /\ UNCHANGED <<up, faults, sessionVars, worldVars, seen>>

Handling(s) == up /\ s \in connections

X2EnterWorldResponse(s) ==
    /\ Handling(s)
    /\ sent' = ToOnly(s, Plain({"X2EnterWorldResponse"}) \cup {ChangeState(0)})
    /\ UNCHANGED <<up, faults, connections, sessionVars, worldVars, seen>>

StateZeroReplies == {"SetGameType", "SCInitialConfig", "SCTrionConfig",
                     "SCAccountInfo", "SCChatSpamDelay",
                     "SCAccountAttributeConfig", "SCLevelRestrictionConfig"}

FinishStateRepliesWithGap(state) ==
    (IF state \in 0..6 \ {3} THEN {ChangeState(state + 1)} ELSE {})
    \cup (IF state = 0 THEN Plain(StateZeroReplies) ELSE {})
    \cup (IF state = 7 THEN Plain({"SCUpdatePremiumPoint"}) ELSE {})

FinishStateReplies(state) ==
    (IF state \in 0..6 THEN {ChangeState(state + 1)} ELSE {})
    \cup (IF state = 0 THEN Plain(StateZeroReplies) ELSE {})
    \cup (IF state = 7 THEN Plain({"SCUpdatePremiumPoint"}) ELSE {})

HandleFinishState(s, state) ==
    /\ Handling(s)
    /\ sent' = ToOnly(s, FinishStateReplies(state))
    /\ UNCHANGED <<up, faults, connections, sessionVars, worldVars, seen>>

\* The handlers that read their packet, keep nothing, and at most answer.
Answers ==
    [CSListCharacter |-> {"SCGetSlotCount", "SCAccountInfo",
                          "SCRaceCongestion", "SCCharacterList"},
     CSRefreshInCharacterList |-> {"SCRefreshInCharacterList"},
     CSPremiumServieceMsg |-> {"SCAccountWarned"},
     CSRestrictCheck |-> {"SCResultRestrictCheck"},
     CSSetLpManageCharacter |-> {"SCLpManaged"},
     Ping |-> {"Pong"},
     CSSaveUIData |-> {},
     CSNotifySubZone |-> {},
     CSNotifyInGameCompleted |-> {},
     CSLeaveWorld |-> {}]

AnswerOnly(s, request) ==
    /\ Handling(s)
    /\ sent' = ToOnly(s, Plain(Answers[request]))
    /\ UNCHANGED <<up, faults, connections, sessionVars, worldVars, seen>>

-----------------------------------------------------------------------------
(* Characters. *)

CreateSameObjectId(s, e, template) ==
    /\ registry' = [registry EXCEPT ![e] =
                       Fresh(nextObjectId, nextCharacterId, template)]
    /\ objects' = IF objects[nextObjectId] = NullEntity
                  THEN [objects EXCEPT ![nextObjectId] = e]
                  ELSE objects
    /\ nextObjectId' = nextObjectId
    /\ nextCharacterId' = nextCharacterId + 1
    /\ character' = [character EXCEPT ![s] = e]
    /\ characterIds' = [characterIds EXCEPT ![s][0] = nextCharacterId]

CreateNextFreeSlot(s, e, template) ==
    /\ registry' = [registry EXCEPT ![e] =
                       Fresh(nextObjectId, nextCharacterId, template)]
    /\ objects' = IF objects[nextObjectId] = NullEntity
                  THEN [objects EXCEPT ![nextObjectId] = e]
                  ELSE objects
    /\ nextObjectId' = nextObjectId + 1
    /\ nextCharacterId' = nextCharacterId + 1
    /\ character' = [character EXCEPT ![s] = e]
    /\ \E i \in {j \in 0..3 : characterIds[s][j] = 0} :
          characterIds' = [characterIds EXCEPT ![s][i] = nextCharacterId]

\* WorldManager::CreateObjectEntity and the rest of CharacterManager::Create.
Create(s, e, template) ==
    /\ registry' = [registry EXCEPT ![e] =
                       Fresh(nextObjectId, nextCharacterId, template)]
    /\ objects' = IF objects[nextObjectId] = NullEntity
                  THEN [objects EXCEPT ![nextObjectId] = e]
                  ELSE objects
    /\ nextObjectId' = nextObjectId + 1
    /\ nextCharacterId' = nextCharacterId + 1
    /\ character' = [character EXCEPT ![s] = e]
    /\ characterIds' = [characterIds EXCEPT ![s][0] = nextCharacterId]

\* A name ValidateCharacterName accepts.
CSCreateCharacter(s, template) ==
    /\ Handling(s)
    /\ nextObjectId \in ObjIds
    /\ \E e \in Handles \ Created : Create(s, e, template)
    /\ sent' = ToOnly(s, Plain({"SCCreateCharacterResponse"}))
    /\ UNCHANGED <<up, faults, connections, inGame, seen>>

\* A name it refuses: the failure is sent, and the response after it all the
\* same, written from whatever character the session has.
CSCreateCharacterRefused(s) ==
    /\ Handling(s)
    /\ \/ /\ character[s] # NullEntity
          /\ sent' = ToOnly(s, Plain({"SCCharacterCreationFailed",
                                      "SCCreateCharacterResponse"}))
          /\ UNCHANGED <<up, faults, connections, sessionVars, worldVars, seen>>
       \/ /\ character[s] = NullEntity
          /\ Aborts({"NullEntity"})

SelectOpening == {"SCCharacterState", "SCCharacterGamePoints",
                  "SCCharacterInvenInit"}
SelectRest == {"SCCharacterInvenContents", "SCActionSlots", "SCQuests",
               "SCCompletedQuests", "SCActability", "SCCountUnreadMail",
               "SCCharacterReturnDistricts", "SCConflictZoneState",
               "SCFactionList", "SCFactionRelationList",
               "SCExpeditionRolePolicyList", "SCResponseUIData"}

CSCharacterSelect(s, charId) ==
    /\ Handling(s)
    /\ \/ /\ \A i \in 0..3 : characterIds[s][i] # charId
          /\ sent' = ToOnly(s, {})
          /\ UNCHANGED <<up, faults, connections, sessionVars, worldVars, seen>>
       \/ /\ \E i \in 0..3 : characterIds[s][i] = charId
          /\ character[s] # NullEntity
          /\ sent' = ToOnly(s, Plain(SelectOpening \cup
                IF registry[character[s]].template \in Fragmentable
                THEN SelectRest ELSE {}))
          /\ UNCHANGED <<up, faults, connections, sessionVars, worldVars, seen>>
       \/ /\ \E i \in 0..3 : characterIds[s][i] = charId
          /\ character[s] = NullEntity
          /\ Aborts({"NullEntity"})

\* world.emplace<CharacterVisualOptions>, then SCUnitState to the player.
CSSpawnCharacter(s) ==
    /\ Handling(s)
    /\ LET me == character[s]
           kinds == IF me = NullEntity THEN {"NullEntity"}
                    ELSE IF registry[me].visual THEN {"VisualTwice"} ELSE {}
       IN  \/ Aborts(kinds)
           \/ /\ me # NullEntity
              /\ GoesOn(kinds)
              /\ registry' = [registry EXCEPT ![me].visual = TRUE]
              /\ seen' = [seen EXCEPT ![s] = Show(@, {me})]
              /\ sent' = ToOnly(s, {UnitState(registry[me].objectId)})
              /\ UNCHANGED <<connections, sessionVars, objects, nextObjectId,
                             nextCharacterId>>

\* WorldManager::SpawnCharacter: the Velocity makes the entity movable.
WithVelocityForgotten(e) == registry
WithVelocity(e) == [registry EXCEPT ![e].velocity = TRUE]

\* Everyone is shown to the player, the player is spawned and marked in game,
\* then shown to everyone already in game.
CSNotifyInGame(s) ==
    /\ Handling(s)
    /\ LET me == character[s]
           others == Created \ {me}
           watchers == Audience({s})
           kinds == (IF me = NullEntity THEN {"NullEntity"} ELSE {})
                    \cup (IF Bare # {} THEN {"NoVisualOptions"} ELSE {})
                    \cup (IF me \in Spawned THEN {"VelocityTwice"} ELSE {})
       IN  \/ Aborts(kinds)
           \/ /\ me # NullEntity
              /\ GoesOn(kinds)
              /\ registry' = WithVelocity(me)
              /\ inGame' = [inGame EXCEPT ![s] = TRUE]
              /\ seen' = [t \in Sessions |->
                             IF t = s THEN Show(seen[t], others)
                             ELSE IF t \in watchers THEN Show(seen[t], {me})
                             ELSE seen[t]]
              /\ sent' = [t \in Sessions |->
                             IF t = s THEN {UnitState(registry[e].objectId) : e \in others}
                             ELSE IF t \in watchers THEN {UnitState(registry[me].objectId)}
                             ELSE {}]
              /\ UNCHANGED <<connections, character, characterIds, objects,
                             nextObjectId, nextCharacterId>>

\* MovementPacketData::HandleUnitMovement: only a spawned entity is moved.
HandleUnitMovementNotStored(e, p) == registry
HandleUnitMovement(e, p) ==
    IF e \in Spawned THEN [registry EXCEPT ![e].position = p] ELSE registry

\* The packet goes out whether the entity moved or not, to the mover too.  Only
\* the UNIT type carries a position.
CSMoveUnit(s, o, unit, p) ==
    /\ Handling(s)
    /\ registry' = IF unit THEN HandleUnitMovement(objects[o], p) ELSE registry
    /\ LET watchers == Audience({})
       IN  /\ seen' = [t \in Sessions |->
                          IF unit /\ t \in watchers /\ seen[t][o] # Unseen
                          THEN [seen[t] EXCEPT ![o] = p] ELSE seen[t]]
           /\ sent' = [t \in Sessions |-> IF t \in watchers THEN {Movement(o)} ELSE {}]
    /\ UNCHANGED <<up, faults, connections, sessionVars, objects, nextObjectId,
                   nextCharacterId>>

-----------------------------------------------------------------------------
Next ==
    \E s \in Sessions :
        \/ OnClientConnected(s)
        \/ X2EnterWorldResponse(s)
        \/ \E state \in 0..8 : HandleFinishState(s, state)
        \/ \E request \in DOMAIN Answers : AnswerOnly(s, request)
        \/ \E template \in Templates : CSCreateCharacter(s, template)
        \/ CSCreateCharacterRefused(s)
        \/ \E charId \in 0..MaxObjects : CSCharacterSelect(s, charId)
        \/ CSSpawnCharacter(s)
        \/ CSNotifyInGame(s)
        \/ \E o \in ObjIds, unit \in BOOLEAN, p \in Positions :
              CSMoveUnit(s, o, unit, p)

Spec == Init /\ [][Next]_vars

-----------------------------------------------------------------------------
(* Properties that hold whatever the clients send. *)

PacketTypes ==
    {"X2EnterWorldResponse", "ChangeState", "SCUpdatePremiumPoint",
     "SCCreateCharacterResponse", "SCCharacterCreationFailed", "SCUnitState",
     "SCOneUnitMovement"}
    \cup StateZeroReplies \cup SelectOpening \cup SelectRest
    \cup UNION {Answers[request] : request \in DOMAIN Answers}
Packets == [type : PacketTypes, arg : Nat]

\* The state of the sessions, the registry and the WorldManager's maps keeps its
\* types (WorldSession.h, WorldManager.h).
TypeOK ==
    /\ up \in BOOLEAN
    /\ faults \subseteq FaultKinds
    /\ connections \subseteq Sessions
    /\ inGame \in [Sessions -> BOOLEAN]
    /\ character \in [Sessions -> Handles \cup {NullEntity}]
    /\ characterIds \in [Sessions -> [0..3 -> Nat]]
    /\ registry \in [Handles -> Components \cup {NullEntity}]
    /\ objects \in [ObjIds -> Handles \cup {NullEntity}]
    /\ nextObjectId \in Nat
    /\ nextCharacterId \in Nat
    /\ seen \in [Sessions -> [ObjIds -> Positions \cup {Unseen}]]
    /\ sent \in [Sessions -> SUBSET Packets]

\* WorldManager::Entities is the inverse of the ObjectId components, so an
\* object id a client was ever told resolves to the entity that bears it.
ObjectsResolve ==
    /\ \A e \in Created : objects[registry[e].objectId] = e
    /\ \A o \in ObjIds :
          /\ objects[o] # NullEntity =>
                /\ objects[o] \in Created
                /\ registry[objects[o]].objectId = o
          /\ \A s \in Sessions : seen[s][o] # Unseen => objects[o] # NullEntity

\* The character list check of CSCharacterSelect and the entity the handlers then
\* use are two fields: a non-zero id passes the check exactly when it is the id
\* of the entity the session holds, and no two sessions hold the same character.
SelectedIsHeld ==
    /\ \A s \in Sessions, id \in 1..MaxObjects :
          (\E i \in 0..3 : characterIds[s][i] = id)
             <=> (character[s] \in Created /\ registry[character[s]].unitId = id)
    /\ \A s, t \in Sessions :
          s # t /\ character[s] # NullEntity =>
             /\ character[s] # character[t]
             /\ characterIds[s][0] # characterIds[t][0]
=============================================================================

----------------------------- MODULE WorldProofs -----------------------------
(***************************************************************************)
(* The invariants of the handlers of WorldServer, for any number of        *)
(* sessions, entities and positions, whatever the clients send; then, with *)
(* the clients of WorldGame, what players see of each other and that the   *)
(* handlers implement SharedWorld; then, for any number of logins, whose   *)
(* account a cookie of Journey names, and that the world behind the login  *)
(* and the stream is the one of WorldGame.                                 *)
(***************************************************************************)
EXTENDS Journey, TLAPS

(* WorldServer: the handlers, whatever they are asked.                      *)

\* Handlers that only answer leave the world and every session as they were.
OnlyAnswers ==
    /\ UNCHANGED <<sessionVars, worldVars, seen>>
    /\ up' \in BOOLEAN
    /\ faults' \subseteq FaultKinds
    /\ connections' \subseteq Sessions
    /\ sent' \in [Sessions -> SUBSET Packets]

LEMMA PlainPackets ==
    ASSUME NEW types, types \subseteq PacketTypes
    PROVE  Plain(types) \subseteq Packets
BY DEF Plain, Packet, Packets

LEMMA AnswersAreTypes ==
    ASSUME NEW request \in DOMAIN Answers
    PROVE  Answers[request] \subseteq PacketTypes
BY DEF PacketTypes

LEMMA FinishStateRepliesType ==
    ASSUME NEW state \in Nat
    PROVE  FinishStateReplies(state) \subseteq Packets
<1>1. state \in 0..6 => {ChangeState(state + 1)} \subseteq Packets
  BY DEF ChangeState, Packet, Packets, PacketTypes
<1>2. Plain(StateZeroReplies) \subseteq Packets
  BY PlainPackets DEF PacketTypes
<1>3. Plain({"SCUpdatePremiumPoint"}) \subseteq Packets
  BY PlainPackets DEF PacketTypes
<1> QED
  BY <1>1, <1>2, <1>3 DEF FinishStateReplies

LEMMA ToOnlyType ==
    ASSUME NEW s \in Sessions, NEW packets \in SUBSET Packets
    PROVE  ToOnly(s, packets) \in [Sessions -> SUBSET Packets]
BY DEF ToOnly

LEMMA AbortsOnlyAnswers ==
    ASSUME TypeOK, NEW kinds \in SUBSET FaultKinds, Aborts(kinds)
    PROVE  OnlyAnswers
BY DEF TypeOK, Aborts, OnlyAnswers

\* Every handler but the four that change the world only answers.
LEMMA QuietHandlers ==
    ASSUME TypeOK, NEW s \in Sessions,
           \/ OnClientConnected(s)
           \/ X2EnterWorldResponse(s)
           \/ \E state \in Nat : HandleFinishState(s, state)
           \/ \E request \in DOMAIN Answers : AnswerOnly(s, request)
           \/ CSCreateCharacterRefused(s)
           \/ \E charId \in Nat : CSCharacterSelect(s, charId)
    PROVE  OnlyAnswers
<1>1. CASE OnClientConnected(s)
  BY <1>1 DEF OnClientConnected, TypeOK, OnlyAnswers
<1>2. CASE X2EnterWorldResponse(s)
  <2>1. Plain({"X2EnterWorldResponse"}) \cup {ChangeState(0)} \in SUBSET Packets
    BY PlainPackets DEF ChangeState, Packet, Packets, PacketTypes
  <2> QED
    BY <1>2, <2>1, ToOnlyType DEF X2EnterWorldResponse, TypeOK, OnlyAnswers
<1>3. CASE \E state \in Nat : HandleFinishState(s, state)
  BY <1>3, FinishStateRepliesType, ToOnlyType
     DEF HandleFinishState, TypeOK, OnlyAnswers
<1>4. CASE \E request \in DOMAIN Answers : AnswerOnly(s, request)
  BY <1>4, AnswersAreTypes, PlainPackets, ToOnlyType
     DEF AnswerOnly, TypeOK, OnlyAnswers
<1>5. CASE CSCreateCharacterRefused(s)
  <2>1. Plain({"SCCharacterCreationFailed", "SCCreateCharacterResponse"})
           \in SUBSET Packets
    BY PlainPackets DEF PacketTypes
  <2>2. {"NullEntity"} \in SUBSET FaultKinds
    BY DEF FaultKinds
  <2> QED
    BY <1>5, <2>1, <2>2, ToOnlyType, AbortsOnlyAnswers
       DEF CSCreateCharacterRefused, TypeOK, OnlyAnswers
<1>6. CASE \E charId \in Nat : CSCharacterSelect(s, charId)
  <2>1. \A types : types \in SUBSET (SelectOpening \cup SelectRest)
                      => Plain(types) \in SUBSET Packets
    BY PlainPackets DEF PacketTypes
  <2>2. {"NullEntity"} \in SUBSET FaultKinds
    BY DEF FaultKinds
  <2>3. ASSUME NEW packets \in SUBSET Packets, sent' = ToOnly(s, packets),
               UNCHANGED <<up, faults, connections, sessionVars, worldVars, seen>>
        PROVE  OnlyAnswers
    BY <2>3, ToOnlyType DEF TypeOK, OnlyAnswers
  <2>4. PICK charId \in Nat : CSCharacterSelect(s, charId)
    BY <1>6
  <2> DEFINE replies == SelectOpening \cup
                IF registry[character[s]].template \in Fragmentable
                THEN SelectRest ELSE {}
  <2>5. Plain(replies) \in SUBSET Packets
    BY <2>1
  <2>6. CASE Aborts({"NullEntity"})
    BY <2>6, <2>2, AbortsOnlyAnswers
  <2>7. CASE sent' = ToOnly(s, {})
             /\ UNCHANGED <<up, faults, connections, sessionVars, worldVars, seen>>
    BY <2>7, <2>3
  <2>8. CASE sent' = ToOnly(s, Plain(replies))
             /\ UNCHANGED <<up, faults, connections, sessionVars, worldVars, seen>>
    BY <2>8, <2>3, <2>5
  <2> QED
    BY <2>4, <2>6, <2>7, <2>8 DEF CSCharacterSelect
<1> QED
  BY <1>1, <1>2, <1>3, <1>4, <1>5, <1>6

-----------------------------------------------------------------------------
(* The inductive invariant. *)

\* The counters are ahead of every id given out.
IdsFresh ==
    /\ FirstObjectId <= nextObjectId
    /\ 1 <= nextCharacterId
    /\ \A o \in ObjIds : nextObjectId <= o => objects[o] = NullEntity
    /\ \A e \in Created :
          /\ 1 <= registry[e].unitId
          /\ registry[e].unitId < nextCharacterId
          /\ \A f \in Created : e # f => registry[e].unitId # registry[f].unitId

\* A session's two character fields are written together, and by Create alone.
Holding ==
    \A s \in Sessions :
        /\ character[s] = NullEntity => characterIds[s][0] = 0
        /\ character[s] # NullEntity =>
              /\ character[s] \in Created
              /\ characterIds[s][0] = registry[character[s]].unitId
              /\ \A t \in Sessions : s # t => character[s] # character[t]
        /\ \A i \in 1..3 : characterIds[s][i] = 0

ServerInv == TypeOK /\ ObjectsResolve /\ IdsFresh /\ Holding

LEMMA ServerInvInit == Init => ServerInv
<1> SUFFICES ASSUME Init PROVE ServerInv
  OBVIOUS
<1> USE ConstantsOK
<1>1. Created = {}
  BY DEF Init, Created
<1>2. TypeOK
  BY DEF Init, TypeOK, FirstObjectId
<1>3. ObjectsResolve
  BY <1>1 DEF Init, ObjectsResolve
<1>4. IdsFresh
  BY <1>1 DEF Init, IdsFresh, FirstObjectId
<1>5. Holding
  <2>1. \A s \in Sessions :
           character[s] = NullEntity /\ characterIds[s] = [i \in 0..3 |-> 0]
    BY DEF Init
  <2>2. \A i \in 0..3 : [j \in 0..3 |-> 0][i] = 0
    OBVIOUS
  <2>3. 0 \in 0..3 /\ 1..3 \subseteq 0..3
    OBVIOUS
  <2> QED
    BY <2>1, <2>2, <2>3 DEF Holding
<1> QED
  BY <1>2, <1>3, <1>4, <1>5 DEF ServerInv

LEMMA OnlyAnswersKeepsInv ==
    ASSUME ServerInv, OnlyAnswers
    PROVE  ServerInv'
<1> USE DEF OnlyAnswers, sessionVars, worldVars
<1>1. Created' = Created
  BY DEF Created
<1>2. TypeOK'
  BY DEF ServerInv, TypeOK, Packets
<1>3. ObjectsResolve'
  BY <1>1 DEF ServerInv, ObjectsResolve
<1>4. IdsFresh'
  BY <1>1 DEF ServerInv, IdsFresh
<1>5. Holding'
  BY <1>1 DEF ServerInv, Holding
<1> QED
  BY <1>2, <1>3, <1>4, <1>5 DEF ServerInv

\* Showing entities of the registry to a client.
LEMMA ShowType ==
    ASSUME TypeOK, NEW shown \in SUBSET Created,
           NEW view \in [ObjIds -> Positions \cup {Unseen}]
    PROVE  /\ Show(view, shown) \in [ObjIds -> Positions \cup {Unseen}]
           /\ \A o \in ObjIds :
                 (\A e \in shown : registry[e].objectId # o)
                    => Show(view, shown)[o] = view[o]
<1>1. \A e \in shown : registry[e] \in Components
  BY DEF Created, TypeOK
<1>2. ASSUME NEW o \in ObjIds, \E e \in shown : registry[e].objectId = o
      PROVE  registry[CHOOSE e \in shown : registry[e].objectId = o].position
                \in Positions
  BY <1>1, <1>2 DEF Components
<1> QED
  BY <1>2 DEF Show

LEMMA ShowShows ==
    ASSUME TypeOK, ObjectsResolve, NEW shown \in SUBSET Created, NEW e \in shown,
           NEW view \in [ObjIds -> Positions \cup {Unseen}]
    PROVE  Show(view, shown)[registry[e].objectId] = registry[e].position
<1>1. registry[e].objectId \in ObjIds
  BY DEF TypeOK, Created, Components
<1>2. \A f \in shown : registry[f].objectId = registry[e].objectId => f = e
  BY DEF ObjectsResolve
<1> QED
  BY <1>1, <1>2 DEF Show

\* An object a client knows after Show was known before or is an entity's.
LEMMA ShowKnown ==
    ASSUME TypeOK, NEW shown \in SUBSET Created, NEW o \in ObjIds,
           NEW view \in [ObjIds -> Positions \cup {Unseen}]
    PROVE  \/ Show(view, shown)[o] = Unseen
           \/ view[o] # Unseen
           \/ \E e \in Created : registry[e].objectId = o
BY ShowType

\* A step that changes the components of entities, but neither which entities
\* there are nor who they are, and shows clients only entities that exist.
Redresses ==
    /\ UNCHANGED <<character, characterIds, objects, nextObjectId, nextCharacterId>>
    /\ Created' = Created
    /\ \A e \in Created :
          /\ registry'[e].objectId = registry[e].objectId
          /\ registry'[e].unitId = registry[e].unitId
    /\ \A s \in Sessions, o \in ObjIds :
          \/ seen'[s][o] = Unseen
          \/ seen[s][o] # Unseen
          \/ \E e \in Created : registry[e].objectId = o

LEMMA RedressesKeepsInv ==
    ASSUME ServerInv, TypeOK', Redresses
    PROVE  ServerInv'
<1> USE DEF Redresses
<1>1. ObjectsResolve'
  BY ConstantsOK DEF ServerInv, ObjectsResolve, Created
<1>2. IdsFresh'
  BY DEF ServerInv, IdsFresh
<1>3. Holding'
  BY DEF ServerInv, Holding
<1> QED
  BY <1>1, <1>2, <1>3 DEF ServerInv

\* Changing components of one entity that exists changes nothing about which
\* entities there are and who they are.
LEMMA OneEntityChanged ==
    ASSUME TypeOK, NEW e \in Created, NEW new \in Components,
           new.objectId = registry[e].objectId, new.unitId = registry[e].unitId,
           registry' = [registry EXCEPT ![e] = new]
    PROVE  /\ registry' \in [Handles -> Components \cup {NullEntity}]
           /\ Created' = Created
           /\ \A f \in Created :
                 /\ registry'[f].objectId = registry[f].objectId
                 /\ registry'[f].unitId = registry[f].unitId
<1>1. e \in Handles /\ registry \in [Handles -> Components \cup {NullEntity}]
  BY DEF Created, TypeOK
<1>2. registry' \in [Handles -> Components \cup {NullEntity}]
  BY <1>1
<1>3. new # NullEntity
  BY ConstantsOK
<1>4. registry'[e] = new /\ \A f \in Handles : f # e => registry'[f] = registry[f]
  BY <1>1
<1>5. Created' = Created
  BY <1>1, <1>3, <1>4 DEF Created
<1>6. \A f \in Created : /\ registry'[f].objectId = registry[f].objectId
                         /\ registry'[f].unitId = registry[f].unitId
  BY <1>4 DEF Created
<1> QED
  BY <1>2, <1>5, <1>6

LEMMA SpawnKeepsInv ==
    ASSUME ServerInv, NEW s \in Sessions, CSSpawnCharacter(s)
    PROVE  ServerInv'
<1> DEFINE me == character[s]
           kinds == IF me = NullEntity THEN {"NullEntity"}
                    ELSE IF registry[me].visual THEN {"VisualTwice"} ELSE {}
<1>1. kinds \in SUBSET FaultKinds
  BY DEF FaultKinds
<1>2. CASE Aborts(kinds)
  BY <1>1, <1>2, AbortsOnlyAnswers, OnlyAnswersKeepsInv DEF ServerInv
<1>3. CASE /\ me # NullEntity
           /\ GoesOn(kinds)
           /\ registry' = [registry EXCEPT ![me].visual = TRUE]
           /\ seen' = [seen EXCEPT ![s] = Show(@, {me})]
           /\ sent' = ToOnly(s, {UnitState(registry[me].objectId)})
           /\ UNCHANGED <<connections, sessionVars, objects, nextObjectId,
                          nextCharacterId>>
  <2> USE <1>3
  <2>1. me \in Created /\ me \in Handles /\ registry[me] \in Components
    BY DEF ServerInv, Holding, Created, TypeOK
  <2> DEFINE new == [registry[me] EXCEPT !.visual = TRUE]
  <2>2. /\ new \in Components
        /\ new.objectId = registry[me].objectId
        /\ new.unitId = registry[me].unitId
    BY <2>1 DEF Components
  <2>3. /\ registry' \in [Handles -> Components \cup {NullEntity}]
        /\ Created' = Created
        /\ \A e \in Created : /\ registry'[e].objectId = registry[e].objectId
                              /\ registry'[e].unitId = registry[e].unitId
    <3>1. registry' = [registry EXCEPT ![me] = new]
      OBVIOUS
    <3> HIDE DEF new
    <3> QED
      BY <2>1, <2>2, <3>1, OneEntityChanged DEF ServerInv
  <2>4. Show(seen[s], {me}) \in [ObjIds -> Positions \cup {Unseen}]
    BY <2>1, ShowType DEF ServerInv, TypeOK
  <2>5. {UnitState(registry[me].objectId)} \in SUBSET Packets
    BY <2>1 DEF UnitState, Packet, Packets, PacketTypes, Components, ObjIds, FirstObjectId
  <2>6. TypeOK'
    BY <1>1, <2>3, <2>4, <2>5, ToOnlyType DEF GoesOn, ServerInv, TypeOK, sessionVars
  <2>7. ASSUME NEW t \in Sessions, NEW o \in ObjIds
        PROVE  \/ seen'[t][o] = Unseen
               \/ seen[t][o] # Unseen
               \/ \E e \in Created : registry[e].objectId = o
    <3>1. seen[t] \in [ObjIds -> Positions \cup {Unseen}]
      BY DEF ServerInv, TypeOK
    <3>2. seen'[t] = seen[t] \/ seen'[t] = Show(seen[t], {me})
      BY DEF ServerInv, TypeOK
    <3>3. {me} \in SUBSET Created
      BY <2>1
    <3> QED
      BY <3>1, <3>2, <3>3, ShowKnown DEF ServerInv
  <2>8. Redresses
    BY <2>3, <2>7 DEF Redresses, sessionVars
  <2> QED
    BY <2>6, <2>8, RedressesKeepsInv
<1> QED
  BY <1>2, <1>3 DEF CSSpawnCharacter

LEMMA NotifyKeepsInv ==
    ASSUME ServerInv, NEW s \in Sessions, CSNotifyInGame(s)
    PROVE  ServerInv'
<1> DEFINE me == character[s]
           others == Created \ {me}
           watchers == Audience({s})
           kinds == (IF me = NullEntity THEN {"NullEntity"} ELSE {})
                    \cup (IF Bare # {} THEN {"NoVisualOptions"} ELSE {})
                    \cup (IF me \in Spawned THEN {"VelocityTwice"} ELSE {})
           enters ==
              /\ me # NullEntity
              /\ GoesOn(kinds)
              /\ registry' = WithVelocity(me)
              /\ inGame' = [inGame EXCEPT ![s] = TRUE]
              /\ seen' = [t \in Sessions |->
                             IF t = s THEN Show(seen[t], others)
                             ELSE IF t \in watchers THEN Show(seen[t], {me})
                             ELSE seen[t]]
              /\ sent' = [t \in Sessions |->
                             IF t = s THEN {UnitState(registry[e].objectId) : e \in others}
                             ELSE IF t \in watchers THEN {UnitState(registry[me].objectId)}
                             ELSE {}]
              /\ UNCHANGED <<connections, character, characterIds, objects,
                             nextObjectId, nextCharacterId>>
<1>1. kinds \in SUBSET FaultKinds
  BY DEF FaultKinds
<1>2. CASE Aborts(kinds)
  BY <1>1, <1>2, AbortsOnlyAnswers, OnlyAnswersKeepsInv DEF ServerInv
<1>3. CASE enters
  <2>1. me \in Created /\ me \in Handles /\ registry[me] \in Components
    BY <1>3 DEF ServerInv, Holding, Created, TypeOK
  <2> DEFINE new == [registry[me] EXCEPT !.velocity = TRUE]
  <2>2. /\ new \in Components
        /\ new.objectId = registry[me].objectId
        /\ new.unitId = registry[me].unitId
    BY <2>1 DEF Components
  <2>3. /\ registry' \in [Handles -> Components \cup {NullEntity}]
        /\ Created' = Created
        /\ \A e \in Created : /\ registry'[e].objectId = registry[e].objectId
                              /\ registry'[e].unitId = registry[e].unitId
    <3>1. registry' = [registry EXCEPT ![me] = new]
      BY <1>3 DEF WithVelocity
    <3> HIDE DEF new
    <3> QED
      BY <2>1, <2>2, <3>1, OneEntityChanged DEF ServerInv
  <2>4. ASSUME NEW t \in Sessions
        PROVE  \/ seen'[t] = seen[t]
               \/ \E shown \in SUBSET Created : seen'[t] = Show(seen[t], shown)
    <3>1. {me} \in SUBSET Created /\ others \in SUBSET Created
      BY <2>1
    <3>2. \/ seen'[t] = seen[t]
          \/ seen'[t] = Show(seen[t], others)
          \/ seen'[t] = Show(seen[t], {me})
      BY <1>3
    <3> QED
      BY <3>1, <3>2
  <2>5. \A t \in Sessions : seen[t] \in [ObjIds -> Positions \cup {Unseen}]
    BY DEF ServerInv, TypeOK
  <2>6. seen' \in [Sessions -> [ObjIds -> Positions \cup {Unseen}]]
    <3>1. \A t \in Sessions : seen'[t] \in [ObjIds -> Positions \cup {Unseen}]
      <4> TAKE t \in Sessions
      <4>1. CASE seen'[t] = seen[t]
        BY <2>5, <4>1
      <4>2. CASE \E shown \in SUBSET Created : seen'[t] = Show(seen[t], shown)
        BY <2>5, <4>2, ShowType DEF ServerInv
      <4> QED
        BY <2>4, <4>1, <4>2
    <3>2. seen' = [t \in Sessions |-> seen'[t]]
      BY <1>3
    <3> QED
      BY <3>1, <3>2
  <2>7. sent' \in [Sessions -> SUBSET Packets]
    <3>1. \A e \in Created : UnitState(registry[e].objectId) \in Packets
      <4>1. \A e \in Created : registry[e].objectId \in Nat
        BY DEF Created, ServerInv, TypeOK, Components, ObjIds, FirstObjectId
      <4> QED
        BY <4>1 DEF UnitState, Packet, Packets, PacketTypes
    <3>2. {UnitState(registry[e].objectId) : e \in others} \in SUBSET Packets
      BY <3>1
    <3>3. {UnitState(registry[me].objectId)} \in SUBSET Packets
      BY <2>1, <3>1
    <3> QED
      BY <1>3, <3>2, <3>3
  <2>8. TypeOK'
    <3>1. inGame' \in [Sessions -> BOOLEAN]
      BY <1>3 DEF ServerInv, TypeOK
    <3>2. up' \in BOOLEAN /\ faults' \subseteq FaultKinds
      BY <1>3, <1>1 DEF GoesOn, ServerInv, TypeOK
    <3> QED
      BY <1>3, <2>3, <2>6, <2>7, <3>1, <3>2 DEF ServerInv, TypeOK
  <2>9. Redresses
    <3>1. ASSUME NEW t \in Sessions, NEW o \in ObjIds
          PROVE  \/ seen'[t][o] = Unseen
                 \/ seen[t][o] # Unseen
                 \/ \E e \in Created : registry[e].objectId = o
      BY <2>4, <2>5, ShowKnown DEF ServerInv
    <3> QED
      BY <1>3, <2>3, <3>1 DEF Redresses
  <2> QED
    BY <2>8, <2>9, RedressesKeepsInv
<1> QED
  BY <1>2, <1>3 DEF CSNotifyInGame

LEMMA MoveKeepsInv ==
    ASSUME ServerInv, NEW s \in Sessions, NEW o \in ObjIds, NEW unit \in BOOLEAN,
           NEW p \in Positions, CSMoveUnit(s, o, unit, p)
    PROVE  ServerInv'
<1> DEFINE e == objects[o]
           new == [registry[e] EXCEPT !.position = p]
<1>1. /\ registry' \in [Handles -> Components \cup {NullEntity}]
      /\ Created' = Created
      /\ \A f \in Created : /\ registry'[f].objectId = registry[f].objectId
                            /\ registry'[f].unitId = registry[f].unitId
  <2>1. CASE registry' = registry
    BY <2>1 DEF Created, ServerInv, TypeOK
  <2>2. CASE e \in Spawned /\ registry' = [registry EXCEPT ![e].position = p]
    <3>1. e \in Created /\ registry[e] \in Components
      BY <2>2 DEF Spawned, Created, ServerInv, TypeOK
    <3>2. /\ new \in Components
          /\ new.objectId = registry[e].objectId
          /\ new.unitId = registry[e].unitId
      BY <3>1 DEF Components
    <3>3. registry' = [registry EXCEPT ![e] = new]
      BY <2>2
    <3> HIDE DEF new, e
    <3> QED
      BY <3>1, <3>2, <3>3, OneEntityChanged DEF ServerInv
  <2> QED
    BY <2>1, <2>2 DEF CSMoveUnit, HandleUnitMovement
<1>2. ASSUME NEW t \in Sessions
      PROVE  /\ seen'[t] \in [ObjIds -> Positions \cup {Unseen}]
             /\ \A q \in ObjIds : seen'[t][q] # Unseen => seen[t][q] # Unseen
  <2>1. seen[t] \in [ObjIds -> Positions \cup {Unseen}]
    BY DEF ServerInv, TypeOK
  <2>2. \/ seen'[t] = seen[t]
        \/ seen[t][o] # Unseen /\ seen'[t] = [seen[t] EXCEPT ![o] = p]
    BY DEF CSMoveUnit
  <2> QED
    BY <2>1, <2>2
<1>3. seen' \in [Sessions -> [ObjIds -> Positions \cup {Unseen}]]
  <2>1. seen' = [t \in Sessions |-> seen'[t]]
    BY DEF CSMoveUnit
  <2> QED
    BY <1>2, <2>1
<1>4. sent' \in [Sessions -> SUBSET Packets]
  <2>1. Movement(o) \in Packets
    BY DEF Movement, Packet, Packets, PacketTypes, ObjIds, FirstObjectId
  <2> QED
    BY <2>1 DEF CSMoveUnit
<1>5. TypeOK'
  BY <1>1, <1>3, <1>4 DEF CSMoveUnit, ServerInv, TypeOK, sessionVars
<1>6. Redresses
  BY <1>1, <1>2 DEF CSMoveUnit, Redresses, sessionVars
<1> QED
  BY <1>5, <1>6, RedressesKeepsInv

\* A new entity has a new handle, a new object id and a new character id.
LEMMA CreateKeepsInv ==
    ASSUME ServerInv, NEW s \in Sessions, NEW template \in Templates,
           CSCreateCharacter(s, template)
    PROVE  ServerInv'
<1> PICK e \in Handles \ Created : Create(s, e, template)
  BY DEF CSCreateCharacter
<1> DEFINE new == Fresh(nextObjectId, nextCharacterId, template)
<1>1. /\ nextObjectId \in ObjIds
      /\ nextObjectId \in Nat
      /\ nextCharacterId \in Nat \ {0}
  BY DEF CSCreateCharacter, ServerInv, TypeOK, IdsFresh
<1>2. /\ new \in Components
      /\ new # NullEntity
      /\ new.objectId = nextObjectId
      /\ new.unitId = nextCharacterId
  <2>1. new \in Components
    <3>1. SpawnPosition \in Positions
      BY ConstantsOK
    <3> QED
      BY <1>1, <3>1 DEF Fresh, Components
  <2>2. new # NullEntity
    BY <2>1, ConstantsOK
  <2> QED
    BY <2>1, <2>2 DEF Fresh
<1> HIDE DEF new
<1>3. /\ registry' = [registry EXCEPT ![e] = new]
      /\ objects' = [objects EXCEPT ![nextObjectId] = e]
      /\ nextObjectId' = nextObjectId + 1
      /\ nextCharacterId' = nextCharacterId + 1
      /\ character' = [character EXCEPT ![s] = e]
      /\ characterIds' = [characterIds EXCEPT ![s][0] = nextCharacterId]
      /\ UNCHANGED <<up, faults, connections, inGame, seen>>
  <2>1. objects[nextObjectId] = NullEntity
    BY <1>1 DEF ServerInv, IdsFresh
  <2> QED
    BY <2>1 DEF Create, CSCreateCharacter, new
<1>4. /\ registry \in [Handles -> Components \cup {NullEntity}]
      /\ objects \in [ObjIds -> Handles \cup {NullEntity}]
      /\ character \in [Sessions -> Handles \cup {NullEntity}]
      /\ characterIds \in [Sessions -> [0..3 -> Nat]]
      /\ e \in Handles /\ e # NullEntity
  BY ConstantsOK DEF ServerInv, TypeOK
<1>5. /\ Created' = Created \cup {e}
      /\ registry'[e] = new
      /\ \A f \in Created : f # e /\ registry'[f] = registry[f]
  BY <1>2, <1>3, <1>4 DEF Created
<1>6. TypeOK'
  <2>1. sent' \in [Sessions -> SUBSET Packets]
    <3>1. Plain({"SCCreateCharacterResponse"}) \in SUBSET Packets
      BY PlainPackets DEF PacketTypes
    <3> QED
      BY <3>1, ToOnlyType DEF CSCreateCharacter
  <2>2. characterIds' \in [Sessions -> [0..3 -> Nat]]
    BY <1>1, <1>3, <1>4
  <2>3. registry' \in [Handles -> Components \cup {NullEntity}]
    BY <1>2, <1>3, <1>4
  <2>4. objects' \in [ObjIds -> Handles \cup {NullEntity}]
    BY <1>3, <1>4
  <2> QED
    BY <1>1, <1>3, <1>4, <2>1, <2>2, <2>3, <2>4 DEF ServerInv, TypeOK
<1>7. ObjectsResolve'
  <2>1. \A f \in Created : /\ registry[f].objectId \in ObjIds
                           /\ registry[f].objectId # nextObjectId
                           /\ objects[registry[f].objectId] = f
    BY <1>1, <1>4, ConstantsOK DEF ServerInv, ObjectsResolve, IdsFresh, Created, Components
  <2>2. \A f \in Created' : objects'[registry'[f].objectId] = f
    BY <1>1, <1>2, <1>3, <1>4, <1>5, <2>1
  <2>3. ASSUME NEW q \in ObjIds
        PROVE  /\ objects'[q] # NullEntity =>
                     objects'[q] \in Created' /\ registry'[objects'[q]].objectId = q
               /\ \A t \in Sessions : seen'[t][q] # Unseen => objects'[q] # NullEntity
    <3>1. CASE q = nextObjectId
      BY <1>2, <1>3, <1>4, <1>5, <3>1
    <3>2. CASE q # nextObjectId
      <4>1. objects'[q] = objects[q]
        BY <1>3, <1>4, <3>2
      <4> QED
        BY <1>3, <1>5, <4>1 DEF ServerInv, ObjectsResolve
    <3> QED
      BY <3>1, <3>2
  <2> QED
    BY <2>2, <2>3 DEF ObjectsResolve
<1>8. IdsFresh'
  <2>1. \A o \in ObjIds : nextObjectId' <= o => objects'[o] = NullEntity
    BY <1>1, <1>3, <1>4 DEF ServerInv, IdsFresh, ObjIds, FirstObjectId
  <2>2. \A f \in Created : /\ registry[f].unitId \in Nat
                           /\ 1 <= registry[f].unitId
                           /\ registry[f].unitId < nextCharacterId
    BY <1>4 DEF ServerInv, IdsFresh, Created, Components
  <2>3. \A f \in Created' : /\ 1 <= registry'[f].unitId
                            /\ registry'[f].unitId < nextCharacterId'
    BY <1>1, <1>2, <1>3, <1>5, <2>2
  <2>4. \A f, g \in Created' : f # g => registry'[f].unitId # registry'[g].unitId
    BY <1>1, <1>2, <1>5, <2>2 DEF ServerInv, IdsFresh
  <2>5. FirstObjectId <= nextObjectId' /\ 1 <= nextCharacterId'
    BY <1>1, <1>3 DEF ServerInv, IdsFresh, FirstObjectId
  <2> QED
    BY <2>1, <2>3, <2>4, <2>5 DEF IdsFresh
<1>9. Holding'
  <2>1. ASSUME NEW t \in Sessions, t # s
        PROVE  character'[t] = character[t] /\ characterIds'[t] = characterIds[t]
               /\ (character[t] # NullEntity => character[t] \in Created)
    BY <1>3, <1>4, <2>1 DEF ServerInv, Holding
  <2>2. /\ character'[s] = e
        /\ characterIds'[s] = [characterIds[s] EXCEPT ![0] = nextCharacterId]
    BY <1>3, <1>4
  <2>3. /\ characterIds'[s][0] = nextCharacterId
        /\ \A i \in 1..3 : characterIds'[s][i] = 0
    BY <1>4, <2>2 DEF ServerInv, Holding
  <2>4. ASSUME NEW t \in Sessions
        PROVE  /\ character'[t] = NullEntity => characterIds'[t][0] = 0
               /\ character'[t] # NullEntity =>
                     /\ character'[t] \in Created'
                     /\ characterIds'[t][0] = registry'[character'[t]].unitId
                     /\ \A u \in Sessions : t # u => character'[t] # character'[u]
               /\ \A i \in 1..3 : characterIds'[t][i] = 0
    <3>1. CASE t = s
      BY <1>2, <1>4, <1>5, <2>1, <2>2, <2>3, <3>1
    <3>2. CASE t # s
      BY <1>5, <2>1, <2>2, <3>2 DEF ServerInv, Holding
    <3> QED
      BY <3>1, <3>2
  <2> QED
    BY <2>4 DEF Holding
<1> QED
  BY <1>6, <1>7, <1>8, <1>9 DEF ServerInv

\* Every step of the server keeps the invariant.
LEMMA ServerInvNext ==
    ASSUME ServerInv, [Next]_vars
    PROVE  ServerInv'
<1>1. CASE UNCHANGED vars
  <2>1. OnlyAnswers
    BY <1>1 DEF vars, OnlyAnswers, ServerInv, TypeOK, sessionVars, worldVars
  <2> QED
    BY <2>1, OnlyAnswersKeepsInv
<1>2. ASSUME NEW s \in Sessions,
             \/ OnClientConnected(s)
             \/ X2EnterWorldResponse(s)
             \/ \E state \in 0..8 : HandleFinishState(s, state)
             \/ \E request \in DOMAIN Answers : AnswerOnly(s, request)
             \/ CSCreateCharacterRefused(s)
             \/ \E charId \in 0..MaxObjects : CSCharacterSelect(s, charId)
      PROVE  ServerInv'
  <2>1. 0..8 \subseteq Nat /\ 0..MaxObjects \subseteq Nat
    OBVIOUS
  <2>2. OnlyAnswers
    BY <1>2, <2>1, QuietHandlers DEF ServerInv
  <2> QED
    BY <2>2, OnlyAnswersKeepsInv
<1>3. ASSUME NEW s \in Sessions, \E template \in Templates : CSCreateCharacter(s, template)
      PROVE  ServerInv'
  BY <1>3, CreateKeepsInv
<1>4. ASSUME NEW s \in Sessions, CSSpawnCharacter(s)
      PROVE  ServerInv'
  BY <1>4, SpawnKeepsInv
<1>5. ASSUME NEW s \in Sessions, CSNotifyInGame(s)
      PROVE  ServerInv'
  BY <1>5, NotifyKeepsInv
<1>6. ASSUME NEW s \in Sessions,
             \E o \in ObjIds, unit \in BOOLEAN, p \in Positions :
                CSMoveUnit(s, o, unit, p)
      PROVE  ServerInv'
  BY <1>6, MoveKeepsInv
<1> QED
  BY <1>1, <1>2, <1>3, <1>4, <1>5, <1>6 DEF Next

LEMMA HoldingSelects == ServerInv => SelectedIsHeld
<1> SUFFICES ASSUME ServerInv PROVE SelectedIsHeld
  OBVIOUS
<1>1. \A s \in Sessions : \A i \in 0..3 : i = 0 \/ i \in 1..3
  OBVIOUS
<1>2. ASSUME NEW s \in Sessions, NEW id \in 1..MaxObjects
      PROVE  (\E i \in 0..3 : characterIds[s][i] = id) <=> characterIds[s][0] = id
  BY <1>1 DEF ServerInv, Holding
<1>3. NullEntity \notin Created
  BY ConstantsOK DEF Created
<1>4. ASSUME NEW s \in Sessions, NEW id \in 1..MaxObjects
      PROVE  characterIds[s][0] = id
                <=> (character[s] \in Created /\ registry[character[s]].unitId = id)
  BY <1>3 DEF ServerInv, Holding
<1>5. ASSUME NEW s \in Sessions, NEW t \in Sessions, s # t, character[s] # NullEntity
      PROVE  /\ character[s] # character[t]
             /\ characterIds[s][0] # characterIds[t][0]
  BY <1>5 DEF ServerInv, Holding, IdsFresh
<1> QED
  BY <1>2, <1>4, <1>5 DEF SelectedIsHeld

\* The types of the world server's state (WorldSession.h, WorldManager.h), its
\* maps, its counters and its sessions' characters stay consistent, whatever any
\* number of clients send in any order.
THEOREM ServerInvariant == Spec => []ServerInv
<1>1. ServerInv /\ [Next]_vars => ServerInv'
  BY ServerInvNext
<1> QED
  BY <1>1, ServerInvInit, PTL DEF Spec

\* The state of the world server keeps its types.
THEOREM ServerTypeOK == Spec => []TypeOK
<1>1. ServerInv => TypeOK
  BY DEF ServerInv
<1> QED
  BY <1>1, ServerInvariant, PTL

\* WorldManager::Entities (WorldManager.cpp) stays the inverse of the ObjectId
\* components: an object id a client was told of resolves to its one entity.
THEOREM ServerObjectsResolve == Spec => []ObjectsResolve
<1>1. ServerInv => ObjectsResolve
  BY DEF ServerInv
<1> QED
  BY <1>1, ServerInvariant, PTL

\* The id check of CSCharacterSelect and the entity the handlers use name the same
\* character, and no two sessions ever hold the same one (CharacterManager.cpp).
THEOREM ServerSelectedIsHeld == Spec => []SelectedIsHeld
BY HoldingSelects, ServerInvariant, PTL

-----------------------------------------------------------------------------
(* WorldGame: the handlers with their clients. *)

-----------------------------------------------------------------------------
(* Only CSMoveUnit sends movements. *)

Still(packets) == \A o \in ObjIds : Movement(o) \notin packets

LEMMA PlainStill ==
    ASSUME NEW types, "SCOneUnitMovement" \notin types
    PROVE  Still(Plain(types))
BY DEF Still, Plain, Packet, Movement

LEMMA ToOnlyStill ==
    ASSUME NEW s \in Sessions, NEW packets, Still(packets)
    PROVE  \A t \in Sessions : Still(ToOnly(s, packets)[t])
BY DEF ToOnly, Still

LEMMA FinishStateRepliesStill ==
    ASSUME NEW state \in Nat
    PROVE  Still(FinishStateReplies(state))
<1>1. Still({ChangeState(state + 1)})
  BY DEF Still, ChangeState, Movement, Packet
<1>2. Still(Plain(StateZeroReplies))
  BY PlainStill DEF StateZeroReplies
<1>3. Still(Plain({"SCUpdatePremiumPoint"}))
  BY PlainStill
<1> QED
  BY <1>1, <1>2, <1>3 DEF FinishStateReplies, Still

LEMMA QuietHandlersStill ==
    ASSUME NEW s \in Sessions,
           \/ OnClientConnected(s)
           \/ X2EnterWorldResponse(s)
           \/ \E state \in Nat : HandleFinishState(s, state)
           \/ \E request \in DOMAIN Answers : AnswerOnly(s, request)
           \/ CSCreateCharacterRefused(s)
           \/ \E charId \in Nat : CSCharacterSelect(s, charId)
    PROVE  \A t \in Sessions : Still(sent'[t])
<1>1. CASE OnClientConnected(s)
  BY <1>1 DEF OnClientConnected, Still
<1>2. CASE X2EnterWorldResponse(s)
  <2>1. Still(Plain({"X2EnterWorldResponse"})) /\ Still({ChangeState(0)})
    BY PlainStill DEF Still, ChangeState, Movement, Packet
  <2>2. Still(Plain({"X2EnterWorldResponse"}) \cup {ChangeState(0)})
    BY <2>1 DEF Still
  <2> QED
    BY <1>2, <2>2, ToOnlyStill DEF X2EnterWorldResponse
<1>3. CASE \E state \in Nat : HandleFinishState(s, state)
  BY <1>3, FinishStateRepliesStill, ToOnlyStill DEF HandleFinishState
<1>4. CASE \E request \in DOMAIN Answers : AnswerOnly(s, request)
  <2>1. \A request \in DOMAIN Answers : "SCOneUnitMovement" \notin Answers[request]
    BY DEF Answers
  <2>2. \A request \in DOMAIN Answers : Still(Plain(Answers[request]))
    BY <2>1, PlainStill
  <2> QED
    BY <1>4, <2>2, ToOnlyStill DEF AnswerOnly
<1>5. ASSUME NEW kinds, Aborts(kinds)
      PROVE  \A t \in Sessions : Still(sent'[t])
  BY <1>5 DEF Aborts, Still
<1>6. CASE CSCreateCharacterRefused(s)
  <2>1. Still(Plain({"SCCharacterCreationFailed", "SCCreateCharacterResponse"}))
    BY PlainStill
  <2> QED
    BY <1>5, <1>6, <2>1, ToOnlyStill DEF CSCreateCharacterRefused
<1>7. CASE \E charId \in Nat : CSCharacterSelect(s, charId)
  <2>1. \A types \in SUBSET (SelectOpening \cup SelectRest) :
           "SCOneUnitMovement" \notin types
    BY DEF SelectOpening, SelectRest
  <2> DEFINE replies == SelectOpening \cup
                IF registry[character[s]].template \in Fragmentable
                THEN SelectRest ELSE {}
  <2>2. Still(Plain(replies)) /\ Still({})
    BY <2>1, PlainStill DEF Still
  <2>3. \/ sent' = ToOnly(s, {})
        \/ sent' = ToOnly(s, Plain(replies))
        \/ Aborts({"NullEntity"})
    BY <1>7 DEF CSCharacterSelect
  <2> QED
    BY <1>5, <2>2, <2>3, ToOnlyStill
<1> QED
  BY <1>1, <1>2, <1>3, <1>4, <1>6, <1>7

-----------------------------------------------------------------------------
(* The inductive invariant. *)

\* What the stage of a client says of its session.
ClientStages ==
    \A s \in Sessions :
        /\ stage[s] # "offline" => s \in connections
        /\ stage[s] = "playing" => inGame[s]
        /\ stage[s] = "selected" => character[s] \in Created
        /\ stage[s] = "spawned" => character[s] \in Created \ Bare
        /\ stage[s] = "spawned" \/ inGame[s] => seen[s][ObjectOf(s)] # Unseen

\* What was sent last names only objects the client was shown.
MovementsShown ==
    \A s \in Sessions, o \in ObjIds : Movement(o) \in sent[s] => seen[s][o] # Unseen

GameInv ==
    /\ ServerInv
    /\ GameTypeOK
    /\ ClientStages
    /\ InGameHasCharacter
    /\ ViewsAgree
    /\ MovementsShown

LEMMA GameInvInit == GameInit => GameInv
<1> SUFFICES ASSUME GameInit PROVE GameInv
  OBVIOUS
<1>1. ServerInv
  BY ServerInvInit DEF GameInit
<1>2. /\ \A s \in Sessions : stage[s] = "offline" /\ ~inGame[s] /\ sent[s] = {}
      /\ GameTypeOK
  BY <1>1 DEF GameInit, Init, GameTypeOK, Stages, ServerInv
<1> QED
  BY <1>1, <1>2 DEF GameInv, ClientStages, InGameHasCharacter, ViewsAgree,
                    MovementsShown

\* A step that leaves the world and the sessions alone and takes the client of s
\* to a stage that says no more than is so.
Quiet(s) ==
    /\ OnlyAnswers
    /\ connections \subseteq connections'
    /\ \A t \in Sessions : sent'[t] = sent[t] \/ Still(sent'[t])
    /\ stage' \in [Sessions -> Stages]
    /\ asked' \in [Sessions -> 0..7]
    /\ made' \in [Sessions -> SUBSET Nat]
    /\ \A t \in Sessions \ {s} : stage'[t] = stage[t]
    /\ \/ stage'[s] = stage[s]
       \/ /\ s \in connections'
          /\ \/ stage'[s] = "gone"
             \/ ~inGame[s] /\ stage'[s] \in {"hello", "loading", "listing", "lobby"}
             \/ ~inGame[s] /\ stage'[s] = "selected" /\ character[s] \in Created

LEMMA QuietKeepsInv ==
    ASSUME GameInv, NEW s \in Sessions, Quiet(s)
    PROVE  GameInv'
<1>1. ServerInv'
  BY OnlyAnswersKeepsInv DEF GameInv, Quiet
<1>2. /\ UNCHANGED <<inGame, character, registry, seen>>
      /\ connections \subseteq connections'
      /\ Created' = Created /\ Bare' = Bare /\ Spawned' = Spawned
      /\ \A t \in Sessions : ObjectOf(t)' = ObjectOf(t) /\ PositionOf(t)' = PositionOf(t)
  BY DEF Quiet, OnlyAnswers, sessionVars, worldVars, Created, Bare, Spawned,
         ObjectOf, PositionOf
<1>3. GameTypeOK'
  BY <1>1 DEF Quiet, GameTypeOK, ServerInv
<1>4. ClientStages'
  BY <1>2 DEF GameInv, ClientStages, Quiet
<1>5. InGameHasCharacter'
  BY <1>2 DEF GameInv, InGameHasCharacter, Quiet
<1>6. ViewsAgree'
  BY <1>2 DEF GameInv, ViewsAgree
<1>7. MovementsShown'
  BY <1>2 DEF GameInv, MovementsShown, Quiet, Still, Movement
<1> QED
  BY <1>1, <1>3, <1>4, <1>5, <1>6, <1>7 DEF GameInv

-----------------------------------------------------------------------------
(* The steps that only talk. *)

LEMMA ObeyType ==
    ASSUME asked \in [Sessions -> 0..7], NEW s \in Sessions, Obey(s)
    PROVE  asked' \in [Sessions -> 0..7]
<1>1. ASSUME \E n \in 0..7 : ChangeState(n) \in sent'[s]
      PROVE  (CHOOSE n \in 0..7 : ChangeState(n) \in sent'[s]) \in 0..7
  BY <1>1
<1> QED
  BY <1>1 DEF Obey

LEMMA QuietSteps ==
    ASSUME GameInv, NEW s \in Sessions,
           \/ Connect(s)
           \/ EnterWorld(s)
           \/ FinishState(s)
           \/ ListCharacter(s)
           \/ RefusedName(s)
           \/ SelectCharacter(s)
           \/ Chatter(s)
           \/ Vanish(s)
    PROVE  Quiet(s)
<1>1. /\ TypeOK
      /\ stage \in [Sessions -> Stages]
      /\ asked \in [Sessions -> 0..7]
      /\ made \in [Sessions -> SUBSET Nat]
  BY DEF GameInv, GameTypeOK
<1>2. /\ stage[s] # "offline" => s \in connections
      /\ stage[s] \notin {"playing", "gone"} => ~inGame[s]
  BY DEF GameInv, ClientStages, InGameHasCharacter
<1>3. asked[s] \in Nat
  BY <1>1
<1> USE DEF Stages
<1>4. CASE Connect(s)
  <2>1. OnlyAnswers /\ \A t \in Sessions : Still(sent'[t])
    BY <1>1, <1>4, QuietHandlers, QuietHandlersStill DEF Connect
  <2> QED
    BY <1>1, <1>2, <1>4, <2>1 DEF Connect, OnClientConnected, Quiet
<1>5. CASE EnterWorld(s)
  <2>1. OnlyAnswers /\ \A t \in Sessions : Still(sent'[t])
    BY <1>1, <1>5, QuietHandlers, QuietHandlersStill DEF EnterWorld
  <2>2. asked' \in [Sessions -> 0..7]
    BY <1>1, <1>5, ObeyType DEF EnterWorld
  <2>3. connections' = connections /\ s \in connections
    BY <1>5 DEF EnterWorld, X2EnterWorldResponse, Handling
  <2> QED
    BY <1>1, <1>2, <1>5, <2>1, <2>2, <2>3 DEF EnterWorld, Advance, Quiet
<1>6. CASE FinishState(s)
  <2>1. OnlyAnswers /\ \A t \in Sessions : Still(sent'[t])
    BY <1>1, <1>3, <1>6, QuietHandlers, QuietHandlersStill DEF FinishState
  <2>2. asked' \in [Sessions -> 0..7]
    BY <1>1, <1>6, ObeyType DEF FinishState
  <2>3. connections' = connections /\ s \in connections
    BY <1>6 DEF FinishState, HandleFinishState, Handling
  <2> QED
    BY <1>1, <1>2, <1>6, <2>1, <2>2, <2>3 DEF FinishState, Advance, Quiet
<1>7. CASE ListCharacter(s)
  <2>1. "CSListCharacter" \in DOMAIN Answers
    BY DEF Answers
  <2>2. OnlyAnswers /\ \A t \in Sessions : Still(sent'[t])
    BY <1>1, <1>7, <2>1, QuietHandlers, QuietHandlersStill DEF ListCharacter
  <2>3. connections' = connections /\ s \in connections
    BY <1>7 DEF ListCharacter, AnswerOnly, Handling
  <2> QED
    BY <1>1, <1>2, <1>7, <2>2, <2>3 DEF ListCharacter, Advance, Quiet
<1>8. CASE RefusedName(s)
  <2>1. OnlyAnswers /\ \A t \in Sessions : Still(sent'[t])
    BY <1>1, <1>8, QuietHandlers, QuietHandlersStill DEF RefusedName
  <2>2. connections' = connections
    BY <1>8 DEF RefusedName, CSCreateCharacterRefused, Aborts
  <2> QED
    BY <1>1, <1>8, <2>1, <2>2 DEF RefusedName, clientVars, Quiet
<1>9. CASE SelectCharacter(s)
  <2>1. PICK charId \in made[s] : CSCharacterSelect(s, charId)
    BY <1>9 DEF SelectCharacter
  <2>2. charId \in Nat
    BY <1>1
  <2>3. OnlyAnswers /\ \A t \in Sessions : Still(sent'[t])
    BY <1>1, <2>1, <2>2, QuietHandlers, QuietHandlersStill
  <2>4. connections' = connections /\ s \in connections
    BY <2>1 DEF CSCharacterSelect, Aborts, Handling
  <2>5. ASSUME Packet("SCResponseUIData", 0) \in sent'[s]
        PROVE  character[s] \in Created
    <3>1. sent'[s] # {}
      BY <2>5
    <3>2. character[s] # NullEntity
      BY <2>1, <3>1 DEF CSCharacterSelect, ToOnly, Aborts
    <3> QED
      BY <3>2 DEF GameInv, ServerInv, Holding
  <2> QED
    BY <1>1, <1>2, <1>9, <2>3, <2>4, <2>5 DEF SelectCharacter, Advance, Quiet
<1>10. CASE Chatter(s)
  <2>1. OnlyAnswers /\ \A t \in Sessions : Still(sent'[t])
    BY <1>1, <1>10, QuietHandlers, QuietHandlersStill DEF Chatter
  <2>2. connections' = connections
    BY <1>10 DEF Chatter, AnswerOnly
  <2> QED
    BY <1>1, <1>10, <2>1, <2>2 DEF Chatter, clientVars, Quiet
<1>11. CASE Vanish(s)
  <2>1. OnlyAnswers
    BY <1>1, <1>11 DEF Vanish, vars, OnlyAnswers, TypeOK, sessionVars, worldVars
  <2> QED
    BY <1>1, <1>2, <1>11, <2>1 DEF Vanish, vars, Quiet
<1> QED
  BY <1>4, <1>5, <1>6, <1>7, <1>8, <1>9, <1>10, <1>11

-----------------------------------------------------------------------------
(* The steps that change the world. *)

\* Once an object is known it stays known.
LEMMA ShowKeeps ==
    ASSUME TypeOK, NEW shown \in SUBSET Created, NEW o \in ObjIds,
           NEW view \in [ObjIds -> Positions \cup {Unseen}]
    PROVE  view[o] # Unseen => Show(view, shown)[o] # Unseen
<1>1. CASE \A e \in shown : registry[e].objectId # o
  BY <1>1, ShowType
<1>2. CASE \E e \in shown : registry[e].objectId = o
  <2> DEFINE e == CHOOSE e \in shown : registry[e].objectId = o
  <2>1. e \in shown
    BY <1>2
  <2>2. registry[e] \in Components
    BY <2>1 DEF Created, TypeOK
  <2>3. Show(view, shown)[o] = registry[e].position
    BY <1>2 DEF Show
  <2> QED
    BY <2>2, <2>3, ConstantsOK DEF Components
<1> QED
  BY <1>1, <1>2

LEMMA CreateStep ==
    ASSUME GameInv, NEW s \in Sessions, CreateCharacter(s)
    PROVE  GameInv'
<1>1. PICK template \in Templates : CSCreateCharacter(s, template)
  BY DEF CreateCharacter
<1>2. ServerInv'
  BY <1>1, CreateKeepsInv DEF GameInv
<1>3. PICK e \in Handles \ Created : Create(s, e, template)
  BY <1>1 DEF CSCreateCharacter
<1>4. /\ registry \in [Handles -> Components \cup {NullEntity}]
      /\ character \in [Sessions -> Handles \cup {NullEntity}]
      /\ nextCharacterId \in Nat
  BY DEF GameInv, ServerInv, TypeOK
<1>5. \A f \in Created : f # e /\ registry'[f] = registry[f]
  BY <1>3, <1>4 DEF Create, Created
<1>6. \A t \in Sessions \ {s} : character'[t] = character[t]
  BY <1>3, <1>4 DEF Create
<1>7. ~inGame[s] /\ stage[s] = "lobby"
  BY DEF CreateCharacter, GameInv, InGameHasCharacter
<1>8. UNCHANGED <<stage, asked, seen, inGame, connections>>
  BY <1>1 DEF CreateCharacter, CSCreateCharacter
<1>9. \A f \in Created : f \in Created' /\ (f \in Bare' <=> f \in Bare)
                         /\ (f \in Spawned' <=> f \in Spawned)
  BY <1>5 DEF Created, Bare, Spawned
<1>10. \A t \in Sessions \ {s} :
          character[t] \in Created =>
             ObjectOf(t)' = ObjectOf(t) /\ PositionOf(t)' = PositionOf(t)
  BY <1>5, <1>6 DEF ObjectOf, PositionOf
<1>11. \A t \in Sessions : inGame[t] => t # s /\ character[t] \in Created
  BY <1>7 DEF GameInv, InGameHasCharacter, Spawned
<1>12. GameTypeOK'
  <2>1. made' \in [Sessions -> SUBSET Nat]
    BY <1>4 DEF CreateCharacter, GameInv, GameTypeOK
  <2> QED
    BY <1>2, <1>8, <2>1 DEF GameTypeOK, GameInv, ServerInv
<1>13. ClientStages'
  BY <1>6, <1>7, <1>8, <1>9, <1>10, <1>11 DEF GameInv, ClientStages
<1>14. InGameHasCharacter'
  BY <1>6, <1>8, <1>9, <1>11 DEF GameInv, InGameHasCharacter
<1>15. ViewsAgree'
  BY <1>8, <1>10, <1>11 DEF GameInv, ViewsAgree
<1>16. MovementsShown'
  <2>1. \A t \in Sessions : Still(sent'[t])
    BY <1>1, PlainStill, ToOnlyStill DEF CSCreateCharacter
  <2> QED
    BY <2>1 DEF MovementsShown, Still
<1> QED
  BY <1>2, <1>12, <1>13, <1>14, <1>15, <1>16 DEF GameInv

\* What the object id of an entity says, in a consistent world.
LEMMA ObjectIds ==
    ASSUME ServerInv
    PROVE  /\ \A e \in Created : /\ e \in Handles
                                 /\ registry[e] \in Components
                                 /\ registry[e].objectId \in ObjIds
                                 /\ registry[e].position \in Positions
                                 /\ registry[e].position # Unseen
           /\ \A e, f \in Created :
                 registry[e].objectId = registry[f].objectId => e = f
           /\ \A t \in Sessions : seen[t] \in [ObjIds -> Positions \cup {Unseen}]
           /\ \A t, u \in Sessions :
                 t # u /\ character[t] # NullEntity => character[t] # character[u]
           /\ NullEntity \notin Created
<1>1. \A e \in Created : e \in Handles /\ registry[e] \in Components
  BY DEF Created, ServerInv, TypeOK
<1>2. \A e \in Created : /\ registry[e].objectId \in ObjIds
                         /\ registry[e].position \in Positions
                         /\ registry[e].position # Unseen
  BY <1>1, ConstantsOK DEF Components
<1>3. \A e, f \in Created :
         registry[e].objectId = registry[f].objectId => e = f
  BY DEF ServerInv, ObjectsResolve
<1>4. \A t \in Sessions : seen[t] \in [ObjIds -> Positions \cup {Unseen}]
  BY DEF ServerInv, TypeOK
<1>5. \A t, u \in Sessions :
         t # u /\ character[t] # NullEntity => character[t] # character[u]
  BY DEF ServerInv, Holding
<1> QED
  BY <1>1, <1>2, <1>3, <1>4, <1>5, ConstantsOK DEF Created

LEMMA SpawnStep ==
    ASSUME GameInv, NEW s \in Sessions, SpawnCharacter(s)
    PROVE  GameInv'
<1> DEFINE me == character[s]
           kinds == IF me = NullEntity THEN {"NullEntity"}
                    ELSE IF registry[me].visual THEN {"VisualTwice"} ELSE {}
<1>1. ServerInv /\ ServerInv'
  BY SpawnKeepsInv DEF SpawnCharacter, GameInv
<1>2. /\ stage \in [Sessions -> Stages]
      /\ stage[s] = "selected" /\ ~inGame[s]
      /\ me \in Created /\ me \in Handles /\ registry[me] \in Components
  BY <1>1, ObjectIds
     DEF SpawnCharacter, GameInv, GameTypeOK, ClientStages, InGameHasCharacter
<1>3. GameTypeOK'
  BY <1>1, <1>2 DEF SpawnCharacter, GameTypeOK, GameInv, ServerInv, Stages
<1>4. CASE Aborts(kinds)
  <2>1. Quiet(s)
    <3>1. OnlyAnswers
      BY <1>1, <1>4, AbortsOnlyAnswers DEF FaultKinds, ServerInv
    <3> QED
      BY <1>2, <1>4, <3>1 DEF Quiet, Aborts, SpawnCharacter, Still, GameInv, GameTypeOK
  <2> QED
    BY <2>1, QuietKeepsInv
<1>5. CASE /\ GoesOn(kinds)
           /\ registry' = [registry EXCEPT ![me].visual = TRUE]
           /\ seen' = [seen EXCEPT ![s] = Show(@, {me})]
           /\ sent' = ToOnly(s, {UnitState(registry[me].objectId)})
           /\ UNCHANGED <<connections, sessionVars, objects, nextObjectId,
                          nextCharacterId>>
  <2>1. registry \in [Handles -> Components \cup {NullEntity}]
    BY <1>1 DEF ServerInv, TypeOK
  <2>2. \A f \in Handles \ {me} : registry'[f] = registry[f]
    BY <1>5, <2>1
  <2>3. registry'[me] = [registry[me] EXCEPT !.visual = TRUE]
    BY <1>2, <1>5, <2>1
  <2>4. /\ registry'[me].objectId = registry[me].objectId
        /\ registry'[me].visual
    BY <1>2, <2>3 DEF Components
  <2>5. NullEntity \notin Components /\ NullEntity \notin Handles
    BY ConstantsOK
  <2>6. me \in Created' \ Bare'
    <3>1. registry'[me] \in Components
      BY <1>2, <2>3 DEF Components
    <3> QED
      BY <1>2, <2>4, <2>5, <3>1 DEF Created, Bare
  <2>7. \A f \in Created \ {me} : /\ f \in Created'
                                  /\ f \in Bare' <=> f \in Bare
                                  /\ f \in Spawned' <=> f \in Spawned
    BY <2>2 DEF Created, Bare, Spawned
  <2>8. \A t \in Sessions \ {s} :
           character[t] \in Created =>
              /\ character[t] # me
              /\ ObjectOf(t)' = ObjectOf(t) /\ PositionOf(t)' = PositionOf(t)
    BY <1>1, <1>2, <1>5, <2>2, <2>5, ObjectIds DEF ObjectOf, PositionOf, sessionVars
  <2>9. /\ \A t \in Sessions \ {s} : seen'[t] = seen[t]
        /\ seen'[s] = Show(seen[s], {me})
    BY <1>1, <1>5 DEF ServerInv, TypeOK
  <2>10. seen'[s][ObjectOf(s)'] # Unseen
    <3>1. seen'[s][registry[me].objectId] = registry[me].position
      <4>1. {me} \in SUBSET Created /\ me \in {me}
        BY <1>2
      <4>2. seen[s] \in [ObjIds -> Positions \cup {Unseen}]
        BY <1>1, ObjectIds
      <4> QED
        BY <1>1, <2>9, <4>1, <4>2, ShowShows DEF ServerInv
    <3>2. ObjectOf(s)' = registry[me].objectId
      BY <1>5, <2>4 DEF ObjectOf, sessionVars
    <3> QED
      BY <1>1, <1>2, <3>1, <3>2, ObjectIds
  <2>11. /\ \A t \in Sessions \ {s} : stage'[t] = stage[t]
         /\ stage'[s] = "spawned"
         /\ UNCHANGED <<connections, inGame, character>>
    BY <1>2, <1>5 DEF SpawnCharacter, GoesOn, sessionVars
  <2>12. ClientStages'
    <3>1. s \in connections
      BY <1>2 DEF GameInv, ClientStages
    <3>2. \A t \in Sessions \ {s} :
             stage[t] = "spawned" \/ inGame[t] => character[t] \in Created
      BY DEF GameInv, ClientStages, InGameHasCharacter, Spawned
    <3> QED
      BY <1>2, <2>6, <2>7, <2>8, <2>9, <2>10, <2>11, <3>1, <3>2
         DEF GameInv, ClientStages
  <2>13. \A t \in Sessions : inGame[t] => t # s /\ character[t] \in Created
    BY <1>2 DEF GameInv, InGameHasCharacter, Spawned
  <2>14. InGameHasCharacter'
    BY <2>7, <2>8, <2>11, <2>13 DEF GameInv, InGameHasCharacter
  <2>15. ViewsAgree'
    BY <2>8, <2>9, <2>11, <2>13 DEF GameInv, ViewsAgree
  <2>16. MovementsShown'
    <3>1. \A t \in Sessions : Still(sent'[t])
      BY <1>5 DEF ToOnly, Still, UnitState, Movement, Packet
    <3> QED
      BY <3>1 DEF MovementsShown, Still
  <2> QED
    BY <1>1, <1>3, <2>12, <2>14, <2>15, <2>16 DEF GameInv
<1> QED
  BY <1>4, <1>5 DEF SpawnCharacter, CSSpawnCharacter

\* The newcomer sees everyone, everyone sees the newcomer, and what they see of
\* each other is as it was.
LEMMA NotifyStep ==
    ASSUME GameInv, NEW s \in Sessions, NotifyInGame(s)
    PROVE  GameInv'
<1> DEFINE me == character[s]
           others == Created \ {me}
           watchers == Audience({s})
           kinds == (IF me = NullEntity THEN {"NullEntity"} ELSE {})
                    \cup (IF Bare # {} THEN {"NoVisualOptions"} ELSE {})
                    \cup (IF me \in Spawned THEN {"VelocityTwice"} ELSE {})
           enters ==
              /\ me # NullEntity
              /\ GoesOn(kinds)
              /\ registry' = WithVelocity(me)
              /\ inGame' = [inGame EXCEPT ![s] = TRUE]
              /\ seen' = [t \in Sessions |->
                             IF t = s THEN Show(seen[t], others)
                             ELSE IF t \in watchers THEN Show(seen[t], {me})
                             ELSE seen[t]]
              /\ sent' = [t \in Sessions |->
                             IF t = s THEN {UnitState(registry[e].objectId) : e \in others}
                             ELSE IF t \in watchers THEN {UnitState(registry[me].objectId)}
                             ELSE {}]
              /\ UNCHANGED <<connections, character, characterIds, objects,
                             nextObjectId, nextCharacterId>>
<1>1. ServerInv /\ ServerInv'
  BY NotifyKeepsInv DEF NotifyInGame, GameInv
<1>2. /\ stage \in [Sessions -> Stages]
      /\ stage[s] = "spawned" /\ ~inGame[s]
      /\ s \in connections
      /\ me \in Created \ Bare /\ me \in Handles /\ registry[me] \in Components
      /\ seen[s][registry[me].objectId] # Unseen
  BY <1>1, ObjectIds
     DEF NotifyInGame, GameInv, GameTypeOK, ClientStages, InGameHasCharacter, ObjectOf
<1>3. GameTypeOK'
  BY <1>1, <1>2 DEF NotifyInGame, GameTypeOK, GameInv, ServerInv, Stages
<1>4. CASE Aborts(kinds)
  <2>1. Quiet(s)
    <3>1. OnlyAnswers
      BY <1>1, <1>4, AbortsOnlyAnswers DEF FaultKinds, ServerInv
    <3> QED
      BY <1>2, <1>4, <3>1 DEF Quiet, Aborts, NotifyInGame, Still, GameInv, GameTypeOK
  <2> QED
    BY <2>1, QuietKeepsInv
<1>5. CASE enters
  <2>1. registry \in [Handles -> Components \cup {NullEntity}]
    BY <1>1 DEF ServerInv, TypeOK
  <2>2. \A f \in Handles \ {me} : registry'[f] = registry[f]
    BY <1>5, <2>1 DEF WithVelocity
  <2>3. registry'[me] = [registry[me] EXCEPT !.velocity = TRUE]
    BY <1>2, <1>5, <2>1 DEF WithVelocity
  <2>4. /\ registry'[me].objectId = registry[me].objectId
        /\ registry'[me].position = registry[me].position
        /\ registry'[me].visual = registry[me].visual
        /\ registry'[me].velocity
        /\ registry'[me] \in Components
    BY <1>2, <2>3 DEF Components
  <2>5. NullEntity \notin Components /\ NullEntity \notin Handles
    BY ConstantsOK
  <2>6. me \in Spawned' \ Bare'
    BY <1>2, <2>4, <2>5 DEF Created, Spawned, Bare
  <2>7. \A f \in Created \ {me} : /\ f \in Created'
                                  /\ f \in Bare' <=> f \in Bare
                                  /\ f \in Spawned' <=> f \in Spawned
    BY <2>2 DEF Created, Bare, Spawned
  <2>8. \A t \in Sessions : ObjectOf(t)' = ObjectOf(t) /\ PositionOf(t)' = PositionOf(t)
    <3>1. \A t \in Sessions : character'[t] = character[t]
      BY <1>5
    <3>2. \A t \in Sessions : character[t] \in Handles \/ character[t] = NullEntity
      BY <1>1 DEF ServerInv, TypeOK
    <3>3. NullEntity \notin DOMAIN registry /\ registry'[NullEntity] = registry[NullEntity]
      BY <1>2, <1>5, <2>1, <2>5 DEF WithVelocity
    <3> QED
      BY <2>2, <2>4, <3>1, <3>2, <3>3 DEF ObjectOf, PositionOf
  <2>9. \A t \in Sessions : inGame[t] => t # s /\ character[t] \in Created \ {me}
    BY <1>1, <1>2, <2>5, ObjectIds DEF GameInv, InGameHasCharacter, Spawned
  <2>10. \A t \in Sessions : inGame[t] => t \in watchers
    BY <2>9 DEF GameInv, InGameHasCharacter, Audience, Nearby
  <2>11. /\ seen'[s] = Show(seen[s], others)
         /\ \A t \in Sessions : inGame[t] => seen'[t] = Show(seen[t], {me})
         /\ \A t \in Sessions \ {s} : ~inGame[t] => seen'[t] = seen[t]
    BY <1>2, <1>5, <2>9, <2>10 DEF Audience
  <2>12. {me} \in SUBSET Created /\ me \in {me} /\ others \in SUBSET Created
    BY <1>2
  <2>13. \A t \in Sessions, o \in ObjIds : seen[t][o] # Unseen => seen'[t][o] # Unseen
    BY <1>1, <2>11, <2>12, ObjectIds, ShowKeeps DEF ServerInv
  <2>14. /\ \A t \in Sessions \ {s} : stage'[t] = stage[t]
         /\ stage'[s] = "playing"
         /\ inGame'[s] /\ \A t \in Sessions \ {s} : inGame'[t] = inGame[t]
         /\ UNCHANGED <<connections, character>>
    BY <1>1, <1>2, <1>5 DEF NotifyInGame, GoesOn, ServerInv, TypeOK
  <2>15. \A t \in Sessions : character[t] \in Created => ObjectOf(t) \in ObjIds
    BY <1>1, ObjectIds DEF ObjectOf
  <2>16. \A t \in Sessions \ {s} :
            character[t] \in Created => character[t] \in Created \ {me}
    BY <1>1, <2>5, ObjectIds
  <2>17. ClientStages'
    <3>1. \A t \in Sessions : stage[t] = "spawned" => character[t] \in Created
      BY DEF GameInv, ClientStages
    <3>2. ASSUME NEW t \in Sessions, stage'[t] = "spawned" \/ inGame'[t]
          PROVE  seen'[t][ObjectOf(t)'] # Unseen
      <4>1. (stage[t] = "spawned" \/ inGame[t]) /\ character[t] \in Created
        BY <1>2, <2>9, <2>14, <3>1, <3>2
      <4> QED
        BY <2>8, <2>13, <2>15, <4>1 DEF GameInv, ClientStages
    <3> QED
      BY <1>2, <2>6, <2>7, <2>14, <2>16, <3>2 DEF GameInv, ClientStages
  <2>18. InGameHasCharacter'
    BY <1>2, <2>6, <2>7, <2>9, <2>14 DEF GameInv, InGameHasCharacter
  <2>19. ViewsAgree'
    <3>1. ASSUME NEW t \in Sessions, NEW u \in Sessions, t # u, inGame'[t], inGame'[u]
          PROVE  seen'[t][ObjectOf(u)] = PositionOf(u)
      <4>1. CASE t = s
        <5>1. character[u] \in others
          BY <2>9, <2>14, <3>1, <4>1
        <5> QED
          BY <1>1, <2>11, <2>12, <4>1, <5>1, ObjectIds, ShowShows
             DEF ServerInv, ObjectOf, PositionOf
      <4>2. CASE u = s
        <5>1. inGame[t]
          BY <2>14, <3>1, <4>2
        <5> QED
          BY <1>1, <2>11, <2>12, <4>2, <5>1, ObjectIds, ShowShows
             DEF ServerInv, ObjectOf, PositionOf
      <4>3. CASE t # s /\ u # s
        <5>1. inGame[t] /\ inGame[u]
          BY <2>14, <3>1, <4>3
        <5>2. seen[t][ObjectOf(u)] = PositionOf(u)
          BY <3>1, <5>1 DEF GameInv, ViewsAgree
        <5>3. ObjectOf(u) \in ObjIds /\ registry[me].objectId # ObjectOf(u)
          BY <1>1, <1>2, <2>9, <2>15, <5>1, ObjectIds DEF ObjectOf
        <5>4. Show(seen[t], {me})[ObjectOf(u)] = seen[t][ObjectOf(u)]
          BY <1>1, <2>12, <5>3, ObjectIds, ShowType DEF ServerInv
        <5> QED
          BY <2>11, <5>1, <5>2, <5>4
      <4> QED
        BY <4>1, <4>2, <4>3
    <3> QED
      BY <2>8, <3>1 DEF ViewsAgree
  <2>20. MovementsShown'
    <3>1. \A t \in Sessions : Still(sent'[t])
      BY <1>5 DEF Still, UnitState, Movement, Packet
    <3> QED
      BY <3>1 DEF MovementsShown, Still
  <2> QED
    BY <1>1, <1>3, <2>17, <2>18, <2>19, <2>20 DEF GameInv
<1> QED
  BY <1>4, <1>5 DEF NotifyInGame, CSNotifyInGame

\* A player moves its own object: the registry and every other player agree on
\* where to, because every player in the game was shown that object before.
LEMMA MoveEffect ==
    ASSUME GameInv, NEW s \in Sessions, MoveUnit(s)
    PROVE  /\ inGame[s] /\ character[s] \in Spawned \ Bare
           /\ UNCHANGED <<stage, asked, made, inGame, connections, character>>
           /\ Created' = Created /\ Bare' = Bare /\ Spawned' = Spawned
           /\ \A t \in Sessions : ObjectOf(t)' = ObjectOf(t)
           /\ \A t \in Sessions : inGame[t] => seen[t][ObjectOf(s)] # Unseen
           /\ \A t \in Sessions, q \in ObjIds :
                 /\ seen[t][q] # Unseen => seen'[t][q] # Unseen
                 /\ q # ObjectOf(s) => seen'[t][q] = seen[t][q]
                 /\ Movement(q) \in sent'[t] => seen[t][q] # Unseen
           /\ \A t \in Sessions :
                 inGame[t] /\ t # s => PositionOf(t)' = PositionOf(t)
           /\ \/ UNCHANGED <<seen, registry>>
              \/ \E p \in Positions :
                    /\ PositionOf(s)' = p
                    /\ \A t \in Sessions : inGame[t] => seen'[t][ObjectOf(s)] = p
<1> DEFINE me == character[s]
           o == ObjectOf(s)
<1>1. PICK unit \in BOOLEAN, p \in Positions : CSMoveUnit(s, o, unit, p)
  BY DEF MoveUnit, ObjectOf
<1>2. /\ inGame[s] /\ me \in Spawned \ Bare /\ me \in Created
      /\ UNCHANGED <<stage, asked, made, inGame, connections, character>>
  BY <1>1 DEF MoveUnit, clientVars, CSMoveUnit, sessionVars,
              GameInv, ClientStages, InGameHasCharacter, Spawned
<1>3. me \in Handles /\ o \in ObjIds /\ objects[o] = me /\ registry[me] \in Components
  BY <1>2, ObjectIds DEF GameInv, ServerInv, ObjectsResolve, ObjectOf
<1>4. /\ registry' = IF unit THEN [registry EXCEPT ![me].position = p] ELSE registry
      /\ registry \in [Handles -> Components \cup {NullEntity}]
  BY <1>1, <1>2, <1>3 DEF CSMoveUnit, HandleUnitMovement, GameInv, ServerInv, TypeOK
<1>5. \A f \in Handles \ {me} : registry'[f] = registry[f]
  BY <1>4
<1>6. unit => registry'[me] = [registry[me] EXCEPT !.position = p]
  BY <1>3, <1>4
<1>7. /\ registry'[me].objectId = registry[me].objectId
      /\ registry'[me].visual = registry[me].visual
      /\ registry'[me].velocity = registry[me].velocity
      /\ registry'[me] \in Components
      /\ unit => registry'[me].position = p
  BY <1>3, <1>4, <1>6 DEF Components
<1>8. NullEntity \notin Components /\ NullEntity \notin Handles /\ p # Unseen
  BY ConstantsOK
<1>9. Created' = Created
  BY <1>2, <1>5, <1>7, <1>8 DEF Created
<1>10. Bare' = Bare /\ Spawned' = Spawned
  <2>1. \A f \in Created : f \in Handles
    BY DEF Created
  <2> QED
    BY <1>5, <1>7, <1>9, <2>1 DEF Bare, Spawned
<1>11. \A t \in Sessions : ObjectOf(t)' = ObjectOf(t)
  <2>1. \A t \in Sessions : character[t] \in Handles \/ character[t] = NullEntity
    BY DEF GameInv, ServerInv, TypeOK
  <2>2. registry'[NullEntity] = registry[NullEntity]
    BY <1>2, <1>3, <1>4, <1>8
  <2> QED
    BY <1>2, <1>5, <1>7, <2>1, <2>2 DEF ObjectOf
<1>12. \A t \in Sessions : inGame[t] /\ t # s => PositionOf(t)' = PositionOf(t)
  BY <1>2, <1>5, ObjectIds DEF PositionOf, GameInv, InGameHasCharacter, Spawned
<1>13. \A t \in Sessions : inGame[t] => t \in Audience({}) /\ seen[t][o] # Unseen
  <2>1. registry[me].position # Unseen
    BY <1>2, ObjectIds DEF GameInv
  <2>2. \A t \in Sessions : inGame[t] => seen[t][o] # Unseen
    BY <1>2, <2>1 DEF GameInv, ClientStages, ViewsAgree, PositionOf
  <2> QED
    BY <2>2 DEF GameInv, InGameHasCharacter, Audience, Nearby
<1>14. \A t \in Sessions : t \in Audience({}) => inGame[t]
  BY DEF Audience
<1>15. \A t \in Sessions :
          seen'[t] = IF unit /\ inGame[t] THEN [seen[t] EXCEPT ![o] = p] ELSE seen[t]
  BY <1>1, <1>13, <1>14 DEF CSMoveUnit
<1>16. \A t \in Sessions : seen[t] \in [ObjIds -> Positions \cup {Unseen}]
  BY ObjectIds DEF GameInv
<1>17. ASSUME NEW t \in Sessions, NEW q \in ObjIds
       PROVE  /\ seen[t][q] # Unseen => seen'[t][q] # Unseen
              /\ q # o => seen'[t][q] = seen[t][q]
              /\ Movement(q) \in sent'[t] => seen[t][q] # Unseen
  <2>1. sent'[t] = IF inGame[t] THEN {Movement(o)} ELSE {}
    BY <1>1, <1>13, <1>14 DEF CSMoveUnit
  <2>2. Movement(q) = Movement(o) => q = o
    BY DEF Movement, Packet
  <2> QED
    BY <1>8, <1>13, <1>15, <1>16, <2>1, <2>2
<1>18. \/ UNCHANGED <<seen, registry>>
       \/ \E r \in Positions :
             /\ PositionOf(s)' = r
             /\ \A t \in Sessions : inGame[t] => seen'[t][o] = r
  <2>1. CASE unit
    <3>1. PositionOf(s)' = p
      BY <1>2, <1>7, <2>1 DEF PositionOf
    <3>2. \A t \in Sessions : inGame[t] => seen'[t][o] = p
      BY <1>3, <1>15, <1>16, <2>1
    <3> QED
      BY <3>1, <3>2
  <2>2. CASE ~unit
    BY <1>1, <1>4, <1>16, <2>2 DEF CSMoveUnit, GameInv, ServerInv, TypeOK
  <2> QED
    BY <2>1, <2>2
<1> QED
  BY <1>2, <1>9, <1>10, <1>11, <1>12, <1>13, <1>17, <1>18

LEMMA MoveStep ==
    ASSUME GameInv, NEW s \in Sessions, MoveUnit(s)
    PROVE  GameInv'
<1> USE MoveEffect
<1>1. ServerInv'
  <2>1. registry[character[s]].objectId \in ObjIds
    BY ObjectIds DEF GameInv, Spawned
  <2> QED
    BY <2>1, MoveKeepsInv DEF MoveUnit, GameInv
<1>2. GameTypeOK'
  BY <1>1 DEF GameTypeOK, GameInv, ServerInv
<1>3. \A t \in Sessions : character[t] \in Created => ObjectOf(t) \in ObjIds
  BY ObjectIds DEF GameInv, ObjectOf
<1>4. \A t \in Sessions : inGame[t] => character[t] \in Created
  BY DEF GameInv, InGameHasCharacter, Spawned
<1>5. ClientStages'
  BY <1>3, <1>4 DEF GameInv, ClientStages
<1>6. InGameHasCharacter'
  BY DEF GameInv, InGameHasCharacter
<1>7. ViewsAgree'
  <2>1. ASSUME NEW t \in Sessions, NEW u \in Sessions, t # u, inGame[t], inGame[u]
        PROVE  seen'[t][ObjectOf(u)] = PositionOf(u)'
    <3>1. seen[t][ObjectOf(u)] = PositionOf(u)
      BY <2>1 DEF GameInv, ViewsAgree
    <3>2. CASE u = s
      BY <2>1, <3>1, <3>2 DEF PositionOf
    <3>3. CASE u # s
      <4>1. ObjectOf(u) \in ObjIds /\ ObjectOf(u) # ObjectOf(s)
        BY <1>3, <1>4, <2>1, <3>3, ObjectIds DEF ObjectOf, GameInv
      <4> QED
        BY <2>1, <3>1, <3>3, <4>1
    <3> QED
      BY <3>2, <3>3
  <2> QED
    BY <2>1 DEF ViewsAgree
<1>8. MovementsShown'
  BY DEF MovementsShown
<1> QED
  BY <1>1, <1>2, <1>5, <1>6, <1>7, <1>8 DEF GameInv

LEMMA GameInvNext ==
    ASSUME GameInv, [GameNext]_gameVars
    PROVE  GameInv'
<1>1. CASE UNCHANGED gameVars
  <2>1. ServerInv'
    <3>1. UNCHANGED vars
      BY <1>1 DEF gameVars
    <3> QED
      BY <3>1, ServerInvNext DEF GameInv
  <2> QED
    BY <1>1, <2>1
       DEF gameVars, vars, clientVars, sessionVars, worldVars, GameInv, GameTypeOK,
           ServerInv, ClientStages, InGameHasCharacter, ViewsAgree, MovementsShown,
           ObjectOf, PositionOf, Created, Bare, Spawned
<1>2. CASE GameNext
  <2>1. PICK s \in Sessions :
           \/ Connect(s) \/ EnterWorld(s) \/ FinishState(s) \/ ListCharacter(s)
           \/ RefusedName(s) \/ SelectCharacter(s) \/ Chatter(s) \/ Vanish(s)
           \/ CreateCharacter(s)
           \/ SpawnCharacter(s)
           \/ NotifyInGame(s)
           \/ MoveUnit(s)
    BY <1>2 DEF GameNext
  <2> QED
    BY <2>1, QuietSteps, QuietKeepsInv, CreateStep, SpawnStep, NotifyStep, MoveStep
<1> QED
  BY <1>1, <1>2

-----------------------------------------------------------------------------
(* The theorems. *)

\* The inductive invariant holds of any number of clients and characters.
THEOREM GameInvariant == GameSpec => []GameInv
<1>1. GameInv /\ [GameNext]_gameVars => GameInv'
  BY GameInvNext
<1> QED
  BY <1>1, GameInvInit, PTL DEF GameSpec

\* The server's and the clients' states keep their types (WorldSession.h).
THEOREM GameTypes == GameSpec => []GameTypeOK
<1>1. GameInv => GameTypeOK
  BY DEF GameInv
<1> QED
  BY <1>1, GameInvariant, PTL

\* A session in game has a spawned character of its own (CSNotifyInGame).
THEOREM GameInGameHasCharacter == GameSpec => []InGameHasCharacter
<1>1. GameInv => InGameHasCharacter
  BY DEF GameInv
<1> QED
  BY <1>1, GameInvariant, PTL

\* Any number of players see each other where they are: the two loops of
\* CSNotifyInGame and the two steps of CSMoveUnit never leave a gap.
THEOREM GameViewsAgree == GameSpec => []ViewsAgree
<1>1. GameInv => ViewsAgree
  BY DEF GameInv
<1> QED
  BY <1>1, GameInvariant, PTL

\* No player is told of a movement of an object it was not shown before
\* (CSMoveUnit against SCUnitStatePacket).
THEOREM GameMovementAfterState == GameSpec => MovementAfterState
<1>1. ASSUME GameInv, [GameNext]_gameVars
      PROVE  [\A s \in Sessions, o \in ObjIds :
                Movement(o) \in sent'[s] => seen[s][o] # Unseen]_gameVars
  <2>1. CASE UNCHANGED gameVars
    BY <2>1
  <2>2. ASSUME NEW s \in Sessions, Quiet(s)
        PROVE  \A t \in Sessions, o \in ObjIds :
                  Movement(o) \in sent'[t] => seen[t][o] # Unseen
    BY <1>1, <2>2 DEF Quiet, Still, GameInv, MovementsShown
  <2>3. ASSUME NEW s \in Sessions, MoveUnit(s)
        PROVE  \A t \in Sessions, o \in ObjIds :
                  Movement(o) \in sent'[t] => seen[t][o] # Unseen
    BY <1>1, <2>3, MoveEffect
  <2>4. ASSUME NEW s \in Sessions,
               CreateCharacter(s) \/ SpawnCharacter(s) \/ NotifyInGame(s)
        PROVE  \A t \in Sessions : Still(sent'[t])
    <3>1. CASE CreateCharacter(s)
      BY <3>1, PlainStill, ToOnlyStill DEF CreateCharacter, CSCreateCharacter
    <3>2. CASE SpawnCharacter(s)
      BY <3>2 DEF SpawnCharacter, CSSpawnCharacter, Aborts, ToOnly, Still,
                  UnitState, Movement, Packet
    <3>3. CASE NotifyInGame(s)
      BY <3>3 DEF NotifyInGame, CSNotifyInGame, Aborts, Still, UnitState,
                  Movement, Packet
    <3> QED
      BY <2>4, <3>1, <3>2, <3>3
  <2>5. CASE GameNext
    BY <1>1, <2>2, <2>3, <2>4, <2>5, QuietSteps DEF GameNext, Still
  <2> QED
    BY <1>1, <2>1, <2>5
<1> QED
  BY <1>1, GameInvariant, PTL DEF GameSpec, MovementAfterState

-----------------------------------------------------------------------------
(* The game implements the shared world. *)

placeBar == [s \in Sessions |-> IF inGame[s] THEN PositionOf(s) ELSE Unseen]
viewBar == [s \in Sessions |-> [t \in Sessions |->
               IF s # t /\ inGame[s] /\ inGame[t]
               THEN seen[s][ObjectOf(t)] ELSE Unseen]]

\* What players see of each other is a function of where they are.
LEMMA ViewIsCommon == GameInv => viewBar = Shared!Common(placeBar)
<1> SUFFICES ASSUME GameInv PROVE viewBar = Shared!Common(placeBar)
  OBVIOUS
<1>1. \A s \in Sessions : inGame[s] => PositionOf(s) # Unseen
  BY ObjectIds DEF GameInv, InGameHasCharacter, Spawned, PositionOf
<1> QED
  BY <1>1 DEF GameInv, ViewsAgree, Shared!Common, placeBar, viewBar

\* Every step of the game is a step of the shared world or changes no place.
LEMMA PlaceStep ==
    ASSUME GameInv, GameInv', GameNext
    PROVE  \/ placeBar' = placeBar
           \/ \E s \in Sessions, p \in Positions :
                 placeBar' = [placeBar EXCEPT ![s] = p]
<1>1. ASSUME NEW s \in Sessions, Quiet(s)
      PROVE  placeBar' = placeBar
  BY <1>1 DEF Quiet, OnlyAnswers, sessionVars, worldVars, placeBar, PositionOf
<1>2. /\ placeBar = [t \in Sessions |-> IF inGame[t] THEN PositionOf(t) ELSE Unseen]
      /\ placeBar' = [t \in Sessions |-> IF inGame'[t] THEN PositionOf(t)' ELSE Unseen]
  BY DEF placeBar
<1>3. \A t \in Sessions : inGame[t] => character[t] \in Created
  BY DEF GameInv, InGameHasCharacter, Spawned
<1>4. /\ registry \in [Handles -> Components \cup {NullEntity}]
      /\ character \in [Sessions -> Handles \cup {NullEntity}]
      /\ inGame \in [Sessions -> BOOLEAN]
  BY DEF GameInv, ServerInv, TypeOK
<1>5. ASSUME NEW s \in Sessions, CreateCharacter(s)
      PROVE  placeBar' = placeBar
  <2>1. PICK template \in Templates : CSCreateCharacter(s, template)
    BY <1>5 DEF CreateCharacter
  <2>2. PICK e \in Handles \ Created : Create(s, e, template)
    BY <2>1 DEF CSCreateCharacter
  <2>3. ~inGame[s] /\ inGame' = inGame
    BY <1>5, <2>1 DEF CreateCharacter, CSCreateCharacter, GameInv, InGameHasCharacter
  <2>4. \A t \in Sessions : inGame[t] => PositionOf(t)' = PositionOf(t)
    BY <1>3, <1>4, <2>2, <2>3 DEF Create, Created, PositionOf
  <2> QED
    BY <1>2, <2>3, <2>4
<1>6. ASSUME NEW s \in Sessions, SpawnCharacter(s)
      PROVE  placeBar' = placeBar
  <2> DEFINE me == character[s]
  <2>1. /\ inGame' = inGame /\ character' = character
        /\ registry' = registry \/ registry' = [registry EXCEPT ![me].visual = TRUE]
    BY <1>6 DEF SpawnCharacter, CSSpawnCharacter, Aborts, sessionVars, worldVars
  <2>2. me \in Created /\ me \in Handles /\ registry[me] \in Components
    BY <1>6, ObjectIds DEF SpawnCharacter, GameInv, ClientStages
  <2>3. registry'[me].position = registry[me].position
    BY <1>4, <2>1, <2>2 DEF Components
  <2>4. \A f \in Created : registry'[f].position = registry[f].position
    BY <1>4, <2>1, <2>3 DEF Created
  <2> QED
    BY <1>2, <1>3, <2>1, <2>4 DEF PositionOf
<1>7. ASSUME NEW s \in Sessions, NotifyInGame(s)
      PROVE  \/ placeBar' = placeBar
             \/ \E p \in Positions : placeBar' = [placeBar EXCEPT ![s] = p]
  <2> DEFINE me == character[s]
  <2>1. CASE UNCHANGED <<inGame, character, registry>>
    BY <1>2, <2>1 DEF PositionOf
  <2>2. CASE /\ inGame' = [inGame EXCEPT ![s] = TRUE]
             /\ character' = character
             /\ registry' = [registry EXCEPT ![me].velocity = TRUE]
    <3>1. me \in Created /\ me \in Handles /\ registry[me] \in Components
      BY <1>7, ObjectIds DEF NotifyInGame, GameInv, ClientStages
    <3>2. registry'[me].position = registry[me].position
      BY <1>4, <2>2, <3>1 DEF Components
    <3>3. \A f \in Created : registry'[f].position = registry[f].position
      BY <1>4, <2>2, <3>2 DEF Created
    <3>4. /\ \A t \in Sessions : inGame[t] => PositionOf(t)' = PositionOf(t)
          /\ PositionOf(s)' = registry[me].position
          /\ registry[me].position \in Positions
      BY <1>3, <2>2, <3>1, <3>3, ObjectIds DEF PositionOf, GameInv
    <3>5. placeBar' = [placeBar EXCEPT ![s] = registry[me].position]
      BY <1>2, <1>4, <2>2, <3>4
    <3> QED
      BY <3>4, <3>5
  <2> QED
    BY <1>7, <2>1, <2>2
       DEF NotifyInGame, CSNotifyInGame, Aborts, WithVelocity, sessionVars, worldVars
<1>8. ASSUME NEW s \in Sessions, MoveUnit(s)
      PROVE  \/ placeBar' = placeBar
             \/ \E p \in Positions : placeBar' = [placeBar EXCEPT ![s] = p]
  <2>1. CASE UNCHANGED <<seen, registry>>
    BY <1>2, <1>8, <2>1, MoveEffect DEF PositionOf
  <2>2. CASE \E p \in Positions : PositionOf(s)' = p
    <3>1. PositionOf(s)' \in Positions
      BY <2>2
    <3>2. inGame[s] /\ inGame' = inGame
          /\ \A t \in Sessions : inGame[t] /\ t # s => PositionOf(t)' = PositionOf(t)
      BY <1>8, MoveEffect
    <3>3. placeBar' = [placeBar EXCEPT ![s] = PositionOf(s)']
      BY <1>2, <3>2
    <3> QED
      BY <3>1, <3>3
  <2> QED
    BY <1>8, <2>1, <2>2, MoveEffect
<1> QED
  BY <1>1, <1>5, <1>6, <1>7, <1>8, QuietSteps DEF GameNext

\* The handlers, interleaved over any number of clients, implement the README's
\* "run around in the world with everyone else": entering and moving look like
\* single steps after which everyone sees everyone.
THEOREM GameImplementsSharedWorld == GameSpec => SharedWorldSpec
<1>1. GameInit => Shared!Init
  <2> SUFFICES ASSUME GameInit PROVE Shared!Init
    OBVIOUS
  <2>1. \A s \in Sessions : ~inGame[s]
    BY DEF GameInit, Init
  <2>2. placeBar = [s \in Sessions |-> Unseen]
    BY <2>1 DEF placeBar
  <2>3. viewBar = Shared!Common(placeBar)
    BY GameInvInit, ViewIsCommon
  <2> QED
    BY <2>2, <2>3 DEF Shared!Init, placeBar, viewBar
<1>2. ASSUME GameInv, GameInv', [GameNext]_gameVars
      PROVE  [Shared!Next]_(Shared!vars)
  <2>1. viewBar = Shared!Common(placeBar) /\ viewBar' = Shared!Common(placeBar)'
    <3>1. (GameInv => viewBar = Shared!Common(placeBar))'
      BY ViewIsCommon, PTL
    <3> QED
      BY <1>2, <3>1, ViewIsCommon
  <2>2. Shared!Common(placeBar)' = Shared!Common(placeBar')
    BY DEF Shared!Common
  <2>3. CASE UNCHANGED gameVars
    BY <2>3 DEF gameVars, vars, clientVars, sessionVars, worldVars, Shared!vars,
                PositionOf, ObjectOf, placeBar, viewBar
  <2>4. CASE placeBar' = placeBar
    <3>1. viewBar' = viewBar
      BY <2>1, <2>2, <2>4
    <3> QED
      BY <2>4, <3>1 DEF Shared!vars, placeBar, viewBar
  <2>5. ASSUME NEW s \in Sessions, NEW p \in Positions,
               placeBar' = [placeBar EXCEPT ![s] = p]
        PROVE  Shared!Next
    <3>1. viewBar' = Shared!Common(placeBar')
      BY <2>1, <2>2
    <3> QED
      BY <2>5, <3>1 DEF Shared!Next, Shared!Enter, Shared!Move, placeBar, viewBar
  <2> QED
    BY <1>2, <2>3, <2>4, <2>5, PlaceStep
<1> QED
  BY <1>1, <1>2, GameInvariant, PTL DEF GameSpec, SharedWorldSpec, Shared!Spec

-----------------------------------------------------------------------------
(* Journey: the three servers. *)

RequestTypes == {"CARequestAuth", "CAListWorld", "CAEnterWorld"}
LoginRequests == [type : RequestTypes, from : Sessions, id : Nat, parses : BOOLEAN]
Errands == {"away", "linked", "authorised", "listed", "asking", "unanswered", "cookie"}

LoginTypes ==
    /\ errand \in [Sessions -> Errands]
    /\ loginId \in [Sessions -> Nat]
    /\ account \in [Sessions -> Nat]
    /\ cookie \in [Sessions -> Nat]
    /\ nIDCounter \in Nat \ {0}
    /\ requests \in Seq(LoginRequests)

\* A client that is linked has an id, which is its own.
IdsApart ==
    \A s \in Sessions :
        /\ loginId[s] < nIDCounter
        /\ loginId[s] = 0 => errand[s] = "away"
        /\ \A t \in Sessions \ {s} : loginId[s] # 0 => loginId[t] # loginId[s]

\* A request under the id its client still has is the one the client waits for,
\* and follows an authorisation if it is a later one.
RequestsCurrent ==
    \A i \in DOMAIN requests :
        LET r == requests[i]
        IN  /\ r.id # 0 /\ r.id < nIDCounter
            /\ r.id = loginId[r.from] =>
                  /\ errand[r.from] = "asking"
                  /\ r.type # "CARequestAuth" => account[r.from] = r.id

\* A client waits for one answer under one id.
OneEach ==
    \A i, j \in DOMAIN requests :
        i # j /\ requests[i].from = requests[j].from => requests[i].id # requests[j].id

\* What an authorised client was told is its own id.
ToldOwnId ==
    \A s \in Sessions :
        /\ errand[s] \in {"authorised", "listed", "cookie"} => account[s] = loginId[s]
        /\ IF errand[s] = "cookie" THEN cookie[s] = loginId[s] ELSE cookie[s] = 0

LoginInv == LoginTypes /\ IdsApart /\ RequestsCurrent /\ OneEach /\ ToldOwnId

\* A queued request is a request of some client.
LEMMA QueuedRequests ==
    ASSUME LoginTypes
    PROVE  \A i \in DOMAIN requests : requests[i].from \in Sessions /\ requests[i].id \in Nat
<1>1. ASSUME NEW i \in DOMAIN requests
      PROVE  requests[i].from \in Sessions /\ requests[i].id \in Nat
  <2>1. requests[i] \in LoginRequests
    BY DEF LoginTypes
  <2> QED
    BY <2>1 DEF LoginRequests
<1> QED
  BY <1>1

LEMMA LoginInvInit == JourneyInit => LoginInv
<1> SUFFICES ASSUME JourneyInit PROVE LoginInv
  OBVIOUS
<1>1. requests \in Seq(LoginRequests) /\ DOMAIN requests = {}
  BY DEF JourneyInit
<1>2. LoginTypes
  BY <1>1 DEF JourneyInit, LoginTypes, Errands, FirstLoginId
<1>3. IdsApart /\ RequestsCurrent /\ OneEach /\ ToldOwnId
  BY <1>1 DEF JourneyInit, IdsApart, RequestsCurrent, OneEach, ToldOwnId, FirstLoginId
<1> QED
  BY <1>2, <1>3 DEF LoginInv

LEMMA DialKeeps ==
    ASSUME LoginInv, NEW s \in Sessions, Dial(s)
    PROVE  LoginInv'
<1> USE DEF LoginInv
<1>1. /\ errand' = [errand EXCEPT ![s] = "linked"]
      /\ loginId' = [loginId EXCEPT ![s] = nIDCounter]
      /\ nIDCounter' = nIDCounter + 1
      /\ UNCHANGED <<requests, account, cookie>>
      /\ errand[s] = "away"
  BY DEF Dial
<1>2. LoginTypes'
  BY <1>1 DEF LoginTypes, Errands
<1>3. IdsApart' /\ ToldOwnId'
  BY <1>1 DEF LoginTypes, Errands, IdsApart, ToldOwnId
<1>4. OneEach'
  BY <1>1 DEF OneEach
<1>5. RequestsCurrent'
  <2> SUFFICES ASSUME NEW i \in DOMAIN requests
               PROVE  LET r == requests[i]
                      IN  /\ r.id # 0 /\ r.id < nIDCounter'
                          /\ r.id = loginId'[r.from] =>
                                /\ errand'[r.from] = "asking"
                                /\ r.type # "CARequestAuth" => account[r.from] = r.id
    BY <1>1 DEF RequestsCurrent
  <2>1. requests[i].from \in Sessions /\ requests[i].id \in Nat
    BY QueuedRequests
  <2>2. requests[i].id # 0 /\ requests[i].id < nIDCounter
    BY DEF RequestsCurrent
  <2>3. requests[i].id < nIDCounter' /\ requests[i].id # nIDCounter
    BY <1>1, <2>1, <2>2 DEF LoginTypes
  <2>4. CASE requests[i].from = s
    BY <1>1, <2>2, <2>3, <2>4 DEF LoginTypes
  <2>5. CASE requests[i].from # s
    BY <1>1, <2>1, <2>2, <2>3, <2>5 DEF LoginTypes, RequestsCurrent
  <2> QED
    BY <2>4, <2>5
<1> QED
  BY <1>2, <1>3, <1>4, <1>5

LEMMA HangUpKeeps ==
    ASSUME LoginInv, NEW s \in Sessions, HangUp(s)
    PROVE  LoginInv'
<1> USE DEF LoginInv
<1>1. /\ errand' = [errand EXCEPT ![s] = "away"]
      /\ loginId' = [loginId EXCEPT ![s] = 0]
      /\ UNCHANGED <<nIDCounter, requests, account, cookie>>
      /\ errand[s] \in {"asking", "unanswered"}
  BY DEF HangUp
<1>2. LoginTypes'
  BY <1>1 DEF LoginTypes, Errands
<1>3. IdsApart' /\ ToldOwnId'
  BY <1>1 DEF LoginTypes, Errands, IdsApart, ToldOwnId
<1>4. OneEach'
  BY <1>1 DEF OneEach
<1>5. RequestsCurrent'
  <2> SUFFICES ASSUME NEW i \in DOMAIN requests,
                      requests[i].id = loginId'[requests[i].from]
               PROVE  /\ errand'[requests[i].from] = "asking"
                      /\ requests[i].type # "CARequestAuth"
                            => account[requests[i].from] = requests[i].id
    BY <1>1 DEF RequestsCurrent
  <2>1. requests[i].from \in Sessions
    BY QueuedRequests
  <2> QED
    BY <1>1, <2>1 DEF LoginTypes, RequestsCurrent
<1> QED
  BY <1>2, <1>3, <1>4, <1>5

LEMMA AskKeeps ==
    ASSUME LoginInv, NEW s \in Sessions, Ask(s)
    PROVE  LoginInv'
<1> USE DEF LoginInv
<1>1. PICK r \in LoginRequests :
         /\ requests' = Append(requests, r)
         /\ r.from = s /\ r.id = loginId[s]
         /\ r.type = "CARequestAuth" <=> errand[s] = "linked"
  <2>1. errand[s] \in {"linked", "authorised", "listed"}
    BY DEF Ask, NextRequest
  <2>2. /\ NextRequest[errand[s]] \in RequestTypes
        /\ NextRequest[errand[s]] = "CARequestAuth" <=> errand[s] = "linked"
    BY <2>1 DEF NextRequest, RequestTypes
  <2>3. PICK parses \in BOOLEAN :
           requests' = Append(requests, [type |-> NextRequest[errand[s]], from |-> s,
                                         id |-> loginId[s], parses |-> parses])
    BY DEF Ask
  <2> DEFINE r == [type |-> NextRequest[errand[s]], from |-> s,
                   id |-> loginId[s], parses |-> parses]
  <2>4. r \in LoginRequests
    BY <2>2 DEF LoginRequests, LoginTypes
  <2> QED
    BY <2>2, <2>3, <2>4
<1>2. /\ errand' = [errand EXCEPT ![s] = "asking"]
      /\ UNCHANGED <<loginId, nIDCounter, account, cookie>>
      /\ errand[s] \in {"linked", "authorised", "listed"}
  BY DEF Ask, NextRequest
<1>3. /\ requests' \in Seq(LoginRequests)
      /\ Len(requests) \in Nat
      /\ DOMAIN requests = 1 .. Len(requests)
      /\ DOMAIN requests' = 1 .. Len(requests) + 1
      /\ \A i \in DOMAIN requests : requests'[i] = requests[i]
      /\ requests'[Len(requests) + 1] = r
  BY <1>1 DEF LoginTypes
<1>4. LoginTypes'
  BY <1>2, <1>3 DEF LoginTypes, Errands
<1>5. IdsApart' /\ ToldOwnId'
  BY <1>2 DEF LoginTypes, Errands, IdsApart, ToldOwnId
<1>6. \A i \in DOMAIN requests : requests[i].from = s => requests[i].id # loginId[s]
  BY <1>2 DEF RequestsCurrent
<1>7. \A i \in DOMAIN requests : requests[i].from \in Sessions
  BY QueuedRequests
<1>8. OneEach'
  <2> SUFFICES ASSUME NEW i \in DOMAIN requests', NEW j \in DOMAIN requests',
                      i # j, requests'[i].from = requests'[j].from
               PROVE  requests'[i].id # requests'[j].id
    BY DEF OneEach
  <2>1. CASE i \in DOMAIN requests /\ j \in DOMAIN requests
    BY <1>3, <2>1 DEF OneEach
  <2>2. CASE i = Len(requests) + 1 /\ j \in DOMAIN requests
    BY <1>1, <1>3, <1>6, <2>2
  <2>3. CASE j = Len(requests) + 1 /\ i \in DOMAIN requests
    BY <1>1, <1>3, <1>6, <2>3
  <2> QED
    BY <1>3, <2>1, <2>2, <2>3
<1>9. RequestsCurrent'
  <2> SUFFICES ASSUME NEW i \in DOMAIN requests'
               PROVE  LET q == requests'[i]
                      IN  /\ q.id # 0 /\ q.id < nIDCounter
                          /\ q.id = loginId[q.from] =>
                                /\ errand'[q.from] = "asking"
                                /\ q.type # "CARequestAuth" => account[q.from] = q.id
    BY <1>2 DEF RequestsCurrent
  <2>1. CASE i \in DOMAIN requests
    BY <1>2, <1>3, <1>7, <2>1 DEF RequestsCurrent, LoginTypes
  <2>2. CASE i = Len(requests) + 1
    BY <1>1, <1>2, <1>3, <2>2 DEF IdsApart, ToldOwnId, LoginTypes
  <2> QED
    BY <1>3, <2>1, <2>2
<1> QED
  BY <1>4, <1>5, <1>8, <1>9

LEMMA OnMessageKeeps ==
    ASSUME LoginInv, OnMessage
    PROVE  LoginInv'
<1> USE DEF LoginInv
<1> DEFINE r == Head(requests)
           s == r.from
           reached == loginId[s] = r.id
           told == reached /\ Answered(r)
<1>1. /\ requests # <<>> /\ requests' = Tail(requests)
      /\ UNCHANGED <<loginId, nIDCounter>>
      /\ errand' = [errand EXCEPT ![s] = IF reached THEN Outcome(r) ELSE @]
      /\ account' = [account EXCEPT ![s] =
            IF reached /\ Answered(r) /\ r.type = "CARequestAuth" THEN r.id ELSE @]
      /\ cookie' = [cookie EXCEPT ![s] =
            IF reached /\ r.type = "CAEnterWorld" THEN r.id ELSE @]
  BY DEF OnMessage, IdOfAsker
<1>2. /\ Len(requests) \in Nat \ {0}
      /\ DOMAIN requests = 1 .. Len(requests)
      /\ r = requests[1] /\ 1 \in DOMAIN requests
      /\ requests' \in Seq(LoginRequests)
      /\ DOMAIN requests' = 1 .. Len(requests) - 1
      /\ \A i \in DOMAIN requests' : i + 1 \in DOMAIN requests /\ i + 1 # 1
                                     /\ requests'[i] = requests[i + 1]
  BY <1>1 DEF LoginTypes
<1>3. /\ r \in LoginRequests /\ s \in Sessions /\ r.id \in Nat
      /\ r.type \in RequestTypes
  <2>1. r \in LoginRequests
    BY <1>2 DEF LoginTypes
  <2> QED
    BY <2>1 DEF LoginRequests
<1>4. /\ Outcome(r) \in {"authorised", "listed", "cookie", "unanswered"}
      /\ Outcome(r) = "authorised" => Answered(r) /\ r.type = "CARequestAuth"
      /\ Outcome(r) = "listed" => r.type # "CARequestAuth"
      /\ Outcome(r) = "cookie" <=> r.type = "CAEnterWorld"
  BY <1>3 DEF Outcome, Answered, AfterAnswer, RequestTypes
<1>5. reached => /\ errand[s] = "asking" /\ r.id # 0
                 /\ r.type # "CARequestAuth" => account[s] = r.id
  BY <1>2 DEF RequestsCurrent
<1> HIDE DEF r, s, reached
<1>6. /\ \A t \in Sessions \ {s} : errand'[t] = errand[t] /\ account'[t] = account[t]
                                   /\ cookie'[t] = cookie[t]
      /\ ~reached => errand' = errand /\ account' = account /\ cookie' = cookie
  BY <1>1, <1>3 DEF LoginTypes
<1>7. LoginTypes'
  BY <1>1, <1>2, <1>3, <1>4 DEF LoginTypes, Errands
<1>8. CASE ~reached
  <2>1. IdsApart' /\ ToldOwnId'
    BY <1>1, <1>6, <1>8 DEF IdsApart, ToldOwnId
  <2>2. OneEach'
    BY <1>2 DEF OneEach
  <2>3. RequestsCurrent'
    BY <1>1, <1>2, <1>6, <1>8 DEF RequestsCurrent
  <2> QED
    BY <1>7, <2>1, <2>2, <2>3
<1>9. CASE reached
  <2>1. /\ errand'[s] = Outcome(r)
        /\ account'[s] = IF Answered(r) /\ r.type = "CARequestAuth" THEN r.id ELSE account[s]
        /\ cookie'[s] = IF r.type = "CAEnterWorld" THEN r.id ELSE cookie[s]
        /\ loginId[s] = r.id
    BY <1>1, <1>3, <1>9 DEF LoginTypes, reached
  <2>2. IdsApart'
    BY <1>1, <1>3, <1>5, <1>6, <1>9, <2>1 DEF IdsApart
  <2>3. ToldOwnId'
    <3>1. /\ errand'[s] \in {"authorised", "listed", "cookie"} => account'[s] = loginId[s]
          /\ IF errand'[s] = "cookie" THEN cookie'[s] = loginId[s] ELSE cookie'[s] = 0
      BY <1>3, <1>4, <1>5, <1>9, <2>1 DEF ToldOwnId
    <3> QED
      BY <1>1, <1>6, <3>1 DEF ToldOwnId
  <2>4. OneEach'
    BY <1>2 DEF OneEach
  <2>5. RequestsCurrent'
    <3> SUFFICES ASSUME NEW i \in DOMAIN requests'
                 PROVE  LET q == requests[i + 1]
                        IN  /\ q.id # 0 /\ q.id < nIDCounter
                            /\ q.id = loginId[q.from] =>
                                  /\ errand'[q.from] = "asking"
                                  /\ q.type # "CARequestAuth" => account'[q.from] = q.id
      BY <1>1, <1>2 DEF RequestsCurrent
    <3>1. requests[i + 1].from = s => requests[i + 1].id # loginId[s]
      BY <1>2, <2>1 DEF OneEach, s
    <3>2. requests[i + 1].from \in Sessions
      BY <1>2, QueuedRequests
    <3> QED
      BY <1>2, <1>6, <3>1, <3>2 DEF RequestsCurrent
  <2> QED
    BY <1>7, <2>2, <2>3, <2>4, <2>5
<1> QED
  BY <1>8, <1>9

LEMMA LoginInvNext ==
    ASSUME LoginInv, [JourneyNext]_journeyVars
    PROVE  LoginInv'
<1>1. CASE UNCHANGED loginVars
  BY <1>1
  DEF loginVars, LoginInv, LoginTypes, IdsApart, RequestsCurrent, OneEach, ToldOwnId
<1>2. CASE OnMessage
  BY <1>2, OnMessageKeeps
<1>3. ASSUME NEW s \in Sessions, Dial(s) \/ HangUp(s) \/ Ask(s)
      PROVE  LoginInv'
  BY <1>3, DialKeeps, HangUpKeeps, AskKeeps
<1> QED
  BY <1>1, <1>2, <1>3
  DEF JourneyNext, journeyVars, JoinStream, StreamAnswer, EnterAfterLogin,
      LoadAfterStream, World

\* Every step of the journey is a step of WorldGame or none.
LEMMA JourneyStepsAreGameSteps == [JourneyNext]_journeyVars => [GameNext]_gameVars
  BY DEF JourneyNext, journeyVars, GameNext, OnMessage, Dial, HangUp, Ask, JoinStream,
         StreamAnswer, EnterAfterLogin, LoadAfterStream, World

-----------------------------------------------------------------------------

\* ACAuthResponse and ACWorldCookie, written by two handlers from the session of two
\* packets, name the same id, and no two clients take the same cookie to the world
\* server, however often they dial and whatever else is queued.
THEOREM JourneyCookies == JourneySpec => []CookieNamesAccount
<1>1. LoginInv => CookieNamesAccount
  BY DEF LoginInv, LoginTypes, IdsApart, ToldOwnId, CookieNamesAccount
<1> QED
  BY <1>1, LoginInvInit, LoginInvNext, PTL DEF JourneySpec

\* With the login and the stream server in front of it the world server behaves as it
\* does for clients that come from nowhere: what is proved of WorldGame holds here.
THEOREM JourneyImplementsGame == JourneySpec => GameSpec
<1>1. JourneyInit => GameInit
  BY DEF JourneyInit
<1> QED
  BY <1>1, JourneyStepsAreGameSteps, PTL DEF JourneySpec, GameSpec

\* So clients that come through the login still share one world (README.md: every
\* player is in it).
THEOREM JourneySharesWorld == JourneySpec => SharedWorldSpec
  BY JourneyImplementsGame, GameImplementsSharedWorld
=============================================================================

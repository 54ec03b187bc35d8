------------------------------ MODULE WorldGame ------------------------------
(***************************************************************************)
(* The world server together with the clients it is written for.  A client *)
(* is known only by the packets the server expects from it: it connects,   *)
(* answers every ChangeState with its FinishState, asks for its characters,*)
(* creates some, selects one it was told of, spawns it, enters the game    *)
(* and moves it.  It waits for the reply of a request before the next, and *)
(* it may vanish at any time: the server takes no notice (session.h closes *)
(* the socket and nothing else).                                           *)
(***************************************************************************)
EXTENDS WorldServer, FiniteSets

CONSTANT MaxCharacters   \* bound on the characters one client creates

VARIABLES
    stage,   \* how far each client is
    asked,   \* the state of the last ChangeState a client received
    made     \* the character ids a client was told of

clientVars == <<stage, asked, made>>
gameVars == <<vars, clientVars>>

Stages == {"offline", "hello", "loading", "listing", "lobby", "selected",
           "spawned", "playing", "gone"}

GameInit ==
    /\ Init
    /\ stage = [s \in Sessions |-> "offline"]
    /\ asked = [s \in Sessions |-> 0]
    /\ made = [s \in Sessions |-> {}]

\* The client goes to a later stage once it was sent the packet it waits for.
Advance(s, type, next) ==
    stage' = [stage EXCEPT ![s] = IF Packet(type, 0) \in sent'[s] THEN next ELSE @]

\* The client takes note of the ChangeState it was sent, if any.
Obey(s) ==
    asked' = [asked EXCEPT ![s] =
                 IF \E n \in 0..7 : ChangeState(n) \in sent'[s]
                 THEN CHOOSE n \in 0..7 : ChangeState(n) \in sent'[s] ELSE @]

Connect(s) ==
    /\ stage[s] = "offline"
    /\ OnClientConnected(s)
    /\ stage' = [stage EXCEPT ![s] = "hello"]
    /\ UNCHANGED <<asked, made>>

EnterWorld(s) ==
    /\ stage[s] = "hello"
    /\ X2EnterWorldResponse(s)
    /\ Obey(s)
    /\ Advance(s, "X2EnterWorldResponse", "loading")
    /\ UNCHANGED made

FinishState(s) ==
    /\ stage[s] = "loading"
    /\ HandleFinishState(s, asked[s])
    /\ Obey(s)
    /\ Advance(s, "SCUpdatePremiumPoint", "listing")
    /\ UNCHANGED made

ListCharacter(s) ==
    /\ stage[s] = "listing"
    /\ AnswerOnly(s, "CSListCharacter")
    /\ Advance(s, "SCCharacterList", "lobby")
    /\ UNCHANGED <<asked, made>>

CreateCharacter(s) ==
    /\ stage[s] = "lobby"
    /\ Cardinality(made[s]) < MaxCharacters
    /\ \E template \in Templates : CSCreateCharacter(s, template)
    /\ made' = [made EXCEPT ![s] = @ \cup {nextCharacterId}]
    /\ UNCHANGED <<stage, asked>>

RefusedName(s) ==
    /\ stage[s] = "lobby"
    /\ CSCreateCharacterRefused(s)
    /\ UNCHANGED clientVars

SelectCharacter(s) ==
    /\ stage[s] = "lobby"
    /\ \E charId \in made[s] : CSCharacterSelect(s, charId)
    /\ Advance(s, "SCResponseUIData", "selected")
    /\ UNCHANGED <<asked, made>>

SpawnCharacter(s) ==
    /\ stage[s] = "selected"
    /\ CSSpawnCharacter(s)
    /\ stage' = [stage EXCEPT ![s] = IF up' THEN "spawned" ELSE @]
    /\ UNCHANGED <<asked, made>>

NotifyInGame(s) ==
    /\ stage[s] = "spawned"
    /\ CSNotifyInGame(s)
    /\ stage' = [stage EXCEPT ![s] = IF up' THEN "playing" ELSE @]
    /\ UNCHANGED <<asked, made>>

\* The client moves the object its own SCUnitState named.
MoveUnit(s) ==
    /\ stage[s] = "playing"
    /\ \E unit \in BOOLEAN, p \in Positions :
          CSMoveUnit(s, registry[character[s]].objectId, unit, p)
    /\ UNCHANGED clientVars

Chatter(s) ==
    /\ stage[s] \notin {"offline", "gone"}
    /\ \E request \in DOMAIN Answers : AnswerOnly(s, request)
    /\ UNCHANGED clientVars

Vanish(s) ==
    /\ stage[s] \notin {"offline", "gone"}
    /\ stage' = [stage EXCEPT ![s] = "gone"]
    /\ UNCHANGED <<vars, asked, made>>

-----------------------------------------------------------------------------
GameNext ==
    \E s \in Sessions :
        \/ Connect(s)
        \/ EnterWorld(s)
        \/ FinishState(s)
        \/ ListCharacter(s)
        \/ CreateCharacter(s)
        \/ RefusedName(s)
        \/ SelectCharacter(s)
        \/ SpawnCharacter(s)
        \/ NotifyInGame(s)
        \/ MoveUnit(s)
        \/ Chatter(s)
        \/ Vanish(s)

GameSpec == GameInit /\ [][GameNext]_gameVars

\* A client that stays takes its next step, and the server's loop, which drains
\* its queue on every tick, handles the packet.  No client has to connect, move,
\* make a second character or leave.
GameFairness ==
    \A s \in Sessions :
        /\ WF_gameVars(EnterWorld(s))
        /\ WF_gameVars(FinishState(s))
        /\ WF_gameVars(ListCharacter(s))
        /\ WF_gameVars(made[s] = {} /\ CreateCharacter(s))
        /\ WF_gameVars(SelectCharacter(s))
        /\ WF_gameVars(SpawnCharacter(s))
        /\ WF_gameVars(NotifyInGame(s))

FairGameSpec == GameSpec /\ GameFairness

-----------------------------------------------------------------------------
(* Properties. *)

\* The server's state and the clients' stages keep their types.
GameTypeOK ==
    /\ TypeOK
    /\ stage \in [Sessions -> Stages]
    /\ asked \in [Sessions -> 0..7]
    /\ made \in [Sessions -> SUBSET Nat]

ObjectOf(s) == registry[character[s]].objectId
PositionOf(s) == registry[character[s]].position

\* Two players in the game see each other, each where the other is, whatever the
\* order in which they entered, moved, made characters or lost their connection.
\* No handler says so: CSNotifyInGame shows the world to the newcomer in one loop
\* and the newcomer to the world in another, over different containers, and
\* CSMoveUnit updates the registry and tells the players in two separate steps.
ViewsAgree ==
    \A s, t \in Sessions :
        inGame[s] /\ inGame[t] /\ s # t => seen[s][ObjectOf(t)] = PositionOf(t)

\* A player is told of a movement only for an object it was shown before
\* (SCOneUnitMovement goes to every player in game, SCUnitState only to some).
MovementAfterState ==
    [][\A s \in Sessions, o \in ObjIds :
          Movement(o) \in sent'[s] => seen[s][o] # Unseen]_gameVars

\* A session marked in game has a spawned character of its own, which keeps its
\* identity: broadcasts and movements never concern a replaced character.
InGameHasCharacter ==
    \A s \in Sessions :
        inGame[s] => /\ s \in connections
                     /\ character[s] \in Spawned \ Bare
                     /\ stage[s] \in {"playing", "gone"}

\* README: every player is in the one shared world.
Shared == INSTANCE SharedWorld WITH
    Nowhere <- Unseen,
    place <- [s \in Sessions |-> IF inGame[s] THEN PositionOf(s) ELSE Unseen],
    view <- [s \in Sessions |-> [t \in Sessions |->
                IF s # t /\ inGame[s] /\ inGame[t]
                THEN seen[s][ObjectOf(t)] ELSE Unseen]]
SharedWorldSpec == Shared!Spec

\* Two clients that both connect and stay meet in the world, unless the server
\* ends first: no handshake step is left unanswered.
EveryoneMeets ==
    \A s, t \in Sessions :
        s # t => (stage[s] = "hello" /\ stage[t] # "offline")
                 ~> \/ ~up \/ stage[s] = "gone" \/ stage[t] = "gone"
                    \/ inGame[s] /\ inGame[t] /\ seen[s][ObjectOf(t)] # Unseen

\* Claims of the repository that the code does not keep.

\* CSNotifyInGame: "Update this character about everyone else": what is written
\* about everyone else is there to be read.
EveryoneElseReadable == "NoVisualOptions" \notin faults

\* ValidateCharacterName refuses a name "Even if the client checks for length":
\* a refusal is survived by the server.
RefusalSurvived == "NullEntity" \notin faults
=============================================================================

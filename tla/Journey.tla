------------------------------- MODULE Journey -------------------------------
(***************************************************************************)
(* The way of a client through the three servers: it logs in at the login  *)
(* server, takes the cookie from there to the world server, and joins the  *)
(* stream server the world server names.  The servers share nothing but    *)
(* Server.cfg; what holds the way together are the ids, cookies and ports  *)
(* in the packets.  The login server sleeps in tsqueue::wait while its     *)
(* queue is empty, where TsQueue shows that it may miss a wake-up.         *)
(***************************************************************************)
EXTENDS WorldGame, Sequences

CONSTANT MaxLogins   \* bound on the connections to the login server

VARIABLES
    errand,       \* how far each client is at the login server
    loginId,      \* the id of its session there, or 0
    nIDCounter,
    requests,     \* the login server's m_qMessagesIn
    missed,       \* the login server sleeps beside a queue that is not empty
    account,      \* what ACAuthResponse and ACWorldCookie told each client
    cookie,
    streamPort,   \* STREAM-SERVER-PORT of Server.cfg
    stream        \* how far each client is at the stream server

loginVars == <<errand, loginId, nIDCounter, requests, missed, account, cookie>>
streamVars == <<streamPort, stream>>
journeyVars == <<gameVars, loginVars, streamVars>>

FirstLoginId == 10000
AnnouncedPort == 60002   \* by X2EnterWorldResponsePacket
StreamPorts == {60002, 1239}

JourneyInit ==
    /\ GameInit
    /\ errand = [s \in Sessions |-> "away"]
    /\ loginId = [s \in Sessions |-> 0]
    /\ nIDCounter = FirstLoginId
    /\ requests = <<>>
    /\ missed = FALSE
    /\ account = [s \in Sessions |-> 0]
    /\ cookie = [s \in Sessions |-> 0]
    /\ streamPort \in StreamPorts
    /\ stream = [s \in Sessions |-> "none"]

-----------------------------------------------------------------------------
(* The login server. *)

\* What a client asks for next.
NextRequest == [linked |-> "CARequestAuth", authorised |-> "CAListWorld",
                listed |-> "CAEnterWorld"]

\* server_base::WaitForClientConnection with LoginServer::OnClientConnected.
Dial(s) ==
    /\ errand[s] = "away"
    /\ nIDCounter < FirstLoginId + MaxLogins
    /\ errand' = [errand EXCEPT ![s] = "linked"]
    /\ loginId' = [loginId EXCEPT ![s] = nIDCounter]
    /\ nIDCounter' = nIDCounter + 1
    /\ UNCHANGED <<gameVars, streamVars, requests, missed, account, cookie>>

\* A client may lose patience and dial anew; what it asked for stays queued.
HangUp(s) ==
    /\ errand[s] \in {"asking", "unanswered"}
    /\ errand' = [errand EXCEPT ![s] = "away"]
    /\ loginId' = [loginId EXCEPT ![s] = 0]
    /\ UNCHANGED <<gameVars, streamVars, nIDCounter, requests, missed, account, cookie>>

\* A packet that finds the queue empty may find the server between its test of
\* the queue and its sleep; the next one wakes it.
Ask(s) ==
    /\ errand[s] \in DOMAIN NextRequest
    /\ \E parses \in BOOLEAN :
          /\ NextRequest[errand[s]] # "CARequestAuth" => parses
          /\ requests' = Append(requests, [type |-> NextRequest[errand[s]], from |-> s,
                                           id |-> loginId[s], parses |-> parses])
    /\ missed' \in {FALSE, requests = <<>>}
    /\ errand' = [errand EXCEPT ![s] = "asking"]
    /\ UNCHANGED <<gameVars, streamVars, loginId, nIDCounter, account, cookie>>

\* The ids in the answers: of the session that asked.
IdOfNewest(request) == nIDCounter - 1
IdOfAsker(request) == request.id

\* A ticket that is no XML is not answered at all.
Answered(request) == request.type # "CARequestAuth" \/ request.parses
AfterAnswer == [CARequestAuth |-> "authorised", CAListWorld |-> "listed",
             CAEnterWorld |-> "cookie"]
OutcomeListForgotten(request) ==
    IF request.type = "CAListWorld" THEN "asking"
    ELSE IF Answered(request) THEN AfterAnswer[request.type] ELSE "unanswered"
Outcome(request) ==
    IF Answered(request) THEN AfterAnswer[request.type] ELSE "unanswered"

\* LoginServer::OnMessage.  Nothing of it is kept, and nothing is checked: whether
\* the session was authorised before is up to the client.
OnMessage ==
    /\ requests # <<>>
    /\ ~missed
    /\ requests' = Tail(requests)
    /\ LET request == Head(requests)
           s == request.from
           reached == loginId[s] = request.id
       IN  /\ errand' = [errand EXCEPT ![s] = IF reached THEN Outcome(request) ELSE @]
           /\ account' = [account EXCEPT ![s] =
                 IF reached /\ Answered(request) /\ request.type = "CARequestAuth"
                 THEN request.id ELSE @]
           /\ cookie' = [cookie EXCEPT ![s] =
                 IF reached /\ request.type = "CAEnterWorld"
                 THEN IdOfAsker(request) ELSE @]
    /\ UNCHANGED <<gameVars, streamVars, loginId, nIDCounter, missed>>

-----------------------------------------------------------------------------
(* The stream server, in the main loop of the world server. *)

\* StreamSession::ProcessPacket: a join is accepted whatever account and cookie it
\* names, a cell is always empty, CTContinue is read and ignored.
StreamReply(request) ==
    CASE request = "CTJoin" -> "TCJoinResponse"
      [] request = "CTRequestCell" -> "TCDoodadStream"
      [] OTHER -> "nothing"

\* A client that was told the port tries it; it goes on with or without a stream.
JoinStream(s) ==
    /\ up
    /\ stage[s] = "loading"
    /\ stream[s] = "none"
    /\ stream' = [stream EXCEPT ![s] =
                     IF streamPort = AnnouncedPort THEN "joining" ELSE "unreachable"]
    /\ UNCHANGED <<gameVars, loginVars, streamPort>>

StreamAnswer(s) ==
    /\ up
    /\ \/ /\ stream[s] = "joining"
          /\ StreamReply("CTJoin") = "TCJoinResponse"
          /\ stream' = [stream EXCEPT ![s] = "joined"]
       \/ /\ stream[s] = "joined"
          /\ StreamReply("CTRequestCell") = "TCDoodadStream"
          /\ stream' = [stream EXCEPT ![s] = "streamed"]
    /\ UNCHANGED <<gameVars, loginVars, streamPort>>

-----------------------------------------------------------------------------
(* The world server. *)

World(action) == action /\ UNCHANGED <<loginVars, streamVars>>

EnterAfterLogin(s) == errand[s] = "cookie" /\ World(Connect(s))
LoadAfterStream(s) == stream[s] \in {"streamed", "unreachable"} /\ World(FinishState(s))

JourneyNext ==
    \/ OnMessage
    \/ \E s \in Sessions :
        \/ Dial(s)
        \/ HangUp(s)
        \/ Ask(s)
        \/ JoinStream(s)
        \/ StreamAnswer(s)
        \/ EnterAfterLogin(s)
        \/ World(EnterWorld(s))
        \/ LoadAfterStream(s)
        \/ World(ListCharacter(s))
        \/ World(CreateCharacter(s))
        \/ World(RefusedName(s))
        \/ World(SelectCharacter(s))
        \/ World(SpawnCharacter(s))
        \/ World(NotifyInGame(s))
        \/ World(MoveUnit(s))
        \/ World(Vanish(s))

\* The servers handle what is queued, a client that stays takes its next step.  No
\* client has to dial, hang up, move, make a second character or leave.
JourneyFairness ==
    /\ WF_journeyVars(OnMessage)
    /\ \A s \in Sessions :
        /\ WF_journeyVars(Ask(s))
        /\ WF_journeyVars(JoinStream(s))
        /\ WF_journeyVars(StreamAnswer(s))
        /\ WF_journeyVars(EnterAfterLogin(s))
        /\ WF_journeyVars(World(EnterWorld(s)))
        /\ WF_journeyVars(LoadAfterStream(s))
        /\ WF_journeyVars(World(ListCharacter(s)))
        /\ WF_journeyVars(World(made[s] = {} /\ CreateCharacter(s)))
        /\ WF_journeyVars(World(SelectCharacter(s)))
        /\ WF_journeyVars(World(SpawnCharacter(s)))
        /\ WF_journeyVars(World(NotifyInGame(s)))

JourneySpec == JourneyInit /\ [][JourneyNext]_journeyVars /\ JourneyFairness

-----------------------------------------------------------------------------
(* Properties. *)

\* The cookie a client takes to the world server names the account it was given,
\* however often it dialled and whatever else was queued: both are the id of the
\* session, and two clients never hold the same.
CookieNamesAccount ==
    \A s \in Sessions : errand[s] = "cookie" =>
        /\ cookie[s] = account[s]
        /\ \A t \in Sessions \ {s} : cookie[t] # cookie[s]

\* A client that keeps asking reaches the world server, unless its ticket is not
\* understood, the login server's wake-up is missed for good or the world is down.
LoginLeadsToWorld ==
    \A s \in Sessions : errand[s] = "linked" ~>
        \/ ~up
        \/ errand[s] \in {"away", "unanswered"}
        \/ stage[s] # "offline"
        \/ []missed
=============================================================================

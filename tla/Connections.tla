------------------------------ MODULE Connections ------------------------------
(***************************************************************************)
(* The sessions of the world server, from the accept callback on: which    *)
(* containers own a session, under which id it is found, and which         *)
(* asynchronous operations still point to it.                              *)
(*                                                                         *)
(* The io thread runs one callback at a time.  The accept callback is cut  *)
(* where the main thread can see the difference: the new session is first  *)
(* in WorldManager::Connections, later in m_deqConnections with its id and *)
(* its first read.  The main thread pops a message, handles it, and for a  *)
(* broadcast walks through Connections without a lock: a walk that an      *)
(* insertion of the io thread overlaps is a data race, which ends the      *)
(* process or yields any part of the table.                                *)
(*                                                                         *)
(* The operations of a session hold a raw this; the containers, the queued *)
(* messages and the main thread's locals hold shared pointers.             *)
(***************************************************************************)
EXTENDS Naturals, Sequences, FiniteSets, Functions

CONSTANTS
    Peers,         \* the remote ends, each good for one session
    NoPeer,
    MaxMessages,   \* bound on the messages of one peer
    MaxPosted      \* bound on the closures posted for one session and not yet run

FirstId == 10000
Ids == FirstId .. FirstId + Cardinality(Peers) - 1

ASSUME PeersOK ==
    /\ IsFiniteSet(Peers)
    /\ NoPeer \notin Peers
    /\ MaxMessages \in Nat /\ MaxPosted \in Nat

VARIABLES
    up,             \* the process has not ended
    remote,         \* each peer: "away", "dialing", "linked" or "gone"
    accepting,      \* the acceptor: "primed", or its callback: "made", "added"
    newcomer,       \* newconn, while the callback runs
    nIDCounter,
    connections,    \* WorldManager::Connections, by id
    m_deqConnections,
    sessionId,      \* session::id, 0 until ConnectToClient
    isOpen,         \* the sessions whose socket is open
    reading,        \* the sessions with an outstanding read
    posted,         \* per session: the SendPacket closures in the io_context
    messagesOut,    \* per session: its out-queue is not empty
    writing,        \* the sessions with an outstanding write
    received,       \* per session: how many messages were read
    messagesIn,     \* m_qMessagesIn: the owners of the messages
    main,           \* the main thread: "idle", "handling", "walking" or "sending"
    handled,        \* the session whose message it handles
    news,           \* what it broadcasts: "none", a unit's "state" or a "movement"
    audience,       \* GetNearbyConnections' vector
    torn,           \* an insertion overlapped the walk
    inGame          \* the sessions that are in game

acceptVars == <<accepting, newcomer, nIDCounter, connections, m_deqConnections, sessionId>>
ioVars == <<isOpen, reading, messagesOut, writing, received>>
mainVars == <<main, handled, news, audience, inGame>>
vars == <<up, remote, acceptVars, ioVars, posted, messagesIn, mainVars, torn>>

NoConnection == [n \in Ids |-> NoPeer]

Init ==
    /\ up = TRUE
    /\ remote = [p \in Peers |-> "away"]
    /\ accepting = "primed"
    /\ newcomer = NoPeer
    /\ nIDCounter = FirstId
    /\ connections = NoConnection
    /\ m_deqConnections = <<>>
    /\ sessionId = [p \in Peers |-> 0]
    /\ isOpen = {} /\ reading = {} /\ writing = {} /\ messagesOut = {}
    /\ posted = [p \in Peers |-> 0]
    /\ received = [p \in Peers |-> 0]
    /\ messagesIn = <<>>
    /\ main = "idle"
    /\ handled = NoPeer
    /\ news = "none"
    /\ audience = {}
    /\ torn = FALSE
    /\ inGame = {}

-----------------------------------------------------------------------------
(* The peers. *)

Dial(p) ==
    /\ remote[p] = "away"
    /\ remote' = [remote EXCEPT ![p] = "dialing"]
    /\ UNCHANGED <<up, acceptVars, ioVars, posted, messagesIn, mainVars, torn>>

\* A peer resets its connection, perhaps before it was accepted.
Reset(p) ==
    /\ remote[p] \in {"dialing", "linked"}
    /\ remote' = [remote EXCEPT ![p] = "gone"]
    /\ UNCHANGED <<up, acceptVars, ioVars, posted, messagesIn, mainVars, torn>>

-----------------------------------------------------------------------------
(* The io thread: accepting. *)

IoIdle == up /\ accepting \notin {"made", "added"}

\* The peers in the backlog: accepted ones have a session.
HasSession(p) == p = newcomer \/ p \in Range(m_deqConnections)
Waiting(p) == remote[p] \in {"dialing", "gone"} /\ ~HasSession(p)

\* The accept callback with a socket: its remote_endpoint() throws if the peer
\* has gone in the meantime, which ends the io thread and so the process.
AcceptThrows(p) ==
    /\ up /\ accepting = "primed"
    /\ Waiting(p) /\ remote[p] = "gone"
    /\ up' = FALSE
    /\ UNCHANGED <<remote, acceptVars, ioVars, posted, messagesIn, mainVars, torn>>

Accept(p) ==
    /\ up /\ accepting = "primed"
    /\ Waiting(p) /\ remote[p] = "dialing"
    /\ remote' = [remote EXCEPT ![p] = "linked"]
    /\ accepting' = "made"
    /\ newcomer' = p
    /\ isOpen' = isOpen \cup {p}
    /\ UNCHANGED <<up, nIDCounter, connections, m_deqConnections, sessionId, reading,
                   messagesOut, writing, received, posted, messagesIn, mainVars, torn>>

\* The callback with an error is logged, and the acceptor primed again.
AcceptErrorStops(p) ==
    /\ up /\ accepting = "primed"
    /\ Waiting(p)
    /\ remote' = [remote EXCEPT ![p] = "away"]
    /\ accepting' = "unprimed"
    /\ UNCHANGED <<up, newcomer, nIDCounter, connections, m_deqConnections, sessionId,
                   ioVars, posted, messagesIn, mainVars, torn>>

AcceptError(p) ==
    /\ up /\ accepting = "primed"
    /\ Waiting(p)
    /\ remote' = [remote EXCEPT ![p] = "away"]
    /\ UNCHANGED <<up, acceptVars, ioVars, posted, messagesIn, mainVars, torn>>

\* OnClientConnected: the id, and WorldManager::AddConnection, which keeps what
\* is there.  An insertion while the main thread walks tears the walk.
OnClientConnected ==
    /\ up /\ accepting = "made"
    /\ accepting' = "added"
    /\ connections' = IF connections[nIDCounter] = NoPeer
                      THEN [connections EXCEPT ![nIDCounter] = newcomer]
                      ELSE connections
    /\ nIDCounter' = nIDCounter + 1
    /\ torn' = (torn \/ main = "walking")
    /\ UNCHANGED <<up, remote, newcomer, m_deqConnections, sessionId, ioVars, posted,
                   messagesIn, mainVars>>

\* The session is stored, ConnectToClient gives it its id and starts the read
\* loop, and the acceptor is primed again.
StoreWithNextId ==
    /\ up /\ accepting = "added"
    /\ m_deqConnections' = Append(m_deqConnections, newcomer)
    /\ sessionId' = [sessionId EXCEPT ![newcomer] = nIDCounter]
    /\ reading' = reading \cup {newcomer}
    /\ newcomer' = NoPeer
    /\ accepting' = "primed"
    /\ UNCHANGED <<up, remote, nIDCounter, connections, isOpen, messagesOut, writing,
                   received, posted, messagesIn, mainVars, torn>>

ConnectToClient ==
    /\ up /\ accepting = "added"
    /\ m_deqConnections' = Append(m_deqConnections, newcomer)
    /\ sessionId' = [sessionId EXCEPT ![newcomer] = nIDCounter - 1]
    /\ reading' = reading \cup {newcomer}
    /\ newcomer' = NoPeer
    /\ accepting' = "primed"
    /\ UNCHANGED <<up, remote, nIDCounter, connections, isOpen, messagesOut, writing,
                   received, posted, messagesIn, mainVars, torn>>

-----------------------------------------------------------------------------
(* The io thread: the callbacks of a session. *)

\* A message is queued together with a shared pointer to its session.
ReadDone(p) ==
    /\ IoIdle /\ p \in reading \cap isOpen
    /\ remote[p] = "linked"
    /\ received[p] < MaxMessages
    /\ received' = [received EXCEPT ![p] = @ + 1]
    /\ messagesIn' = Append(messagesIn, p)
    /\ UNCHANGED <<up, remote, acceptVars, isOpen, reading, messagesOut, writing, posted,
                   mainVars, torn>>

ReadFailsAndForgets(p) ==
    /\ IoIdle /\ p \in reading
    /\ remote[p] = "gone" \/ p \notin isOpen
    /\ reading' = reading \ {p}
    /\ isOpen' = isOpen \ {p}
    /\ connections' = [n \in Ids |-> IF connections[n] = p THEN NoPeer ELSE connections[n]]
    /\ m_deqConnections' = SelectSeq(m_deqConnections, LAMBDA q : q # p)
    /\ UNCHANGED <<up, remote, accepting, newcomer, nIDCounter, sessionId, messagesOut,
                   writing, received, posted, messagesIn, mainVars, torn>>

\* The socket is closed; the session stays in both containers.
ReadFails(p) ==
    /\ IoIdle /\ p \in reading
    /\ remote[p] = "gone" \/ p \notin isOpen
    /\ reading' = reading \ {p}
    /\ isOpen' = isOpen \ {p}
    /\ UNCHANGED <<up, remote, acceptVars, messagesOut, writing, received, posted,
                   messagesIn, mainVars, torn>>

\* A posted SendPacket: the packet joins the queue, a write starts if none runs.
RunPosted(p) ==
    /\ IoIdle /\ posted[p] > 0
    /\ posted' = [posted EXCEPT ![p] = @ - 1]
    /\ messagesOut' = messagesOut \cup {p}
    /\ writing' = IF p \in messagesOut THEN writing ELSE writing \cup {p}
    /\ UNCHANGED <<up, remote, acceptVars, isOpen, reading, received, messagesIn,
                   mainVars, torn>>

\* The write callbacks until the queue is empty, or with an error, after which the
\* queue keeps its packets and no write starts again.
WriteDone(p) ==
    /\ IoIdle /\ p \in writing \cap isOpen
    /\ writing' = writing \ {p}
    /\ messagesOut' = messagesOut \ {p}
    /\ UNCHANGED <<up, remote, acceptVars, isOpen, reading, received, posted, messagesIn,
                   mainVars, torn>>

WriteFails(p) ==
    /\ IoIdle /\ p \in writing
    /\ remote[p] = "gone" \/ p \notin isOpen
    /\ writing' = writing \ {p}
    /\ isOpen' = isOpen \ {p}
    /\ UNCHANGED <<up, remote, acceptVars, reading, messagesOut, received, posted,
                   messagesIn, mainVars, torn>>

-----------------------------------------------------------------------------
(* The main thread. *)

PopMessage ==
    /\ up /\ main = "idle"
    /\ messagesIn # <<>>
    /\ handled' = Head(messagesIn)
    /\ messagesIn' = Tail(messagesIn)
    /\ main' = "handling"
    /\ UNCHANGED <<up, remote, acceptVars, ioVars, posted, news, audience, inGame, torn>>

\* A handler that answers and returns.
Reply ==
    /\ up /\ main = "handling"
    /\ posted[handled] < MaxPosted
    /\ posted' = [posted EXCEPT ![handled] = @ + 1]
    /\ main' = "idle"
    /\ handled' = NoPeer
    /\ UNCHANGED <<up, remote, acceptVars, ioVars, messagesIn, news, audience, inGame, torn>>

\* CSNotifyInGame tells the newcomer of the others, however many there are, puts it
\* in game and goes on to tell everyone else of it.
CSNotifyInGame ==
    /\ up /\ main = "handling"
    /\ \E others \in 0 .. MaxPosted - posted[handled] :
          posted' = [posted EXCEPT ![handled] = @ + others]
    /\ inGame' = inGame \cup {handled}
    /\ news' = "state"
    /\ main' = "walking"
    /\ torn' = FALSE
    /\ UNCHANGED <<up, remote, acceptVars, ioVars, messagesIn, handled, audience>>

\* CSMoveUnit tells everyone, the mover included.
CSMoveUnit ==
    /\ up /\ main = "handling"
    /\ news' = "movement"
    /\ main' = "walking"
    /\ torn' = FALSE
    /\ UNCHANGED <<up, remote, acceptVars, ioVars, posted, messagesIn, handled, audience,
                   inGame>>

Connected == {connections[n] : n \in Ids} \ {NoPeer}

\* The session that a state is about is left out by its id; 0, which is nobody's,
\* leaves out none.
ExcludeId == IF news = "state" THEN sessionId[handled] ELSE 0
CollectedWithSelf(excludeId) == Connected
Collected(excludeId) == {connections[n] : n \in Ids \ {excludeId}} \ {NoPeer}

\* The walk through Connections ends; one that an insertion overlapped may have
\* missed any entry, or end the process.
GetNearbyConnections ==
    /\ up /\ main = "walking"
    /\ main' = "sending"
    /\ \/ ~torn /\ audience' = Collected(ExcludeId) /\ up' = TRUE
       \/ torn /\ audience' \in SUBSET Collected(ExcludeId) /\ up' = TRUE
       \/ torn /\ audience' = audience /\ up' = FALSE
    /\ UNCHANGED <<remote, acceptVars, ioVars, posted, messagesIn, handled, news, inGame, torn>>

\* BroadcastMessage: a packet to everyone collected who is in game.
BroadcastMessage ==
    /\ up /\ main = "sending"
    /\ \A p \in audience \cap inGame : posted[p] < MaxPosted
    /\ posted' = [p \in Peers |->
                     IF p \in audience \cap inGame THEN posted[p] + 1 ELSE posted[p]]
    /\ audience' = {}
    /\ news' = "none"
    /\ main' = "idle"
    /\ handled' = NoPeer
    /\ UNCHANGED <<up, remote, acceptVars, ioVars, messagesIn, inGame, torn>>

-----------------------------------------------------------------------------
IoStep ==
    \/ OnClientConnected
    \/ ConnectToClient
    \/ \E p \in Peers :
          \/ AcceptThrows(p) \/ Accept(p) \/ AcceptError(p)
          \/ ReadDone(p) \/ ReadFails(p)
          \/ RunPosted(p) \/ WriteDone(p) \/ WriteFails(p)

MainStep ==
    \/ PopMessage
    \/ Reply \/ CSNotifyInGame \/ CSMoveUnit
    \/ GetNearbyConnections
    \/ BroadcastMessage

Next == IoStep \/ MainStep \/ \E p \in Peers : Dial(p) \/ Reset(p)

Spec == Init /\ [][Next]_vars

\* The io thread finishes the accept callback it is in and takes what the backlog
\* holds; a read or write on a dead connection fails, and the main loop goes on.
Fairness ==
    /\ WF_vars(OnClientConnected)
    /\ WF_vars(ConnectToClient)
    /\ \A p \in Peers :
          /\ SF_vars(Accept(p) \/ AcceptThrows(p) \/ AcceptError(p))
          /\ WF_vars(ReadFails(p))
          /\ WF_vars(RunPosted(p))
          /\ WF_vars(WriteDone(p) \/ WriteFails(p))
    /\ WF_vars(MainStep)

FairSpec == Spec /\ Fairness
-----------------------------------------------------------------------------
(* Properties. *)

RemoteStates == {"away", "dialing", "linked", "gone"}

\* The server's members, the containers and the threads' positions keep their types.
TypeOK ==
    /\ up \in BOOLEAN
    /\ remote \in [Peers -> RemoteStates]
    /\ accepting \in {"primed", "made", "added"}
    /\ newcomer \in Peers \cup {NoPeer}
    /\ nIDCounter \in Nat
    /\ connections \in [Ids -> Peers \cup {NoPeer}]
    /\ m_deqConnections \in Seq(Peers)
    /\ sessionId \in [Peers -> Nat]
    /\ isOpen \subseteq Peers /\ reading \subseteq Peers
    /\ writing \subseteq Peers /\ messagesOut \subseteq Peers
    /\ posted \in [Peers -> Nat]
    /\ received \in [Peers -> Nat]
    /\ messagesIn \in Seq(Peers)
    /\ main \in {"idle", "handling", "walking", "sending"}
    /\ handled \in Peers \cup {NoPeer}
    /\ news \in {"none", "state", "movement"}
    /\ audience \subseteq Peers
    /\ torn \in BOOLEAN
    /\ inGame \subseteq Peers

\* Who holds a shared pointer to the session of p.
Owned(p) ==
    \/ p \in Range(m_deqConnections) \cup Connected \cup audience
    \/ p \in Range(messagesIn)
    \/ p \in {newcomer, handled}

\* Every callback and every posted closure runs on a session that still exists,
\* although it holds no pointer that would keep it: whatever fails and in whatever
\* order reads, writes and sends end.
CallbacksFindTheirSession ==
    \A p \in Peers :
        p \in reading \cup writing \/ posted[p] > 0 => Owned(p)

\* A session is found under the id it goes by: from its first message on, the two
\* containers, filled in two steps, agree about it, and no id belongs to two.
FoundByItsId ==
    \A p \in Peers :
        sessionId[p] # 0 =>
            /\ sessionId[p] \in Ids
            /\ connections[sessionId[p]] = p
            /\ p \in Range(m_deqConnections)
            /\ \A q \in Peers \ {p} : sessionId[q] # sessionId[p]

\* Whom a broadcast is meant for: a newcomer's state for everyone in game but
\* itself, a movement for everyone in game.
Addressees == IF news = "state" THEN inGame \ {handled} ELSE inGame

\* A broadcast is sent to exactly those it is meant for, whoever connects meanwhile,
\* provided that nobody does during the walk itself.  The newcomer is recognised by
\* its session's id among the keys of Connections, which another function chose.
SentToAddressees ==
    up /\ main = "sending" /\ ~torn => audience \cap inGame = Addressees

\* The server goes on accepting: a peer that dials gets a session with a running
\* read loop, unless it leaves, is turned away by an error, or the process ends.
KeepsAccepting ==
    \A p \in Peers :
        remote[p] = "dialing"
            ~> sessionId[p] # 0 \/ remote[p] \in {"away", "gone"} \/ ~up
=============================================================================

--------------------------- MODULE ConnectionsProofs ---------------------------
(***************************************************************************)
(* The table of connections for any number of peers, messages and posted   *)
(* closures.                                                               *)
(***************************************************************************)
EXTENDS Connections, FiniteSetTheorems, TLAPS

\* The sessions in m_deqConnections, and those that have an id.
Stored == Range(m_deqConnections)
Registered == Stored \cup (IF accepting = "added" THEN {newcomer} ELSE {})

\* The acceptor makes one session at a time, which is new.
NewcomerInv ==
    /\ accepting = "primed" <=> newcomer = NoPeer
    /\ newcomer \notin Stored

\* The counter has counted the registered sessions, behind it the table is empty,
\* and before it the two containers agree.
IdsInv ==
    /\ nIDCounter = FirstId + Cardinality(Registered)
    /\ \A n \in Ids : nIDCounter <= n => connections[n] = NoPeer
    /\ accepting = "added" =>
          nIDCounter - 1 \in Ids /\ connections[nIDCounter - 1] = newcomer
    /\ \A p \in Peers : sessionId[p] # 0 <=> p \in Stored
    /\ \A p \in Stored : sessionId[p] \in Ids /\ connections[sessionId[p]] = p

\* Whatever points to a session points to a stored one.
PointersInv ==
    /\ reading \subseteq Stored
    /\ writing \subseteq Stored
    /\ inGame \subseteq Stored
    /\ \A p \in Peers : posted[p] > 0 => p \in Stored
    /\ Range(messagesIn) \subseteq Stored
    /\ main # "idle" => handled \in Stored

\* No other key leads to a session: it is in the table once, as soon as it has an id
\* under that id.
TableInv ==
    \A n \in Ids : connections[n] # NoPeer =>
        /\ connections[n] \in Registered
        /\ connections[n] \in Stored => sessionId[connections[n]] = n
        /\ connections[n] = newcomer => n = nIDCounter - 1

ConnectionsInv ==
    TypeOK /\ NewcomerInv /\ IdsInv /\ TableInv /\ PointersInv /\ SentToAddressees

LEMMA IdsAreNumbers ==
    /\ Cardinality(Peers) \in Nat
    /\ Ids \subseteq Nat \ {0}
    /\ \A n \in Int : n \in Ids <=> FirstId <= n /\ n < FirstId + Cardinality(Peers)
<1>1. Cardinality(Peers) \in Nat
  BY PeersOK, FS_CardinalityType
<1> QED
  BY <1>1 DEF Ids, FirstId

\* What a queue holds after its three operations.
LEMMA QueueRanges ==
    ASSUME NEW S, NEW q \in Seq(S)
    PROVE  /\ Range(q) \subseteq S
           /\ \A x \in S : Range(Append(q, x)) = Range(q) \cup {x}
           /\ q # <<>> => Head(q) \in Range(q) /\ Range(Tail(q)) \subseteq Range(q)
<1>1. Range(q) \subseteq S
  BY DEF Range
<1>2. ASSUME NEW x \in S
      PROVE  Range(Append(q, x)) = Range(q) \cup {x}
  <2> DEFINE a == Append(q, x)
  <2>1. DOMAIN a = 1 .. Len(q) + 1 /\ DOMAIN q = 1 .. Len(q) /\ Len(q) \in Nat
    OBVIOUS
  <2>2. a[Len(q) + 1] = x /\ \A i \in 1 .. Len(q) : a[i] = q[i]
    OBVIOUS
  <2> HIDE DEF a
  <2>3. 1 .. Len(q) + 1 = (1 .. Len(q)) \cup {Len(q) + 1}
    BY <2>1
  <2>4. Range(a) = Range(q) \cup {x}
    BY <2>1, <2>2, <2>3 DEF Range
  <2> QED
    BY <2>4 DEF a
<1>3. ASSUME q # <<>>
      PROVE  Head(q) \in Range(q) /\ Range(Tail(q)) \subseteq Range(q)
  <2> DEFINE t == Tail(q)
  <2>1. Len(q) \in Nat \ {0} /\ DOMAIN q = 1 .. Len(q) /\ Head(q) = q[1]
    BY <1>3
  <2>2. DOMAIN t = 1 .. Len(q) - 1 /\ \A i \in 1 .. Len(q) - 1 : t[i] = q[i + 1]
    BY <1>3
  <2>3. 1 \in 1 .. Len(q) /\ \A i \in 1 .. Len(q) - 1 : i + 1 \in 1 .. Len(q)
    BY <2>1
  <2> HIDE DEF t
  <2>4. Range(t) \subseteq Range(q)
    BY <2>1, <2>2, <2>3 DEF Range
  <2>5. Head(q) \in Range(q)
    BY <2>1, <2>3 DEF Range
  <2> QED
    BY <2>4, <2>5 DEF t
<1> QED
  BY <1>1, <1>2, <1>3

LEMMA ConnectionsInvInit == Init => ConnectionsInv
<1> SUFFICES ASSUME Init PROVE ConnectionsInv
  OBVIOUS
<1>1. <<>> \in Seq(Peers) /\ Range(<<>>) = {}
  BY DEF Range
<1>2. Registered = {} /\ Cardinality(Registered) = 0
  BY <1>1, FS_EmptySet DEF Init, Registered, Stored
<1>3. TypeOK
  <2>1. connections \in [Ids -> Peers \cup {NoPeer}]
    BY DEF Init, NoConnection
  <2>2. /\ remote \in [Peers -> RemoteStates]
        /\ sessionId \in [Peers -> Nat]
        /\ posted \in [Peers -> Nat]
        /\ received \in [Peers -> Nat]
    BY DEF Init, RemoteStates
  <2>3. up \in BOOLEAN /\ torn \in BOOLEAN
    BY Zenon DEF Init
  <2> QED
    BY <1>1, <2>1, <2>2, <2>3 DEF Init, TypeOK, FirstId
<1>4. NewcomerInv /\ PointersInv /\ SentToAddressees
  BY <1>1, PeersOK
  DEF Init, NewcomerInv, PointersInv, Stored, SentToAddressees
<1>5. IdsInv /\ TableInv
  BY <1>1, <1>2 DEF Init, IdsInv, TableInv, Stored, NoConnection, FirstId
<1> QED
  BY <1>3, <1>4, <1>5 DEF ConnectionsInv

\* What the acceptor keeps is disturbed by nobody else.
LEMMA AcceptorAlone ==
    ASSUME ConnectionsInv, UNCHANGED acceptVars
    PROVE  /\ NewcomerInv' /\ IdsInv' /\ TableInv'
           /\ Stored' = Stored
<1> QED
  BY DEF ConnectionsInv, acceptVars, NewcomerInv, IdsInv, TableInv, Registered, Stored, Ids

LEMMA OnClientConnectedKeeps ==
    ASSUME ConnectionsInv, OnClientConnected
    PROVE  ConnectionsInv'
<1> USE DEF ConnectionsInv
<1>1. newcomer \in Peers /\ newcomer \notin Stored /\ Stored \subseteq Peers
  BY QueueRanges DEF OnClientConnected, TypeOK, NewcomerInv, Stored
<1>2. /\ Stored' = Stored
      /\ Registered = Stored
      /\ Registered' = Stored \cup {newcomer}
  BY DEF OnClientConnected, Registered, Stored
<1>3. /\ IsFiniteSet(Stored)
      /\ Cardinality(Stored) \in Nat
      /\ Cardinality(Registered') = Cardinality(Stored) + 1
      /\ Cardinality(Registered') <= Cardinality(Peers)
  <2>1. IsFiniteSet(Stored) /\ Registered' \in SUBSET Peers
    BY <1>1, <1>2, PeersOK, FS_Subset
  <2> QED
    BY <1>1, <1>2, <2>1, PeersOK, FS_Subset, FS_AddElement, FS_CardinalityType
<1>4. nIDCounter \in Ids /\ nIDCounter = FirstId + Cardinality(Stored)
  BY <1>2, <1>3, IdsAreNumbers DEF IdsInv, TypeOK, FirstId
<1>5. /\ connections[nIDCounter] = NoPeer
      /\ connections' = [connections EXCEPT ![nIDCounter] = newcomer]
  BY <1>4, IdsAreNumbers DEF OnClientConnected, IdsInv, TypeOK
<1>6. TypeOK'
  <2>1. connections' \in [Ids -> Peers \cup {NoPeer}]
    BY <1>1, <1>5 DEF TypeOK
  <2>3. nIDCounter' \in Nat
    BY DEF OnClientConnected, TypeOK
  <2>2. torn' \in BOOLEAN
    BY Zenon DEF OnClientConnected
  <2> QED
    BY <2>1, <2>2, <2>3 DEF OnClientConnected, TypeOK, ioVars, mainVars
<1>7. NewcomerInv'
  BY <1>1, <1>2, PeersOK DEF OnClientConnected, NewcomerInv
<1>8. IdsInv'
  <2>1. nIDCounter' = nIDCounter + 1 /\ nIDCounter' - 1 = nIDCounter
    BY DEF OnClientConnected, TypeOK
  <2>2. nIDCounter' = FirstId + Cardinality(Registered')
    BY <1>3, <1>4, <2>1 DEF FirstId
  <2>3. \A n \in Ids : nIDCounter' <= n => connections'[n] = NoPeer
    BY <1>4, <1>5, <2>1, IdsAreNumbers DEF IdsInv, TypeOK
  <2>4. connections'[nIDCounter' - 1] = newcomer'
    BY <1>4, <1>5, <2>1 DEF TypeOK, OnClientConnected
  <2>5. \A p \in Stored : sessionId[p] \in Ids /\ connections'[sessionId[p]] = p
    BY <1>1, <1>4, <1>5, PeersOK DEF IdsInv, TypeOK
  <2>6. Ids' = Ids /\ sessionId' = sessionId
    BY DEF Ids, OnClientConnected
  <2> QED
    BY <1>2, <1>4, <2>1, <2>2, <2>3, <2>4, <2>5, <2>6 DEF IdsInv
<1>9. PointersInv' /\ SentToAddressees'
  BY <1>2
  DEF OnClientConnected, PointersInv, SentToAddressees, Addressees, ioVars, mainVars
<1>10. TableInv'
  <2>1. \A n \in Ids : n # nIDCounter /\ connections'[n] # NoPeer
           => connections'[n] \in Stored /\ sessionId[connections'[n]] = n
    BY <1>2, <1>4, <1>5 DEF TableInv, TypeOK
  <2>2. connections'[nIDCounter] = newcomer /\ nIDCounter' - 1 = nIDCounter
    BY <1>4, <1>5 DEF OnClientConnected, TypeOK
  <2>3. Ids' = Ids /\ sessionId' = sessionId /\ newcomer' = newcomer
    BY DEF Ids, OnClientConnected
  <2> QED
    BY <1>1, <1>2, <2>1, <2>2, <2>3 DEF TableInv
<1> QED
  BY <1>6, <1>7, <1>8, <1>9, <1>10

LEMMA ConnectToClientKeeps ==
    ASSUME ConnectionsInv, ConnectToClient
    PROVE  ConnectionsInv'
<1> USE DEF ConnectionsInv
<1>1. newcomer \in Peers /\ newcomer \notin Stored
  BY DEF ConnectToClient, TypeOK, NewcomerInv
<1>2. Stored' = Stored \cup {newcomer}
  BY <1>1, QueueRanges DEF ConnectToClient, TypeOK, Stored
<1>3. Registered = Stored \cup {newcomer} /\ Registered' = Registered
  BY <1>2 DEF ConnectToClient, Registered
<1>4. /\ nIDCounter - 1 \in Ids
      /\ connections[nIDCounter - 1] = newcomer
      /\ nIDCounter - 1 \in Nat \ {0}
  BY IdsAreNumbers DEF ConnectToClient, IdsInv
<1>5. sessionId' = [sessionId EXCEPT ![newcomer] = nIDCounter - 1]
  BY DEF ConnectToClient
<1>6. TypeOK'
  <2>1. m_deqConnections' \in Seq(Peers)
    BY <1>1 DEF ConnectToClient, TypeOK
  <2> QED
    BY <1>1, <1>4, <1>5, <2>1 DEF ConnectToClient, TypeOK, mainVars
<1>7. NewcomerInv'
  <2>1. NoPeer \notin Stored'
    BY <1>1, <1>2, QueueRanges, PeersOK DEF TypeOK, Stored
  <2> QED
    BY <2>1 DEF ConnectToClient, NewcomerInv
<1>8. IdsInv'
  <2>1. \A p \in Peers : sessionId'[p] # 0 <=> p \in Stored'
    BY <1>1, <1>2, <1>4, <1>5 DEF IdsInv, TypeOK
  <2>2. \A p \in Stored' : sessionId'[p] \in Ids /\ connections[sessionId'[p]] = p
    <3>1. Stored \subseteq Peers
      BY QueueRanges DEF TypeOK, Stored
    <3> QED
      BY <1>1, <1>2, <1>4, <1>5, <3>1 DEF IdsInv, TypeOK
  <2>3. /\ accepting' = "primed" /\ Ids' = Ids
        /\ nIDCounter' = nIDCounter /\ connections' = connections
    BY DEF ConnectToClient, Ids
  <2> QED
    BY <1>3, <2>1, <2>2, <2>3 DEF IdsInv
<1>9. PointersInv' /\ SentToAddressees'
  BY <1>2 DEF ConnectToClient, PointersInv, SentToAddressees, Addressees, mainVars
<1>10. TableInv'
  <2>1. /\ Ids' = Ids /\ connections' = connections /\ nIDCounter' = nIDCounter
        /\ newcomer' = NoPeer
    BY DEF Ids, ConnectToClient
  <2>2. \A n \in Ids : connections[n] \in Stored' => sessionId'[connections[n]] = n
    <3> SUFFICES ASSUME NEW n \in Ids, connections[n] \in Stored'
                 PROVE  sessionId'[connections[n]] = n
      OBVIOUS
    <3>1. connections[n] # NoPeer /\ Stored \subseteq Peers
      BY <1>1, <1>2, QueueRanges, PeersOK DEF TypeOK, Stored
    <3>2. CASE connections[n] = newcomer
      BY <1>1, <1>5, <3>1, <3>2 DEF TableInv, TypeOK
    <3>3. CASE connections[n] \in Stored
      BY <1>1, <1>5, <3>1, <3>3 DEF TableInv, TypeOK
    <3> QED
      BY <1>2, <3>2, <3>3
  <2> QED
    BY <1>3, <2>1, <2>2 DEF TableInv
<1> QED
  BY <1>6, <1>7, <1>8, <1>9, <1>10

LEMMA AcceptKeeps ==
    ASSUME ConnectionsInv, NEW p \in Peers, Accept(p)
    PROVE  ConnectionsInv'
<1> USE DEF ConnectionsInv
<1>1. p \notin Stored /\ Stored' = Stored
  BY DEF Accept, Waiting, HasSession, Stored
<1>2. Registered' = Registered /\ Ids' = Ids
  BY <1>1 DEF Accept, Registered, Ids
<1>3. TypeOK'
  BY DEF Accept, TypeOK, RemoteStates, mainVars
<1>4. NewcomerInv'
  BY <1>1, PeersOK DEF Accept, NewcomerInv
<1>5. IdsInv'
  BY <1>1, <1>2 DEF Accept, IdsInv
<1>6. PointersInv' /\ SentToAddressees'
  BY <1>1 DEF Accept, PointersInv, SentToAddressees, Addressees, mainVars
<1>7. TableInv'
  <2>1. newcomer' = p /\ Ids' = Ids /\ UNCHANGED <<connections, sessionId, nIDCounter>>
    BY <1>2 DEF Accept
  <2>2. \A n \in Ids : connections[n] # NoPeer => connections[n] \in Stored
    BY DEF Accept, TableInv, Registered
  <2> QED
    BY <1>1, <1>2, <2>1, <2>2 DEF TableInv
<1> QED
  BY <1>3, <1>4, <1>5, <1>6, <1>7

\* The steps of the peers and of the io thread that leave the acceptor alone.
LEMMA IoKeeps ==
    ASSUME ConnectionsInv, NEW p \in Peers,
           \/ Dial(p) \/ Reset(p) \/ AcceptThrows(p) \/ AcceptError(p)
           \/ ReadDone(p) \/ ReadFails(p) \/ RunPosted(p) \/ WriteDone(p) \/ WriteFails(p)
    PROVE  ConnectionsInv'
<1> USE DEF ConnectionsInv
<1>1. UNCHANGED acceptVars
  BY DEF Dial, Reset, AcceptThrows, AcceptError, ReadDone, ReadFails, RunPosted,
         WriteDone, WriteFails
<1>2. NewcomerInv' /\ IdsInv' /\ TableInv' /\ Stored' = Stored
  BY <1>1, AcceptorAlone
<1>3. Dial(p) \/ Reset(p) \/ AcceptThrows(p) \/ AcceptError(p)
        => TypeOK' /\ PointersInv' /\ SentToAddressees'
  <2> SUFFICES ASSUME Dial(p) \/ Reset(p) \/ AcceptThrows(p) \/ AcceptError(p)
               PROVE  TypeOK' /\ PointersInv' /\ SentToAddressees'
    OBVIOUS
  <2>1. remote' \in [Peers -> RemoteStates]
    BY DEF Dial, Reset, AcceptThrows, AcceptError, TypeOK, RemoteStates
  <2>3. up' = up \/ up' = FALSE
    BY Zenon DEF Dial, Reset, AcceptThrows, AcceptError
  <2>2. UNCHANGED <<ioVars, posted, messagesIn, mainVars, torn>>
    BY DEF Dial, Reset, AcceptThrows, AcceptError
  <2>4. TypeOK'
    BY <1>1, <2>1, <2>2, <2>3 DEF TypeOK, acceptVars, ioVars, mainVars
  <2>5. PointersInv'
    BY <1>2, <2>2 DEF PointersInv, ioVars, mainVars
  <2>6. SentToAddressees'
    BY <2>2, <2>3 DEF SentToAddressees, Addressees, mainVars
  <2> QED
    BY <2>4, <2>5, <2>6
<1>4. ReadDone(p) => TypeOK' /\ PointersInv' /\ SentToAddressees'
  <2> SUFFICES ASSUME ReadDone(p)
               PROVE  TypeOK' /\ PointersInv' /\ SentToAddressees'
    OBVIOUS
  <2>1. messagesIn' \in Seq(Peers) /\ Range(messagesIn') = Range(messagesIn) \cup {p}
    BY QueueRanges DEF ReadDone, TypeOK
  <2>2. p \in Stored
    BY DEF ReadDone, PointersInv
  <2>3. TypeOK'
    BY <1>1, <2>1 DEF ReadDone, TypeOK, acceptVars, mainVars
  <2>4. PointersInv'
    BY <1>2, <2>1, <2>2 DEF ReadDone, PointersInv, mainVars
  <2>5. SentToAddressees'
    BY DEF ReadDone, SentToAddressees, Addressees, mainVars
  <2> QED
    BY <2>3, <2>4, <2>5
<1>5. ReadFails(p) \/ WriteDone(p) \/ WriteFails(p)
        => TypeOK' /\ PointersInv' /\ SentToAddressees'
  BY <1>1, <1>2
  DEF ReadFails, WriteDone, WriteFails, TypeOK, PointersInv, SentToAddressees,
      Addressees, acceptVars, mainVars
<1>6. RunPosted(p) => TypeOK' /\ PointersInv' /\ SentToAddressees'
  <2> SUFFICES ASSUME RunPosted(p)
               PROVE  TypeOK' /\ PointersInv' /\ SentToAddressees'
    OBVIOUS
  <2>1. posted[p] - 1 \in Nat /\ p \in Stored
    BY DEF RunPosted, TypeOK, PointersInv
  <2>2. posted' \in [Peers -> Nat] /\ \A q \in Peers : posted'[q] > 0 => q \in Stored
    BY <2>1 DEF RunPosted, TypeOK, PointersInv
  <2> QED
    BY <1>1, <1>2, <2>1, <2>2
    DEF RunPosted, TypeOK, PointersInv, SentToAddressees, Addressees, acceptVars,
        mainVars
<1> QED
  BY <1>2, <1>3, <1>4, <1>5, <1>6

LEMMA MainKeeps ==
    ASSUME ConnectionsInv, MainStep
    PROVE  ConnectionsInv'
<1> USE DEF ConnectionsInv
<1>1. UNCHANGED <<acceptVars, ioVars>>
  BY DEF MainStep, PopMessage, Reply, CSNotifyInGame, CSMoveUnit, GetNearbyConnections,
         BroadcastMessage
<1>2. NewcomerInv' /\ IdsInv' /\ TableInv' /\ Stored' = Stored
  BY <1>1, AcceptorAlone
<1>3. Stored \subseteq Connected
  BY QueueRanges, PeersOK DEF IdsInv, TypeOK, Stored, Connected
<1>4. CASE PopMessage
  <2>1. /\ Head(messagesIn) \in Range(messagesIn)
        /\ Range(Tail(messagesIn)) \subseteq Range(messagesIn)
        /\ Tail(messagesIn) \in Seq(Peers)
        /\ Range(messagesIn) \subseteq Peers
    BY <1>4, QueueRanges DEF PopMessage, TypeOK
  <2> QED
    BY <1>1, <1>2, <1>4, <2>1
    DEF PopMessage, TypeOK, PointersInv, SentToAddressees, acceptVars, ioVars
<1>5. CASE Reply \/ CSNotifyInGame
  <2>1. handled \in Stored /\ Stored \subseteq Peers
    BY <1>5, QueueRanges DEF Reply, CSNotifyInGame, PointersInv, TypeOK, Stored
  <2>2. posted' \in [Peers -> Nat] /\ \A q \in Peers : posted'[q] > 0 => q \in Stored
    <3>1. CASE Reply
      BY <2>1, <3>1 DEF Reply, TypeOK, PointersInv
    <3>2. CASE CSNotifyInGame
      <4>1. PICK others \in 0 .. MaxPosted - posted[handled] :
               posted' = [posted EXCEPT ![handled] = @ + others]
        BY <3>2 DEF CSNotifyInGame
      <4>2. others \in Nat
        BY <2>1, PeersOK DEF TypeOK
      <4> QED
        BY <2>1, <4>1, <4>2 DEF TypeOK, PointersInv
    <3> QED
      BY <1>5, <3>1, <3>2
  <2>3. TypeOK'
    <3>1. CASE Reply
      BY <1>1, <2>2, <3>1 DEF Reply, TypeOK, acceptVars, ioVars
    <3>2. CASE CSNotifyInGame
      <4>1. inGame' \subseteq Peers
        BY <2>1, <3>2 DEF CSNotifyInGame, TypeOK
      <4>2. torn' \in BOOLEAN
        BY <3>2, Zenon DEF CSNotifyInGame
      <4> QED
        BY <1>1, <2>2, <3>2, <4>1, <4>2 DEF CSNotifyInGame, TypeOK, acceptVars, ioVars
    <3> QED
      BY <1>5, <3>1, <3>2
  <2>4. PointersInv' /\ SentToAddressees'
    BY <1>1, <1>2, <1>5, <2>1, <2>2
    DEF Reply, CSNotifyInGame, PointersInv, SentToAddressees, ioVars
  <2> QED
    BY <1>2, <2>3, <2>4
<1>6. CASE CSMoveUnit
  BY <1>1, <1>2, <1>6
  DEF CSMoveUnit, TypeOK, PointersInv, SentToAddressees, acceptVars, ioVars
<1>7. CASE GetNearbyConnections
  <2>1. Connected \subseteq Peers /\ inGame \subseteq Connected
    BY <1>3 DEF TypeOK, Connected, PointersInv
  <2>2. audience' \subseteq Peers /\ up' \in BOOLEAN
    <3>1. Collected(ExcludeId) \subseteq Connected
      BY DEF Collected, Connected
    <3>2. audience' \subseteq Collected(ExcludeId) \cup audience
      BY <1>7 DEF GetNearbyConnections
    <3>3. up' \in BOOLEAN
      BY <1>7, Zenon DEF GetNearbyConnections
    <3> QED
      BY <2>1, <3>1, <3>2, <3>3 DEF TypeOK
  <2>3. Collected(ExcludeId) \cap inGame = Addressees
    <3>1. CASE news = "state"
      <4>1. ExcludeId = sessionId[handled] /\ Addressees = inGame \ {handled}
        BY <3>1 DEF ExcludeId, Addressees
      <4>2. handled \in Stored /\ inGame \subseteq Stored
        BY <1>7 DEF GetNearbyConnections, PointersInv
      <4>3. \A q \in Stored : q # NoPeer /\ sessionId[q] \in Ids /\ connections[sessionId[q]] = q
        BY QueueRanges, PeersOK DEF IdsInv, TypeOK, Stored
      <4>4. \A n \in Ids : connections[n] \in Stored => sessionId[connections[n]] = n
        BY <4>3 DEF TableInv
      <4>5. \A q \in Stored \ {handled} : q \in Collected(ExcludeId)
        BY <4>1, <4>2, <4>3 DEF Collected
      <4>6. handled \notin Collected(ExcludeId)
        BY <4>1, <4>2, <4>4 DEF Collected
      <4> QED
        BY <4>1, <4>2, <4>5, <4>6
    <3>2. CASE news # "state"
      <4>1. ExcludeId = 0 /\ Addressees = inGame
        BY <3>2 DEF ExcludeId, Addressees
      <4>2. Collected(ExcludeId) = Connected
        BY <4>1, IdsAreNumbers DEF Collected, Connected
      <4> QED
        BY <2>1, <4>1, <4>2
    <3> QED
      BY <3>1, <3>2
  <2>4. SentToAddressees'
    BY <1>7, <2>3 DEF GetNearbyConnections, SentToAddressees, Addressees
  <2>5. TypeOK' /\ PointersInv'
    BY <1>1, <1>2, <1>7, <2>2
    DEF GetNearbyConnections, TypeOK, PointersInv, acceptVars, ioVars
  <2> QED
    BY <1>2, <2>4, <2>5
<1>8. CASE BroadcastMessage
  <2>1. posted' \in [Peers -> Nat] /\ \A q \in Peers : posted'[q] > 0 => q \in Stored
    BY <1>8 DEF BroadcastMessage, TypeOK, PointersInv
  <2> QED
    BY <1>1, <1>2, <1>8, <2>1
    DEF BroadcastMessage, TypeOK, PointersInv, SentToAddressees, acceptVars, ioVars
<1> QED
  BY <1>4, <1>5, <1>6, <1>7, <1>8 DEF MainStep

LEMMA ConnectionsInvNext ==
    ASSUME ConnectionsInv, [Next]_vars
    PROVE  ConnectionsInv'
<1>1. CASE UNCHANGED vars
  BY <1>1, AcceptorAlone
  DEF vars, ConnectionsInv, TypeOK, PointersInv, SentToAddressees, Addressees,
      acceptVars, ioVars, mainVars
<1>2. CASE IoStep
  BY <1>2, OnClientConnectedKeeps, ConnectToClientKeeps, AcceptKeeps, IoKeeps DEF IoStep
<1>3. CASE MainStep
  BY <1>3, MainKeeps
<1>4. ASSUME NEW p \in Peers, Dial(p) \/ Reset(p)
      PROVE  ConnectionsInv'
  BY <1>4, IoKeeps
<1> QED
  BY <1>1, <1>2, <1>3, <1>4 DEF Next

LEMMA ConnectionsInvAlways == Spec => []ConnectionsInv
  BY ConnectionsInvInit, ConnectionsInvNext, PTL DEF Spec

\* The members of the server, the session and WorldManager keep their types: the
\* table never gets an id outside the peers' ids.
THEOREM ConnectionsTypes == Spec => []TypeOK
<1>1. ConnectionsInv => TypeOK
  BY DEF ConnectionsInv
<1> QED
  BY <1>1, ConnectionsInvAlways, PTL

\* No callback runs on a session that is gone, although session.h captures a raw
\* this: the deque keeps each session that ever started an operation.
THEOREM CallbacksAreSafe == Spec => []CallbacksFindTheirSession
<1>1. ConnectionsInv => CallbacksFindTheirSession
  BY DEF ConnectionsInv, PointersInv, Stored, TypeOK, CallbacksFindTheirSession, Owned
<1> QED
  BY <1>1, ConnectionsInvAlways, PTL

\* nIDCounter++ and nIDCounter - 1, two statements of two functions, name the same
\* id, and WorldManager::AddConnection never finds its key taken.
THEOREM SessionsAreFound == Spec => []FoundByItsId
<1>1. ConnectionsInv => FoundByItsId
  BY IdsAreNumbers DEF ConnectionsInv, IdsInv, Stored, FoundByItsId
<1> QED
  BY <1>1, ConnectionsInvAlways, PTL

\* A newcomer's state goes to every player in game but the newcomer, a movement to
\* every player in game, unless the walk through Connections was overlapped: the id
\* that session::id was given is the one key under which the table holds the session.
THEOREM BroadcastsReachAddressees == Spec => []SentToAddressees
<1>1. ConnectionsInv => SentToAddressees
  BY DEF ConnectionsInv
<1> QED
  BY <1>1, ConnectionsInvAlways, PTL
=============================================================================

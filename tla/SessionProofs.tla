---------------------------- MODULE SessionProofs ----------------------------
(***************************************************************************)
(* The read and write loops of a session, for any number of frames, body   *)
(* sizes and packets.  The invariant comes in two halves, one per loop: a  *)
(* step of one loop touches the other half only by closing the socket.     *)
(***************************************************************************)
EXTENDS Session, CommonLemmas

Temporaries == [size : Sizes \cup {0}, body : 0..MaxFrames, opcode : 0..MaxFrames]

\* Everything up to this frame has been read.
LastRead == frames - Len(arriving)

\* The read loop: frames arrive numbered, the header that was read is that of the
\* frame at the front, and what is queued comes from frames read before.
ReadInv ==
    /\ isOpen \in BOOLEAN /\ readAlive \in BOOLEAN
    /\ arriving \in Seq(Frames)
    /\ frames \in 0..MaxFrames
    /\ reading \in {"header", "body", "idle"}
    /\ temporaryIn \in Temporaries
    /\ messagesIn \in Seq(Packets)
    /\ Len(arriving) <= frames
    /\ \A i \in 1..Len(arriving) : arriving[i].number = LastRead + i
    /\ reading = "body" =>
          arriving # <<>> /\ arriving[1].size = temporaryIn.size /\ temporaryIn.size > 0
    /\ \A i \in 1..Len(messagesIn) :
          messagesIn[i].size > 0 => messagesIn[i].body <= LastRead
    /\ PacketsIntact
    /\ ReaderIsRunning

\* The write loop.
WriteInv ==
    /\ sends \in 0..MaxSends
    /\ posted \in Seq(1..MaxSends)
    /\ messagesOut \in Seq(1..MaxSends)
    /\ writes \in Seq(BOOLEAN) /\ Len(writes) <= 1
    /\ written \in Seq(1..MaxSends)
    /\ WriterIsRunning

LEMMA SessionInvInit == Init => ReadInv /\ WriteInv
<1> SUFFICES ASSUME Init PROVE ReadInv /\ WriteInv
  OBVIOUS
<1>1. /\ <<>> \in Seq(Frames) /\ <<>> \in Seq(Packets) /\ <<>> \in Seq(1..MaxSends)
      /\ <<>> \in Seq(BOOLEAN)
  BY EmptySeq
<1>2. Len(arriving) = 0 /\ Len(messagesIn) = 0 /\ Len(writes) = 0
  BY EmptySeq DEF Init
<1>3. 0 \in 0..MaxFrames /\ 0 \in 0..MaxSends
  BY BoundsOK
<1>4. temporaryIn \in Temporaries
  BY <1>3 DEF Init, Temporaries
<1>5. PacketsIntact /\ ReaderIsRunning /\ WriterIsRunning
  BY DEF Init, PacketsIntact, ReaderIsRunning, WriterIsRunning
<1>6. ReadInv
  BY <1>1, <1>2, <1>3, <1>4, <1>5 DEF Init, ReadInv
<1>7. WriteInv
  BY <1>1, <1>2, <1>3, <1>5 DEF Init, WriteInv
<1> QED
  BY <1>6, <1>7

-----------------------------------------------------------------------------
(* The read loop. *)

LEMMA RemoteSendsKeepsInv ==
    ASSUME ReadInv, RemoteSends
    PROVE  ReadInv'
<1> PICK size \in Sizes :
       arriving' = Append(arriving, [number |-> frames + 1, size |-> size])
  BY DEF RemoteSends
<1> DEFINE frame == [number |-> frames + 1, size |-> size]
<1>1. frames \in Nat /\ frames + 1 \in 1..MaxFrames /\ frames' = frames + 1
      /\ frames' \in 0..MaxFrames
  BY BoundsOK DEF RemoteSends, ReadInv
<1>2. frame \in Frames /\ frame.number = frames + 1
  BY <1>1 DEF Frames
<1> HIDE DEF frame
<1>3. /\ arriving' \in Seq(Frames)
      /\ Len(arriving) \in Nat
      /\ Len(arriving') = Len(arriving) + 1
      /\ \A i \in 1..Len(arriving) : arriving'[i] = arriving[i]
      /\ arriving'[Len(arriving) + 1] = frame
  BY <1>2, AppendProperties, LenProperties DEF ReadInv, frame
<1>4. LastRead' = LastRead /\ LastRead \in Int
  BY <1>1, <1>3 DEF LastRead
<1>5. \A i \in 1..Len(arriving') : arriving'[i].number = LastRead' + i
  <2> TAKE i \in 1..Len(arriving')
  <2>1. CASE i = Len(arriving) + 1
    BY <1>1, <1>2, <1>3, <1>4, <2>1 DEF LastRead
  <2>2. CASE i # Len(arriving) + 1
    BY <1>3, <1>4, <2>2 DEF ReadInv
  <2> QED
    BY <2>1, <2>2
<1>6. reading' = "body" =>
         arriving' # <<>> /\ arriving'[1].size = temporaryIn'.size /\ temporaryIn'.size > 0
  <2> SUFFICES ASSUME reading' = "body"
               PROVE  arriving' # <<>> /\ arriving'[1].size = temporaryIn'.size
                      /\ temporaryIn'.size > 0
    OBVIOUS
  <2>1. 1 \in 1..Len(arriving)
    BY EmptySeq DEF RemoteSends, ReadInv
  <2>2. arriving' # <<>>
    BY <1>3, EmptySeq
  <2> QED
    BY <1>3, <2>1, <2>2 DEF RemoteSends, ReadInv
<1>7. PacketsIntact' /\ ReaderIsRunning'
  BY DEF RemoteSends, ReadInv, PacketsIntact, ReaderIsRunning
<1> QED
  BY <1>1, <1>3, <1>4, <1>5, <1>6, <1>7 DEF RemoteSends, ReadInv

\* One packet more at the end of the queue, from a frame read since, or bodyless.
LEMMA QueuedIntact ==
    ASSUME ReadInv, NEW packet \in Packets,
           packet.size > 0 => packet.body = packet.opcode /\ packet.body > LastRead,
           messagesIn' = Append(messagesIn, packet)
    PROVE  /\ messagesIn' \in Seq(Packets)
           /\ PacketsIntact'
           /\ \A i \in 1..Len(messagesIn') :
                 /\ messagesIn'[i] \in Packets
                 /\ messagesIn'[i].size > 0 =>
                       messagesIn'[i].body <= LastRead \/ messagesIn'[i] = packet
<1>1. /\ messagesIn' \in Seq(Packets)
      /\ Len(messagesIn) \in Nat
      /\ Len(messagesIn') = Len(messagesIn) + 1
      /\ \A i \in 1..Len(messagesIn) : messagesIn'[i] = messagesIn[i]
      /\ messagesIn'[Len(messagesIn) + 1] = packet
  BY AppendProperties, LenProperties DEF ReadInv
<1>2. /\ DOMAIN messagesIn = 1..Len(messagesIn)
      /\ DOMAIN messagesIn' = 1..Len(messagesIn')
      /\ \A i \in 1..Len(messagesIn') : messagesIn'[i] \in Packets
  BY <1>1, LenProperties DEF ReadInv
<1>3. \A i \in 1..Len(messagesIn') : i \in 1..Len(messagesIn) \/ i = Len(messagesIn) + 1
  BY <1>1
<1>4. \A i \in 1..Len(messagesIn') :
         messagesIn'[i].size > 0 => messagesIn'[i].body <= LastRead \/ messagesIn'[i] = packet
  BY <1>1, <1>3 DEF ReadInv
<1>5. LastRead \in Int
  BY LenProperties DEF LastRead, ReadInv
<1>6. ASSUME NEW i \in 1..Len(messagesIn'), NEW j \in 1..Len(messagesIn'), i < j,
             messagesIn'[i].size > 0, messagesIn'[j].size > 0
      PROVE  messagesIn'[i].body < messagesIn'[j].body
  <2>1. i \in 1..Len(messagesIn)
    BY <1>1, <1>6
  <2>2. CASE j \in 1..Len(messagesIn)
    BY <1>1, <1>2, <1>6, <2>1, <2>2 DEF ReadInv, PacketsIntact
  <2>3. CASE j = Len(messagesIn) + 1
    <3>1. messagesIn[i].body <= LastRead /\ packet.body > LastRead
      BY <1>1, <1>6, <2>1, <2>3 DEF ReadInv
    <3>2. messagesIn'[i] = messagesIn[i] /\ messagesIn'[j] = packet
      BY <1>1, <2>1, <2>3
    <3>3. messagesIn[i].body \in Int /\ packet.body \in Int
      BY <1>2, <3>2 DEF Packets
    <3> QED
      BY <1>5, <3>1, <3>2, <3>3
  <2> QED
    BY <1>3, <2>2, <2>3
<1>7. \A i \in 1..Len(messagesIn') :
         messagesIn'[i].size > 0 => messagesIn'[i].body = messagesIn'[i].opcode
  BY <1>1, <1>2, <1>3 DEF ReadInv, PacketsIntact
<1> QED
  BY <1>1, <1>2, <1>4, <1>6, <1>7 DEF PacketsIntact

\* The frame at the front is read and leaves.
LEMMA FrontRead ==
    ASSUME ReadInv, arriving # <<>>
    PROVE  /\ arriving[1] = Head(arriving)
           /\ Head(arriving) \in Frames
           /\ Head(arriving).number = LastRead + 1
           /\ Tail(arriving) \in Seq(Frames)
           /\ Len(Tail(arriving)) \in Nat
           /\ Len(Tail(arriving)) <= frames
           /\ frames - Len(Tail(arriving)) = LastRead + 1
           /\ LastRead \in Int
           /\ \A i \in 1..Len(Tail(arriving)) :
                 Tail(arriving)[i].number = (LastRead + 1) + i
<1>1. /\ Len(arriving) \in Nat \ {0}
      /\ Head(arriving) \in Frames
      /\ Tail(arriving) \in Seq(Frames)
      /\ Len(Tail(arriving)) = Len(arriving) - 1
      /\ \A i \in 1..Len(Tail(arriving)) : Tail(arriving)[i] = arriving[i + 1]
  BY EmptySeq, HeadTailProperties DEF ReadInv
<1>2. arriving[1] = Head(arriving)
  BY DEF ReadInv
<1>3. LastRead \in Int /\ frames \in Nat
  BY <1>1, BoundsOK DEF LastRead, ReadInv
<1>4. Head(arriving).number = LastRead + 1
  BY <1>1, <1>2 DEF ReadInv
<1>5. ASSUME NEW i \in 1..Len(Tail(arriving))
      PROVE  Tail(arriving)[i].number = (LastRead + 1) + i
  <2>1. i + 1 \in 1..Len(arriving)
    BY <1>1
  <2>2. arriving[i + 1].number = LastRead + (i + 1)
    BY <2>1 DEF ReadInv
  <2> QED
    BY <1>1, <1>3, <2>2
<1>6. frames - Len(Tail(arriving)) = LastRead + 1 /\ Len(Tail(arriving)) <= frames
  BY <1>1, <1>3 DEF LastRead, ReadInv
<1> QED
  BY <1>1, <1>2, <1>3, <1>4, <1>5, <1>6

LEMMA HeaderReadKeepsInv ==
    ASSUME ReadInv, HeaderRead
    PROVE  ReadInv'
<1> DEFINE packet == [temporaryIn EXCEPT !.size = Head(arriving).size]
<1>1. arriving # <<>> /\ UNCHANGED <<isOpen, frames>>
  BY DEF HeaderRead
<1>2. /\ packet \in Packets /\ packet \in Temporaries
      /\ packet.size = Head(arriving).size /\ packet.size \in Nat
  BY <1>1, FrontRead, BoundsOK DEF ReadInv, Temporaries, Packets, Frames
<1> HIDE DEF packet
<1>3. CASE /\ packet.size > 0
           /\ temporaryIn' = packet
           /\ StartRead("body")
           /\ UNCHANGED <<arriving, messagesIn>>
  <2>1. LastRead' = LastRead
    BY <1>1, <1>3 DEF LastRead
  <2>2. ReaderIsRunning' /\ PacketsIntact'
    BY <1>3 DEF StartRead, ReaderIsRunning, PacketsIntact, ReadInv
  <2>3. arriving'[1].size = temporaryIn'.size /\ temporaryIn'.size > 0 /\ arriving' # <<>>
    BY <1>1, <1>2, <1>3, FrontRead
  <2> QED
    BY <1>1, <1>2, <1>3, <2>1, <2>2, <2>3 DEF StartRead, ReadInv
<1>4. CASE /\ packet.size = 0
           /\ arriving' = Tail(arriving)
           /\ AddToIncomingMessageQueue(packet)
  <2>1. /\ messagesIn' = Append(messagesIn, packet)
        /\ temporaryIn' = packet
        /\ reading' = "header" /\ readAlive' = isOpen
    BY <1>4 DEF AddToIncomingMessageQueue, StartRead
  <2>2. LastRead' = LastRead + 1 /\ LastRead \in Int
    BY <1>1, <1>4, FrontRead DEF LastRead
  <2>3. \A j \in 1..Len(arriving') : arriving'[j].number = LastRead' + j
    BY <1>1, <1>4, <2>2, FrontRead
  <2>4. /\ messagesIn' \in Seq(Packets)
        /\ PacketsIntact'
        /\ \A j \in 1..Len(messagesIn') :
              /\ messagesIn'[j] \in Packets
              /\ messagesIn'[j].size > 0 =>
                    messagesIn'[j].body <= LastRead \/ messagesIn'[j] = packet
    BY <1>2, <1>4, <2>1, QueuedIntact
  <2>5. \A j \in 1..Len(messagesIn') :
           messagesIn'[j].size > 0 => messagesIn'[j].body <= LastRead'
    <3>1. \A j \in 1..Len(messagesIn') : messagesIn'[j].body \in Int
      BY <2>4, BoundsOK DEF Packets
    <3> QED
      BY <1>4, <2>2, <2>4, <3>1
  <2>6. ReaderIsRunning'
    BY <2>1 DEF ReaderIsRunning
  <2> QED
    BY <1>1, <1>2, <1>4, <2>1, <2>3, <2>4, <2>5, <2>6, FrontRead DEF ReadInv
<1> QED
  BY <1>3, <1>4 DEF HeaderRead, packet

LEMMA BodyReadKeepsInv ==
    ASSUME ReadInv, BodyRead
    PROVE  ReadInv'
<1> DEFINE number == Head(arriving).number
           packet == [temporaryIn EXCEPT !.body = number, !.opcode = number]
           short == [temporaryIn EXCEPT !.body = number]
<1>1. /\ arriving # <<>> /\ UNCHANGED <<isOpen, frames>>
      /\ arriving' = Tail(arriving)
      /\ temporaryIn.size = Head(arriving).size /\ temporaryIn.size > 0
  BY FrontRead DEF BodyRead, ReadInv
<1>2. number \in 1..MaxFrames /\ number = LastRead + 1 /\ LastRead \in Int
      /\ temporaryIn.size \in Sizes /\ temporaryIn.size \in Nat
  BY <1>1, FrontRead, BoundsOK DEF Frames
<1>3. LastRead' = LastRead + 1
  BY <1>1, FrontRead DEF LastRead
<1>4. \A j \in 1..Len(arriving') : arriving'[j].number = LastRead' + j
  BY <1>1, <1>3, FrontRead
<1>5. /\ packet \in Packets /\ packet \in Temporaries
      /\ packet.body = number /\ packet.opcode = number
  <2>1. number \in 0..MaxFrames
    BY <1>2, BoundsOK
  <2>2. temporaryIn \in [size : Sizes \cup {0}, body : 0..MaxFrames, opcode : 0..MaxFrames]
    BY DEF ReadInv, Temporaries
  <2> HIDE DEF number
  <2>3. /\ packet \in Temporaries
        /\ packet.size = temporaryIn.size
        /\ packet.body = number /\ packet.opcode = number
    BY <2>1, <2>2 DEF Temporaries
  <2>4. temporaryIn \in Packets
    BY <1>2, <2>2 DEF Packets
  <2>5. packet \in Packets
    BY <2>1, <2>4 DEF Packets
  <2> QED
    BY <2>3, <2>5
<1>6. short \in Temporaries /\ short.size = temporaryIn.size
  BY <1>2 DEF ReadInv, Temporaries
<1> HIDE DEF packet, short, number
<1>7. CASE temporaryIn.size >= MinimalBody
  <2>1. /\ messagesIn' = Append(messagesIn, packet)
        /\ temporaryIn' = packet
        /\ reading' = "header" /\ readAlive' = isOpen
    BY <1>7 DEF BodyRead, AddToIncomingMessageQueue, StartRead, packet, number
  <2>2. /\ messagesIn' \in Seq(Packets)
        /\ PacketsIntact'
        /\ \A j \in 1..Len(messagesIn') :
              /\ messagesIn'[j] \in Packets
              /\ messagesIn'[j].size > 0 =>
                    messagesIn'[j].body <= LastRead \/ messagesIn'[j] = packet
    BY <1>2, <1>5, <2>1, QueuedIntact
  <2>3. \A j \in 1..Len(messagesIn') :
           messagesIn'[j].size > 0 => messagesIn'[j].body <= LastRead'
    BY <1>2, <1>3, <1>5, <2>2 DEF Packets
  <2>4. ReaderIsRunning'
    BY <2>1 DEF ReaderIsRunning
  <2> QED
    BY <1>1, <1>4, <1>5, <2>1, <2>2, <2>3, <2>4, FrontRead DEF ReadInv
<1>8. CASE ~(temporaryIn.size >= MinimalBody)
  <2>1. /\ temporaryIn' = short
        /\ reading' = "idle"
        /\ UNCHANGED <<readAlive, messagesIn>>
    BY <1>8 DEF BodyRead, short, number
  <2>2. ReaderIsRunning'
    BY <1>1, <1>2, <1>6, <1>8, <2>1 DEF ReaderIsRunning, MinimalBody
  <2>3. \A j \in 1..Len(messagesIn') :
           messagesIn'[j].size > 0 => messagesIn'[j].body <= LastRead'
    <3>1. \A j \in 1..Len(messagesIn) : messagesIn[j] \in Packets
      BY LenProperties DEF ReadInv
    <3> QED
      BY <1>2, <1>3, <2>1, <3>1 DEF ReadInv, Packets
  <2>4. PacketsIntact'
    BY <2>1 DEF ReadInv, PacketsIntact
  <2> QED
    BY <1>1, <1>4, <1>6, <2>1, <2>2, <2>3, <2>4, FrontRead DEF ReadInv
<1> QED
  BY <1>7, <1>8

\* Closing the socket ends the read loop's duty; nothing else of it changes.
LEMMA ClosingKeepsReadInv ==
    ASSUME ReadInv, isOpen' \in BOOLEAN, isOpen' => isOpen,
           \/ UNCHANGED readVars
           \/ /\ ~isOpen' /\ reading' = "idle"
              /\ UNCHANGED <<arriving, frames, readAlive, temporaryIn, messagesIn>>
    PROVE  ReadInv'
<1>1. LastRead' = LastRead
  BY DEF readVars, LastRead
<1>2. PacketsIntact' /\ ReaderIsRunning'
  BY DEF readVars, ReadInv, PacketsIntact, ReaderIsRunning
<1> QED
  BY <1>1, <1>2 DEF readVars, ReadInv

-----------------------------------------------------------------------------
(* The write loop. *)

LEMMA ClosingKeepsWriteInv ==
    ASSUME WriteInv, isOpen' => isOpen, UNCHANGED writeVars
    PROVE  WriteInv'
BY DEF WriteInv, WriterIsRunning, writeVars

LEMMA SendPacketKeepsInv ==
    ASSUME WriteInv, SendPacket
    PROVE  WriteInv'
<1>1. sends + 1 \in 1..MaxSends /\ sends' \in 0..MaxSends
  BY BoundsOK DEF SendPacket, WriteInv
<1>2. posted' \in Seq(1..MaxSends)
  BY <1>1, AppendProperties DEF SendPacket, WriteInv
<1> QED
  BY <1>1, <1>2 DEF SendPacket, WriteInv, WriterIsRunning

\* A queue of flags of length at most one.
LEMMA OneFlag ==
    ASSUME NEW w \in Seq(BOOLEAN), Len(w) <= 1, NEW b \in BOOLEAN
    PROVE  /\ w = <<>> => /\ Append(w, b) \in Seq(BOOLEAN)
                          /\ Len(Append(w, b)) <= 1
                          /\ Append(w, b) # <<>>
           /\ w # <<>> => Tail(w) = <<>>
<1>1. Append(w, b) \in Seq(BOOLEAN) /\ Len(Append(w, b)) = Len(w) + 1
  BY AppendProperties
<1>2. w = <<>> => Len(w) = 0
  BY EmptySeq
<1>3. w = <<>> => Append(w, b) # <<>>
  BY <1>1, <1>2, EmptySeq
<1>4. w # <<>> => Tail(w) = <<>>
  <2> SUFFICES ASSUME w # <<>> PROVE Tail(w) = <<>>
    OBVIOUS
  <2>1. Len(w) = 1
    <3>1. Len(w) \in Nat \ {0}
      BY EmptySeq
    <3> QED
      BY <3>1
  <2>2. Tail(w) \in Seq(BOOLEAN) /\ Len(Tail(w)) = 0
    BY <2>1, HeadTailProperties
  <2> QED
    BY <2>2, EmptySeq
<1> QED
  BY <1>1, <1>2, <1>3, <1>4

LEMMA RunPostedKeepsInv ==
    ASSUME WriteInv, isOpen \in BOOLEAN, RunPosted
    PROVE  WriteInv'
<1>1. Head(posted) \in 1..MaxSends /\ Tail(posted) \in Seq(1..MaxSends)
  BY HeadTailProperties DEF RunPosted, WriteInv
<1>2. messagesOut' \in Seq(1..MaxSends) /\ messagesOut' # <<>>
  <2>1. /\ messagesOut' \in Seq(1..MaxSends)
        /\ Len(messagesOut') = Len(messagesOut) + 1
        /\ Len(messagesOut) \in Nat
    BY <1>1, AppendProperties, LenProperties DEF RunPosted, WriteInv
  <2> QED
    BY <2>1, EmptySeq
<1>3. CASE messagesOut = <<>>
  <2>1. writes = <<>> /\ writes' = Append(writes, isOpen)
    BY <1>3 DEF RunPosted, WriteInv, WriterIsRunning
  <2>2. writes' \in Seq(BOOLEAN) /\ Len(writes') <= 1 /\ writes' # <<>>
    BY <2>1, OneFlag DEF WriteInv
  <2> QED
    BY <1>1, <1>2, <2>2 DEF RunPosted, WriteInv, WriterIsRunning
<1>4. CASE messagesOut # <<>>
  BY <1>1, <1>2, <1>4 DEF RunPosted, WriteInv, WriterIsRunning
<1> QED
  BY <1>3, <1>4

LEMMA WriteDoneKeepsInv ==
    ASSUME WriteInv, isOpen \in BOOLEAN, WriteDone
    PROVE  WriteInv'
<1>1. messagesOut # <<>> /\ writes # <<>>
  BY DEF WriteDone, WriteInv, WriterIsRunning
<1>2. /\ Head(messagesOut) \in 1..MaxSends
      /\ messagesOut' \in Seq(1..MaxSends)
  BY <1>1, HeadTailProperties DEF WriteDone, WriteInv
<1>3. written' \in Seq(1..MaxSends)
  BY <1>2, AppendProperties DEF WriteDone, WriteInv
<1>4. Tail(writes) = <<>>
  BY <1>1, OneFlag DEF WriteInv
<1>5. /\ writes' \in Seq(BOOLEAN) /\ Len(writes') <= 1
      /\ (messagesOut' # <<>>) <=> (writes' # <<>>)
  <2>1. <<>> \in Seq(BOOLEAN) /\ Len(<<>>) = 0
    BY EmptySeq
  <2>2. /\ Append(<<>>, isOpen) \in Seq(BOOLEAN)
        /\ Len(Append(<<>>, isOpen)) <= 1
        /\ Append(<<>>, isOpen) # <<>>
    BY <2>1, OneFlag
  <2>3. CASE messagesOut' = <<>>
    <3>1. writes' = <<>>
      BY <1>4, <2>3 DEF WriteDone
    <3> QED
      BY <2>1, <2>3, <3>1
  <2>4. CASE messagesOut' # <<>>
    <3>1. writes' = Append(<<>>, isOpen)
      BY <1>4, <2>4 DEF WriteDone
    <3> QED
      BY <2>2, <2>4, <3>1
  <2> QED
    BY <2>3, <2>4
<1> QED
  BY <1>2, <1>3, <1>5 DEF WriteDone, WriteInv, WriterIsRunning

LEMMA WriteFailsKeepsInv ==
    ASSUME WriteInv, WriteFails
    PROVE  WriteInv'
<1>1. writes' = <<>>
  BY OneFlag DEF WriteFails, WriteInv
<1>2. <<>> \in Seq(BOOLEAN) /\ Len(<<>>) = 0
  BY EmptySeq
<1> QED
  BY <1>1, <1>2 DEF WriteFails, WriteInv, WriterIsRunning

-----------------------------------------------------------------------------
(* The theorems. *)

\* The invariant of both loops.
THEOREM SessionInvariant == Spec => [](ReadInv /\ WriteInv)
<1>1. ASSUME ReadInv, WriteInv, [Next]_vars
      PROVE  ReadInv' /\ WriteInv'
  <2>1. isOpen \in BOOLEAN
    BY <1>1 DEF ReadInv
  <2>2. CASE RemoteSends \/ HeaderRead \/ BodyRead
    <3>1. UNCHANGED <<isOpen, writeVars>>
      BY <2>2 DEF RemoteSends, HeaderRead, BodyRead
    <3> QED
      BY <1>1, <2>2, <3>1, RemoteSendsKeepsInv, HeaderReadKeepsInv,
         BodyReadKeepsInv, ClosingKeepsWriteInv
  <2>3. CASE ReadFails
    BY <1>1, <2>3, ClosingKeepsReadInv, ClosingKeepsWriteInv DEF ReadFails
  <2>4. CASE SendPacket \/ RunPosted \/ WriteDone
    <3>1. UNCHANGED <<isOpen, readVars>>
      BY <2>4 DEF SendPacket, RunPosted, WriteDone
    <3> QED
      BY <1>1, <2>1, <2>4, <3>1, SendPacketKeepsInv, RunPostedKeepsInv,
         WriteDoneKeepsInv, ClosingKeepsReadInv
  <2>5. CASE WriteFails
    BY <1>1, <2>5, WriteFailsKeepsInv, ClosingKeepsReadInv DEF WriteFails
  <2>6. CASE UNCHANGED vars
    BY <1>1, <2>1, <2>6, ClosingKeepsReadInv, ClosingKeepsWriteInv DEF vars
  <2> QED
    BY <1>1, <2>2, <2>3, <2>4, <2>5, <2>6 DEF Next
<1>2. ReadInv /\ WriteInv /\ [Next]_vars => (ReadInv /\ WriteInv)'
  BY <1>1
<1> QED
  BY <1>2, SessionInvInit, PTL DEF Spec

\* The members of a session keep their types, and never are two writes outstanding
\* on its socket (PushPacket in session.h).
THEOREM SessionTypeOK == Spec => []TypeOK
<1>1. ReadInv /\ WriteInv => TypeOK
  BY DEF ReadInv, WriteInv, TypeOK, Temporaries
<1> QED
  BY <1>1, SessionInvariant, PTL

\* A non-empty m_qMessagesOut has a write outstanding, which is what SendPacket
\* infers, and a write outstanding has its packet at the front.
THEOREM SessionWriterIsRunning == Spec => []WriterIsRunning
<1>1. WriteInv => WriterIsRunning
  BY DEF WriteInv
<1> QED
  BY <1>1, SessionInvariant, PTL

\* The read loop of an open session runs, but for a body too short for an opcode.
THEOREM SessionReaderIsRunning == Spec => []ReaderIsRunning
<1>1. ReadInv => ReaderIsRunning
  BY DEF ReadInv
<1> QED
  BY <1>1, SessionInvariant, PTL

\* Packets with a body carry one frame's body and opcode, in the order of arrival.
THEOREM SessionPacketsIntact == Spec => []PacketsIntact
<1>1. ReadInv => PacketsIntact
  BY DEF ReadInv
<1> QED
  BY <1>1, SessionInvariant, PTL

\* What handlers send is written once and in order: the posted closures, the
\* outgoing queue and the socket form one FIFO queue.
THEOREM SessionWrittenInOrder == Spec => WrittenInOrder
<1> DEFINE S == 1..MaxSends
           given == written \o messagesOut \o posted
<1>1. Init => Out!Init
  BY DEF Init, Out!Init
<1>2. ASSUME WriteInv, [Next]_vars
      PROVE  [Out!Next]_(Out!vars)
  <2>1. written \in Seq(S) /\ messagesOut \in Seq(S) /\ posted \in Seq(S)
        /\ written \o messagesOut \in Seq(S)
    BY <1>2, ConcatProperties DEF WriteInv
  <2>2. given = written \o (messagesOut \o posted) /\ messagesOut \o posted \in Seq(S)
    BY <2>1, ConcatAssociative, ConcatProperties
  <2>3. CASE SendPacket
    <3>1. sends + 1 \in S
      BY <1>2, <2>3, BoundsOK DEF SendPacket, WriteInv
    <3>2. given' = Append(given, sends + 1)
      BY <2>1, <2>3, <3>1, PushIsGive DEF SendPacket
    <3> QED
      BY <2>3, <3>1, <3>2 DEF SendPacket, Out!Give, Out!Next
  <2>4. CASE RunPosted
    <3>1. posted # <<>> /\ posted' = Tail(posted)
          /\ messagesOut' = Append(messagesOut, Head(posted)) /\ written' = written
      BY <2>4 DEF RunPosted
    <3>2. Head(posted) \in S
      BY <2>1, <3>1, HeadTailProperties
    <3>3. written \o Append(messagesOut, Head(posted))
             = Append(written \o messagesOut, Head(posted))
      BY <2>1, <3>2, PushIsGive
    <3>4. Append(written \o messagesOut, Head(posted)) \o Tail(posted) = given
      BY <2>1, <3>1, PopMovesHead
    <3> QED
      BY <3>1, <3>3, <3>4 DEF Out!vars
  <2>5. CASE WriteDone
    <3>1. /\ messagesOut # <<>>
          /\ written' = Append(written, Head(messagesOut))
          /\ messagesOut' = Tail(messagesOut) /\ posted' = posted
      BY <1>2, <2>5 DEF WriteDone, WriteInv, WriterIsRunning
    <3>2. /\ written' \o messagesOut' = written \o messagesOut
          /\ Len(written) < Len(written \o messagesOut)
          /\ (written \o messagesOut)[Len(written) + 1] = Head(messagesOut)
      BY <2>1, <3>1, PopMovesHead
    <3>3. given' = given
      BY <3>1, <3>2
    <3>4. /\ Len(written) < Len(given)
          /\ given[Len(written) + 1] = Head(messagesOut)
      <4>1. /\ Len(given) = Len(written \o messagesOut) + Len(posted)
            /\ Len(posted) \in Nat /\ Len(written) \in Nat
            /\ Len(written \o messagesOut) \in Nat
        BY <2>1, ConcatProperties, LenProperties
      <4>2. Len(written) + 1 \in 1..Len(written \o messagesOut) + Len(posted)
            /\ Len(written) + 1 <= Len(written \o messagesOut)
        BY <3>2, <4>1
      <4>3. given[Len(written) + 1] = (written \o messagesOut)[Len(written) + 1]
        BY <2>1, <4>2, ConcatProperties
      <4> QED
        BY <3>2, <4>1, <4>3
    <3> QED
      BY <3>1, <3>3, <3>4 DEF Out!Take, Out!Next
  <2>6. CASE UNCHANGED <<posted, messagesOut, written>>
    BY <2>6 DEF Out!vars
  <2> QED
    BY <1>2, <2>3, <2>4, <2>5, <2>6
       DEF Next, RemoteSends, HeaderRead, BodyRead, ReadFails, WriteFails, vars, writeVars
<1> QED
  BY <1>1, <1>2, SessionInvariant, PTL DEF Spec, WrittenInOrder, Out!Spec
=============================================================================

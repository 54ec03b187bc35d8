------------------------------- MODULE Session -------------------------------
(***************************************************************************)
(* One session (session.h): the read loop and the write loop that its io   *)
(* thread drives with asio callbacks, the sends that the main thread posts *)
(* to it, and the remote end.  A callback runs to its end before the next, *)
(* since one thread runs the io_context.                                   *)
(*                                                                         *)
(* An asynchronous operation that was started on an open socket completes  *)
(* or fails; one started on a closed socket fails.  Closing the socket     *)
(* makes the outstanding operations fail, unless they completed before.    *)
(***************************************************************************)
EXTENDS Naturals, Sequences

CONSTANTS
    Sizes,        \* the body sizes that frame headers announce
    MaxFrames,    \* bound on the frames the remote sends
    MaxSends      \* bound on the packets the server sends

ASSUME BoundsOK ==
    /\ Sizes \subseteq Nat
    /\ MaxFrames \in Nat
    /\ MaxSends \in Nat

VARIABLES
    isOpen,      \* m_socket.is_open()
    arriving,    \* the frames the remote sent and the session has not read
    frames,      \* how many frames the remote sent
    reading,     \* the outstanding read: "header", "body", or "idle"
    readAlive,   \* that read was started on an open socket
    temporaryIn, \* m_msgTemporaryIn: header size, and the frames (0: none) that
                 \* its body and opcode were filled from
    messagesIn,  \* what was pushed onto m_qMessagesIn
    sends,       \* how many packets the handlers passed to SendPacket
    posted,      \* the SendPacket closures that wait in the io_context
    messagesOut, \* m_qMessagesOut
    writes,      \* the outstanding writes: was each started on an open socket
    written      \* the packets written to the socket

readVars == <<arriving, frames, reading, readAlive, temporaryIn, messagesIn>>
writeVars == <<sends, posted, messagesOut, writes, written>>
vars == <<isOpen, readVars, writeVars>>

MinimalBody == 2   \* sizeof(uint16_t)

Frames == [number : 1..MaxFrames, size : Sizes]
Packets == [size : Sizes, body : 0..MaxFrames, opcode : 0..MaxFrames]

\* After ConnectToClient, which starts the read loop.
Init ==
    /\ isOpen = TRUE
    /\ arriving = <<>>
    /\ frames = 0
    /\ reading = "header"
    /\ readAlive = TRUE
    /\ temporaryIn = [size |-> 0, body |-> 0, opcode |-> 0]
    /\ messagesIn = <<>>
    /\ sends = 0
    /\ posted = <<>>
    /\ messagesOut = <<>>
    /\ writes = <<>>
    /\ written = <<>>

-----------------------------------------------------------------------------
(* Reading. *)

RemoteSends ==
    /\ frames < MaxFrames
    /\ \E size \in Sizes :
          arriving' = Append(arriving, [number |-> frames + 1, size |-> size])
    /\ frames' = frames + 1
    /\ UNCHANGED <<isOpen, reading, readAlive, temporaryIn, messagesIn, writeVars>>

StartRead(what) == reading' = what /\ readAlive' = isOpen

\* AddToIncomingMessageQueue copies the packet and reads the next header.
AddToIncomingMessageQueue(packet) ==
    /\ messagesIn' = Append(messagesIn, packet)
    /\ temporaryIn' = packet
    /\ StartRead("header")

\* The callback of ReadHeader.  A frame without a body is queued as it is, with
\* the body and the opcode of the frame before.
HeaderRead ==
    /\ reading = "header" /\ readAlive
    /\ arriving # <<>>
    /\ LET packet == [temporaryIn EXCEPT !.size = Head(arriving).size]
       IN  \/ /\ packet.size > 0
              /\ temporaryIn' = packet
              /\ StartRead("body")
              /\ UNCHANGED <<arriving, messagesIn>>
           \/ /\ packet.size = 0
              /\ arriving' = Tail(arriving)
              /\ AddToIncomingMessageQueue(packet)
    /\ UNCHANGED <<isOpen, frames, writeVars>>

BodyReadOpcodeKept ==
    /\ reading = "body" /\ readAlive
    /\ LET number == Head(arriving).number
       IN  IF temporaryIn.size >= MinimalBody
           THEN AddToIncomingMessageQueue([temporaryIn EXCEPT !.body = number])
           ELSE /\ temporaryIn' = [temporaryIn EXCEPT !.body = number]
                /\ reading' = "idle"
                /\ UNCHANGED <<readAlive, messagesIn>>
    /\ arriving' = Tail(arriving)
    /\ UNCHANGED <<isOpen, frames, writeVars>>

BodyReadNeedsMore ==
    /\ reading = "body" /\ readAlive
    /\ LET number == Head(arriving).number
       IN  IF temporaryIn.size > MinimalBody
           THEN AddToIncomingMessageQueue(
                   [temporaryIn EXCEPT !.body = number, !.opcode = number])
           ELSE /\ temporaryIn' = [temporaryIn EXCEPT !.body = number]
                /\ reading' = "idle"
                /\ UNCHANGED <<readAlive, messagesIn>>
    /\ arriving' = Tail(arriving)
    /\ UNCHANGED <<isOpen, frames, writeVars>>

\* The callback of ReadBody.  A body too short for an opcode is neither queued
\* nor followed by another read.
BodyRead ==
    /\ reading = "body" /\ readAlive
    /\ LET number == Head(arriving).number
       IN  IF temporaryIn.size >= MinimalBody
           THEN AddToIncomingMessageQueue(
                   [temporaryIn EXCEPT !.body = number, !.opcode = number])
           ELSE /\ temporaryIn' = [temporaryIn EXCEPT !.body = number]
                /\ reading' = "idle"
                /\ UNCHANGED <<readAlive, messagesIn>>
    /\ arriving' = Tail(arriving)
    /\ UNCHANGED <<isOpen, frames, writeVars>>

\* Either callback with an error: the remote is gone, or the socket is closed.
ReadFails ==
    /\ reading # "idle"
    /\ reading' = "idle"
    /\ isOpen' = FALSE
    /\ UNCHANGED <<arriving, frames, readAlive, temporaryIn, messagesIn, writeVars>>

-----------------------------------------------------------------------------
(* Writing. *)

\* SendPacket, called by handlers on the main thread.
SendPacket ==
    /\ sends < MaxSends
    /\ sends' = sends + 1
    /\ posted' = Append(posted, sends + 1)
    /\ UNCHANGED <<isOpen, readVars, messagesOut, writes, written>>

RunPostedTestsLate ==
    /\ posted # <<>>
    /\ posted' = Tail(posted)
    /\ messagesOut' = Append(messagesOut, Head(posted))
    /\ writes' = IF messagesOut' = <<>> THEN Append(writes, isOpen) ELSE writes
    /\ UNCHANGED <<isOpen, readVars, sends, written>>

\* The posted closure: PushPacket only if nothing is being written.
RunPosted ==
    /\ posted # <<>>
    /\ posted' = Tail(posted)
    /\ messagesOut' = Append(messagesOut, Head(posted))
    /\ writes' = IF messagesOut = <<>> THEN Append(writes, isOpen) ELSE writes
    /\ UNCHANGED <<isOpen, readVars, sends, written>>

WriteDoneStops ==
    /\ writes # <<>> /\ Head(writes)
    /\ written' = Append(written, Head(messagesOut))
    /\ messagesOut' = Tail(messagesOut)
    /\ writes' = Tail(writes)
    /\ UNCHANGED <<isOpen, readVars, sends, posted>>

WriteDonePopsBack ==
    /\ writes # <<>> /\ Head(writes)
    /\ written' = Append(written, Head(messagesOut))
    /\ messagesOut' = SubSeq(messagesOut, 1, Len(messagesOut) - 1)
    /\ writes' = IF messagesOut' = <<>> THEN Tail(writes)
                 ELSE Append(Tail(writes), isOpen)
    /\ UNCHANGED <<isOpen, readVars, sends, posted>>

\* The callback of PushPacket.
WriteDone ==
    /\ writes # <<>> /\ Head(writes)
    /\ written' = Append(written, Head(messagesOut))
    /\ messagesOut' = Tail(messagesOut)
    /\ writes' = IF messagesOut' = <<>> THEN Tail(writes)
                 ELSE Append(Tail(writes), isOpen)
    /\ UNCHANGED <<isOpen, readVars, sends, posted>>

\* The same callback with an error: the packet stays at the front of the queue.
WriteFails ==
    /\ writes # <<>>
    /\ writes' = Tail(writes)
    /\ isOpen' = FALSE
    /\ UNCHANGED <<readVars, sends, posted, messagesOut, written>>

-----------------------------------------------------------------------------
Next ==
    \/ RemoteSends \/ HeaderRead \/ BodyRead \/ ReadFails
    \/ SendPacket \/ RunPosted \/ WriteDone \/ WriteFails

Spec == Init /\ [][Next]_vars

\* The io thread runs what was posted to it, and a write completes or fails.  Nobody
\* has to send, and a connection need not end.
Fairness ==
    /\ WF_vars(RunPosted)
    /\ WF_vars(WriteDone \/ WriteFails)

FairSpec == Spec /\ Fairness

-----------------------------------------------------------------------------
(* Properties. *)

\* The session's members keep their types; at most one write is outstanding, as
\* async_write demands of its callers.
TypeOK ==
    /\ isOpen \in BOOLEAN
    /\ arriving \in Seq(Frames)
    /\ frames \in 0..MaxFrames
    /\ reading \in {"header", "body", "idle"}
    /\ readAlive \in BOOLEAN
    /\ temporaryIn \in [size : Sizes \cup {0}, body : 0..MaxFrames, opcode : 0..MaxFrames]
    /\ messagesIn \in Seq(Packets)
    /\ sends \in 0..MaxSends
    /\ posted \in Seq(1..MaxSends)
    /\ messagesOut \in Seq(1..MaxSends)
    /\ writes \in Seq(BOOLEAN) /\ Len(writes) <= 1
    /\ written \in Seq(1..MaxSends)

\* SendPacket infers from a non-empty queue that a write is outstanding and leaves
\* its packet to that write's callback: the inference is right until the socket
\* closes, and a callback finds the packet it wrote at the front.
WriterIsRunning ==
    /\ messagesOut # <<>> /\ isOpen => writes # <<>>
    /\ writes # <<>> => messagesOut # <<>>

\* The read loop ends with the connection, or on a body too short for an opcode.
ReaderIsRunning ==
    isOpen /\ reading = "idle" => temporaryIn.size \in 1 .. MinimalBody - 1

\* What handlers send is written once and in the order of the sends, although it
\* crosses from the main thread to the io thread and through a second queue.
Out == INSTANCE FifoQueue WITH
    Items <- 1..MaxSends,
    given <- written \o messagesOut \o posted,
    taken <- written
WrittenInOrder == Out!Spec

\* A packet that has a body carries the body and the opcode of one frame, and
\* frames are queued in the order in which they arrived, however often the one
\* temporary packet is reused.
PacketsIntact ==
    /\ \A i \in DOMAIN messagesIn :
          messagesIn[i].size > 0 => messagesIn[i].body = messagesIn[i].opcode
    /\ \A i, j \in DOMAIN messagesIn :
          i < j /\ messagesIn[i].size > 0 /\ messagesIn[j].size > 0 =>
             messagesIn[i].body < messagesIn[j].body

\* What is sent is written, unless the connection ends.
EverythingWritten ==
    \A n \in 1..MaxSends : sends >= n ~> Len(written) >= n \/ ~isOpen
=============================================================================

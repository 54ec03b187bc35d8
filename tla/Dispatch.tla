------------------------------- MODULE Dispatch -------------------------------
(***************************************************************************)
(* What becomes of one packet: a client puts fields into a body, which may *)
(* arrive cut short; the server finds the handler by level and opcode,     *)
(* which reads the fields back and writes some of them, or some it stored  *)
(* before, into replies and into what it tells the other players.          *)
(*                                                                         *)
(* The world server, the login server and the stream server each have      *)
(* their own dispatch.  The login server's opcode was taken from the first *)
(* two bytes by the session.  Replies whose contents do not come from a    *)
(* packet are modelled in WorldServer; constants in a reply are zeros.     *)
(***************************************************************************)
EXTENDS PacketCodec

CONSTANTS
    Requests,      \* what clients send: [server, level, opCode, fields, cut]
    ValidNames,    \* the names that ValidateCharacterName accepts
    Garbage        \* what an uninitialised three-byte id may hold

Uncut == 65536

\* The keys of f are f's, the others are g's.
Over(f, g) == [k \in DOMAIN f \cup DOMAIN g |-> IF k \in DOMAIN f THEN f[k] ELSE g[k]]

-----------------------------------------------------------------------------
(* OpCodeManager. *)

CS_OpCode == [X2EnterWorld |-> 0, CSLeaveWorld |-> 1, CSListCharacter |-> 32,
              CSRefreshInCharacterList |-> 33, CSCreateCharacter |-> 34,
              CSCharacterSelect |-> 37, CSSpawnCharacter |-> 38, CSNotifyInGame |-> 41,
              CSNotifyInGameCompleted |-> 42]
CS_LateOpCode == [CSMoveUnit |-> 137, CSSetLpManageCharacter |-> 254,
                  CSNotifySubZone |-> 274, CSSaveUIData |-> 280, CSRestrictCheck |-> 282,
                  CSPremiumServieceMsg |-> 316]
ProxyOpCode == [HandleFinishState |-> 1, HandlePing |-> 18]

MapWithoutNegation ==
    LET all == Over(CS_OpCode, Over(CS_LateOpCode, ProxyOpCode))
    IN {<<all[h], h>> : h \in DOMAIN all}

\* The table, with the proxies under negated opcodes so that they do not conflict.
BuildOpCodeMap ==
    {<<CS_OpCode[h], h>> : h \in DOMAIN CS_OpCode}
    \cup {<<CS_LateOpCode[h], h>> : h \in DOMAIN CS_LateOpCode}
    \cup {<<-ProxyOpCode[h], h>> : h \in DOMAIN ProxyOpCode}

\* A key of the table has 16 bits and a sign.
Key(n) == ((n + 32768) % 65536) - 32768

GetHandle(opCode, level) ==
    LET key == IF level = 1 THEN Key(opCode) ELSE Key(-opCode)
        found == {e \in BuildOpCodeMap : e[1] = key}
    IN IF level \in {1, 2} /\ found # {} THEN (CHOOSE e \in found : TRUE)[2] ELSE "none"

OnMessage(opCode) ==
    CASE opCode = 4 -> "CARequestAuth"
      [] opCode = 11 -> "CAListWorld"
      [] opCode = 12 -> "CAEnterWorld"
      [] OTHER -> "none"

StreamHandler(opCode) ==
    CASE opCode = 1 -> "CTJoin"
      [] opCode = 2 -> "CTRequestCell"
      [] OTHER -> "none"

-----------------------------------------------------------------------------
(* What the handlers read and write. *)

WorldHeader ==
    Numbers(<<"unk", "level">>, 1) \o When("level", {1}, Numbers(<<"crc", "counter">>, 1))
    \o Number("opCode", 2)

MovementHead ==
    Number("Time", 4) \o Number("Flags", 1)
    \o When("Flags", HasBit({16}), Number("ScType", 4) \o Number("Phase", 1))

ReadUnitMovementData ==
    Position("Pos") \o Numbers(<<"VelX", "VelY", "VelZ">>, 2) \o Number("Rot", 3)
    \o Number("DeltaMov", 3) \o Numbers(<<"Stance", "Alertness", "ActorFlags">>, 1)
    \o When("ActorFlags", HasBit({128}), Number("FallVel", 2))
    \o When("ActorFlags", HasBit({32}),
            Number("GcFlags", 1) \o Number("GcPartId", 2) \o Position("Pos2") \o Number("Rot2", 3))
    \o When("ActorFlags", HasBit({32, 64}), Number("GcId", 4))
    \o When("ActorFlags", HasBit({64}), Number("ClimbData", 4))

WriteUnitMovementData ==
    Position("Pos") \o Numbers(<<"VelX", "VelY", "VelZ">>, 2) \o Number("Rot", 3)
    \o Number("DeltaMov", 3) \o Numbers(<<"Stance", "Alertness", "ActorFlags">>, 1)
    \o When("ActorFlags", HasBit({128}), Number("FallVel", 2))
    \o When("ActorFlags", HasBit({32}),
            Number("GcFlags", 1) \o Number("GcPartId", 2) \o Position("Pos2") \o Number("Rot2", 3))
    \o When("ActorFlags", HasBit({32, 64}), Number("GcId", 4))
    \o When("ActorFlags", HasBit({64}), Number("ClimbData", 4))

\* Only a unit's movement has a body; the conditions inside it fail by themselves
\* where the flags keep their zeros.
Movement(body) ==
    Bc("objId") \o Number("Type", 1) \o MovementHead
    \o [i \in DOMAIN body |-> IF body[i].on = "" THEN When("Type", {1}, body)[i] ELSE body[i]]

Decals == <<"decal1", "decal2", "decal3", "decal4">>

FaceModel(decals) ==
    Number("MoveableDecal", 20) \o Numbers(decals, 8) \o Number("MapsAndColours", 36)
    \o Vector("Modifier")

\* The decals of a face are read into copies, which are dropped.
UnitCustomModel(decals) ==
    Number("ModelType", 1)
    \o When("ModelType", 1..255, Number("HairColorId", 4))
    \o When("ModelType", 2..255, Numbers(<<"SkinColorId", "ModelId">>, 4))
    \o When("ModelType", 3..255, FaceModel(decals))
ReadModel == UnitCustomModel(<<"copy", "copy", "copy", "copy">>)
WriteModel == UnitCustomModel(Decals)

Options == <<"Helmet", "BackHoldable", "Cosplay", "CosplayBackpack">>
ReadOptions ==
    Number("Flag", 1) \o When("Flag", HasBit({1}), Number("Stp", 6))
    \o When("Flag", HasBit({2}), Number("Helmet", 1))
    \o When("Flag", HasBit({4}), Number("BackHoldable", 1))
    \o When("Flag", HasBit({8}), Number("Cosplay", 1))
    \o When("Flag", HasBit({16}), Number("CosplayBackpack", 1))
WriteOptionsSwapped == Number("Stp", 6) \o Numbers(Reverse(Options), 1)
WriteOptions == Number("Stp", 6) \o Numbers(Options, 1)

WorldRequests ==
    [X2EnterWorld |-> Number("token", 4),
     CSListCharacter |-> Number("size", 4) \o Number("data", 2),
     CSCreateCharacter |->
        String("name") \o Numbers(<<"race", "gender">>, 1) \o Number("body", 28) \o ReadModel
        \o Numbers(<<"ability1", "ability2", "ability3", "charLevel">>, 1),
     CSCharacterSelect |-> Number("charId", 4) \o Number("gm", 1),
     CSSpawnCharacter |-> ReadOptions,
     CSMoveUnit |-> Movement(ReadUnitMovementData),
     CSSetLpManageCharacter |-> Number("characterId", 4),
     CSNotifySubZone |-> Number("subZoneId", 4),
     CSSaveUIData |-> Number("uiDataType", 2) \o Number("id", 4) \o String("dataString"),
     CSRestrictCheck |-> Number("characterId", 4) \o Number("code", 1),
     CSPremiumServieceMsg |-> Number("stage", 4),
     HandleFinishState |-> Number("state", 4),
     HandlePing |-> Numbers(<<"tm", "when">>, 8) \o Number("local", 4)]
LoginRequests ==
    [CARequestAuth |->
        Number("opCode", 2) \o Numbers(<<"pFrom", "pTo">>, 4) \o Number("dev", 1)
        \o Sized("mac") \o Sized("ticket") \o Sized("signature") \o Number("isLast", 1)]
StreamRequests ==
    [CTJoin |-> Numbers(<<"accountID", "cookie">>, 4),
     CTRequestCell |-> Numbers(<<"instanceId", "x", "y">>, 4)]
RequestFormat == Over(WorldRequests, Over(LoginRequests, StreamRequests))

FormatOf(h) == IF h \in DOMAIN RequestFormat THEN RequestFormat[h] ELSE <<>>

\* What a client of the world server means by a level and an opcode.
Meant(level, opCode) ==
    LET named == {h \in DOMAIN CS_OpCode : level = 1 /\ CS_OpCode[h] = opCode}
                 \cup {h \in DOMAIN CS_LateOpCode : level = 1 /\ CS_LateOpCode[h] = opCode}
                 \cup {h \in DOMAIN ProxyOpCode : level = 2 /\ ProxyOpCode[h] = opCode}
    IN IF named = {} THEN {"none"} ELSE named

\* The replies written into the packet that was read, from its own fields.
Reply(header, format) == [header |-> header, format |-> format]
WorldReplies ==
    [X2EnterWorld |-> Reply(ServerHeader(1, 0),
        Number("reason", 2) \o Number("gm", 1) \o Number("token", 4) \o Number("port", 2)
        \o Number("time", 8) \o Number("pubKeySize", 2) \o String("pubKey")),
     CSRefreshInCharacterList |-> Reply(ServerHeader(1, 461), Numbers(<<"zeros">>, 9)),
     CSSetLpManageCharacter |-> Reply(ServerHeader(1, 72), Number("characterId", 4)),
     CSRestrictCheck |-> Reply(ServerHeader(1, 462),
        Number("characterId", 4) \o Numbers(<<"code", "result">>, 1)),
     CSPremiumServieceMsg |-> Reply(ServerHeader(1, 417), Number("source", 1) \o String("text")),
     HandlePing |-> Reply(ServerHeader(2, 19),
        Numbers(<<"tm", "when", "elapsed", "world1000">>, 8) \o Numbers(<<"local", "world">>, 4))]
LoginReplies ==
    [CARequestAuth |-> Reply(Bytes16(0), Number("reason", 2) \o Number("afs", 8)),
     CAListWorld |-> Reply(Bytes16(8),
        Numbers(<<"serverCount", "serverID">>, 1) \o String("serverName")
        \o Numbers(<<"serverOnline", "serverLoad">>, 1) \o Number("races", 9)
        \o Number("characterCount", 1)),
     CAEnterWorld |-> Reply(Bytes16(10), Number("cookieID", 4) \o Number("ipAndPort", 24))]
StreamReplies ==
    [CTJoin |-> Reply(Bytes16(1), Number("response", 1)),
     CTRequestCell |-> Reply(Bytes16(2), Numbers(<<"requestId", "next", "count">>, 4))]
Replies == Over(WorldReplies, Over(LoginReplies, StreamReplies))

\* The replies and broadcasts that show a character or a movement.
CreateResponse == Reply(ServerHeader(1, 56), String("name") \o WriteModel)
CreationFailed == Reply(ServerHeader(1, 61), Number("reason8", 1))
AuthResponse == Reply(Bytes16(3),
                      Number("sessionID", 4) \o String("wsk") \o Number("slotCount", 1))
UnitState == Reply(ServerHeader(1, 105),
                   String("name") \o Position("Pos") \o WriteModel \o WriteOptions)
OneUnitMovement == Reply(ServerHeader(1, 108), Movement(WriteUnitMovementData))

\* Every member starts as zeros, or empty.
Formats == {RequestFormat[h] : h \in DOMAIN RequestFormat}
           \cup {Replies[h].format : h \in DOMAIN Replies}
           \cup {WorldHeader, CreationFailed.format, AuthResponse.format, UnitState.format}
Defaults ==
    LET fields == UNION {Range(f) : f \in Formats}
    IN [name \in {f.name : f \in fields} |->
            Zeros((CHOOSE f \in fields : f.name = name).size)]
-----------------------------------------------------------------------------
VARIABLES
    phase,     \* "idle", "received", "dispatched", "answered" or "ended"
    request,   \* what the client sent
    packet,    \* the server's packet
    handler,   \* what the dispatch found
    got,       \* the fields the handler read
    stored,    \* of the session's character: what SCUnitState writes
    made,      \* the session has a character
    spawned,   \* it has CharacterVisualOptions
    chosen,    \* what the client put into the creation of that character
    out        \* the packets sent, each with the bytes it should consist of

vars == <<phase, request, packet, handler, got, stored, made, spawned, chosen, out>>

\* What precedes the fields; the login server's opcode is the first of them.
HeaderFields(r) == [unk |-> <<0>>, level |-> <<r.level>>, crc |-> <<0>>, counter |-> <<0>>,
                    opCode |-> Bytes16(r.opCode)]
Lead(r) ==
    IF r.server = "world" THEN Encoding(WorldHeader, HeaderFields(r))
    ELSE IF r.server = "stream" THEN Bytes16(r.opCode) ELSE <<>>
Whole(r) == Lead(r) \o Encoding(FormatOf(r.name), r.fields)
Frame == [r \in Requests |-> SubSeq(Whole(r), 1, Least(r.cut, Len(Whole(r))))]

\* Clients send what the handler they mean reads, in bytes, with zeros for what a flag
\* says is not there; neither a string nor a packet is longer than its two bytes of size
\* can say.
ASSUME PacketsOfBytes ==
    /\ \A r \in Requests :
          /\ r.server \in {"world", "login", "stream"} /\ r.cut \in Nat
          /\ r.level \in Byte /\ r.opCode \in Nat /\ r.opCode < 65536
          /\ r.server = "world" => r.name \in Meant(r.level, r.opCode)
          /\ DOMAIN r.fields = {f.name : f \in Range(FormatOf(r.name))}
          /\ \A f \in Range(FormatOf(r.name)) :
                /\ r.fields[f.name] \in Seq(Byte)
                /\ ~Present(f, r.fields) => r.fields[f.name] = Defaults[f.name]
                /\ IF f.kind \in {"string", "vector", "sized"}
                   THEN Len(r.fields[f.name]) < 65536 ELSE Len(r.fields[f.name]) = f.size
          /\ Len(Whole(r)) < Uncut
    /\ Garbage \subseteq Seq(Byte)

NoRequest == [server |-> "world", level |-> 0, opCode |-> 0, name |-> "none",
              fields |-> <<>>, cut |-> Uncut]

StoredNames == {f.name : f \in Range(UnitState.format)}
ChosenNames == {f.name : f \in Range(String("name") \o ReadModel)}

Init ==
    /\ phase = "idle"
    /\ request = NoRequest
    /\ packet = Packet(<<>>)
    /\ handler = "none"
    /\ got = Defaults
    /\ stored = [name \in StoredNames |-> Defaults[name]]
    /\ made = FALSE
    /\ spawned = FALSE
    /\ chosen = [name \in ChosenNames |-> Defaults[name]]
    /\ out = <<>>

Receive ==
    /\ phase = "idle"
    /\ \E r \in Requests : request' = r /\ packet' = Packet(Frame[r])
    /\ phase' = "received"
    /\ UNCHANGED <<handler, got, stored, made, spawned, chosen, out>>

\* WorldSession::ProcessPacket, StreamSession::ProcessPacket, LoginServer::OnMessage.
ProcessPacket ==
    /\ phase = "received"
    /\ LET p == resetReaderWriter(packet)
           world == ReadFormat(WorldHeader, p, Defaults, Zeros(3))
           stream == read(p, 2)
       IN CASE request.server = "world" ->
                 /\ packet' = world.packet
                 /\ handler' = GetHandle(Number16(world.fields["opCode"]), world.fields["level"][1])
            [] request.server = "stream" ->
                 /\ packet' = stream.packet
                 /\ handler' = StreamHandler(Number16(stream.value))
            [] request.server = "login" ->
                 /\ packet' = p
                 /\ handler' = OnMessage(Number16(p.body))
    /\ phase' = "dispatched"
    /\ UNCHANGED <<request, got, stored, made, spawned, chosen, out>>

\* A packet prepared, filled and handed to a session once per receiver.
Written(reply, p, fields) ==
    Send(WriteFormat(reply.format, prepare(p, reply.header), fields))
Sent(reply, p, fields) ==
    [body |-> p.body, should |-> reply.header \o Encoding(reply.format, fields)]

Reads(garbage) == ReadFormat(FormatOf(handler), packet, Defaults, garbage)

HandleUnknown ==
    /\ phase = "dispatched" /\ handler = "none"
    /\ phase' = "answered"
    /\ UNCHANGED <<request, packet, handler, got, stored, made, spawned, chosen, out>>

\* The handlers that answer, if at all, into the packet they read; the login server
\* follows its first answer with another packet.  A ticket that is no document is
\* not answered.
HandleRequest ==
    /\ phase = "dispatched"
    /\ handler \notin {"none", "CSCreateCharacter", "CSSpawnCharacter", "CSMoveUnit"}
    /\ \E r \in {Reads(Zeros(3))} :
       LET p == Written(Replies[handler], r.packet, r.fields)
           second == Written(AuthResponse, Packet(<<>>), r.fields)
       IN /\ got' = r.fields
          /\ IF handler \notin DOMAIN Replies THEN packet' = r.packet /\ out' = <<>>
             ELSE \/ /\ packet' = p
                     /\ out' = <<Sent(Replies[handler], p, r.fields)>>
                              \o IF handler = "CARequestAuth"
                                 THEN <<Sent(AuthResponse, second, r.fields)>> ELSE <<>>
                  \/ /\ handler = "CARequestAuth"
                     /\ packet' = r.packet /\ out' = <<>>
    /\ phase' = "answered"
    /\ UNCHANGED <<request, handler, stored, made, spawned, chosen>>

Update(fields) == Over(fields, stored)
Only(fields, format) == [name \in {f.name : f \in Range(format)} |-> fields[name]]

\* The ninth byte of a position has the signs of the first two coordinates.
NoNegativeZero(v) ==
    /\ SubSeq(v, 1, 3) = Zeros(3) => (v[9] \div 128) % 2 = 0
    /\ SubSeq(v, 4, 6) = Zeros(3) => (v[9] \div 64) % 2 = 0

\* What the readers can take: no zero byte in a counted string, no sized string longer
\* than its counter counts, no negative zero.
Readable(r) ==
    \A f \in Range(FormatOf(r.name)) : Present(f, r.fields) =>
        /\ f.kind = "string" => \A i \in DOMAIN r.fields[f.name] : r.fields[f.name][i] # 0
        /\ f.kind = "sized" => Len(r.fields[f.name]) <= 255
        /\ f.kind = "position" => NoNegativeZero(r.fields[f.name])
AsSent == request.cut = Uncut /\ handler = request.name /\ Readable(request)

\* A refused name is answered in the same packet as the creation that follows.
CSCreateCharacter ==
    /\ phase = "dispatched" /\ handler = "CSCreateCharacter"
    /\ \E r \in {Reads(Zeros(3))} :
       \E failed \in {Written(CreationFailed, r.packet, Defaults)} :
       LET valid == r.fields["name"] \in ValidNames
           character == IF valid THEN Update(Only(r.fields, String("name") \o WriteModel)) ELSE stored
           p == Written(CreateResponse, IF valid THEN r.packet ELSE failed, character)
           refusal == IF valid THEN <<>> ELSE <<Sent(CreationFailed, failed, Defaults)>>
       IN /\ got' = r.fields
          /\ stored' = character
          /\ chosen' = IF ~valid THEN chosen
                       ELSE Over(Only(IF AsSent THEN request.fields ELSE r.fields,
                                      String("name") \o ReadModel), chosen)
          /\ made' = (made \/ valid)
          /\ spawned' = (spawned /\ ~valid)
          /\ IF made'
             THEN phase' = "answered" /\ packet' = p
                  /\ out' = refusal \o <<Sent(CreateResponse, p, character)>>
             ELSE phase' = "ended" /\ packet' = failed /\ out' = refusal
    /\ UNCHANGED <<request, handler>>

\* SCUnitState shows the character, with the options just read, in a new packet.
CSSpawnCharacter ==
    /\ phase = "dispatched" /\ handler = "CSSpawnCharacter"
    /\ \E r \in {Reads(Zeros(3))} :
       LET character == Update(Only(r.fields, WriteOptions))
           p == Written(UnitState, Packet(<<>>), character)
       IN IF made /\ ~spawned
          THEN /\ phase' = "answered"
               /\ packet' = r.packet
               /\ got' = r.fields
               /\ stored' = character
               /\ spawned' = TRUE
               /\ out' = <<Sent(UnitState, p, character)>>
          ELSE phase' = "ended" /\ UNCHANGED <<packet, got, stored, spawned, out>>
    /\ UNCHANGED <<request, handler, made, chosen>>

\* Whether the id is that of the character is for WorldServer to say.
CSMoveUnit ==
    /\ phase = "dispatched" /\ handler = "CSMoveUnit"
    /\ \E r \in {Reads(garbage) : garbage \in Garbage}, resolves \in {FALSE, made} :
          LET moves == resolves /\ r.fields["Type"] = <<1>>
              p == Written(OneUnitMovement, Packet(<<>>), r.fields)
          IN /\ got' = r.fields
             /\ packet' = r.packet
             /\ stored' = IF moves THEN Update(Only(r.fields, Position("Pos"))) ELSE stored
             /\ out' = <<Sent(OneUnitMovement, p, r.fields),
                         Sent(OneUnitMovement, Send(p), r.fields)>>
    /\ phase' = "answered"
    /\ UNCHANGED <<request, handler, made, spawned, chosen>>

\* Update's iteration ends, and with it the packet.
Release ==
    /\ phase = "answered"
    /\ phase' = "idle"
    /\ request' = NoRequest
    /\ packet' = Packet(<<>>)
    /\ handler' = "none"
    /\ got' = Defaults
    /\ out' = <<>>
    /\ UNCHANGED <<stored, made, spawned, chosen>>

Next ==
    \/ Receive
    \/ ProcessPacket
    \/ HandleUnknown \/ HandleRequest
    \/ CSCreateCharacter \/ CSSpawnCharacter \/ CSMoveUnit
    \/ Release

Spec == Init /\ [][Next]_vars

-----------------------------------------------------------------------------
(* Properties. *)

\* Whatever was read into a packet before it is used for an answer, and however
\* often one is sent, it goes out as its size and exactly the fields written since.
SentWellFormed ==
    \A i \in DOMAIN out :
        out[i].body = Bytes16(Len(out[i].should)) \o out[i].should

Handled == phase = "answered"

\* A packet reaches the handler it names, and one of level 1 a handler of level 2,
\* or the other way round, only through an opcode that a 16-bit key mistakes.
ReachesItsHandler ==
    Handled /\ request.cut = Uncut /\ request.server = "world" /\ handler # request.name =>
        \/ request.level = 1 /\ request.opCode >= 32768
        \/ request.level = 2 /\ (request.opCode = 0 \/ request.opCode > 32768)

\* The body of a movement reaches the other players as the mover sent it, optional
\* fields included, although it was taken apart into members and floats.
RelayedAsSent ==
    Handled /\ AsSent /\ handler = "CSMoveUnit" =>
        \A i \in DOMAIN out :
            SubSeq(out[i].body, 9, Len(out[i].body)) = SubSeq(Frame[request], 7, Len(Frame[request]))

\* A player is shown with the looks of its creation, a request or more ago, and the
\* options of its spawning; an option without its flag is off.  The decals of the
\* face are not: they come out as they are in a new character.
Shown ==
    LET options == [i \in 2..6 |-> [ReadOptions[i] EXCEPT !.on = ""]]
    IN Encoding(String("name"), chosen) \o stored["Pos"]
       \o Encoding(WriteModel, Over(chosen, [d \in Range(Decals) |-> Defaults[d]]))
       \o Encoding([i \in 1..5 |-> options[i + 1]], request.fields)
ShownAsChosen ==
    Handled /\ AsSent /\ handler = "CSSpawnCharacter" =>
        SubSeq(out[1].body, 9, Len(out[1].body)) = Shown
=============================================================================

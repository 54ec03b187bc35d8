----------------------------- MODULE MCDispatch -----------------------------
(***************************************************************************)
(* Packets of every kind for TLC: every handler, every combination of      *)
(* optional fields, strings at the limits of the readers, one packet of    *)
(* each richer kind cut at every byte, and opcodes that a key mistakes.    *)
(***************************************************************************)
EXTENDS Dispatch

\* The i-th field of a format consists of bytes 10 + i, so that no two look alike;
\* the ninth byte of a position holds two signs.
Coloured(format) ==
    [name \in {f.name : f \in Range(format)} |->
        LET i == CHOOSE i \in DOMAIN format : format[i].name = name
        IN IF format[i].kind \in {"string", "vector", "sized"} THEN <<10 + i, 10 + i>>
           ELSE [j \in 1..format[i].size |-> IF j = 9 THEN 210 + i ELSE 10 + i]]

Request(server, level, opCode, name, fields, cut) ==
    [server |-> server, level |-> level, opCode |-> opCode, name |-> name,
     fields |-> fields, cut |-> cut]

\* Without the fields that a flag says are not there.
Flagged(name, fields) ==
    LET absent == {f.name : f \in {g \in Range(FormatOf(name)) : ~Present(g, fields)}}
    IN [n \in DOMAIN fields |-> IF n \in absent THEN Defaults[n] ELSE fields[n]]

World(name, fields, cut) ==
    LET level1 == Over(CS_OpCode, CS_LateOpCode)
        flagged == Flagged(name, fields)
    IN IF name \in DOMAIN level1 THEN Request("world", 1, level1[name], name, flagged, cut)
       ELSE Request("world", 2, ProxyOpCode[name], name, flagged, cut)

Move(type, flags, actor) ==
    [Coloured(FormatOf("CSMoveUnit")) EXCEPT
        !["Type"] = <<type>>, !["Flags"] = <<flags>>, !["ActorFlags"] = <<IF type = 1 THEN actor ELSE 0>>]
Looks(name, type) ==
    [Coloured(FormatOf("CSCreateCharacter")) EXCEPT !["name"] = name, !["ModelType"] = <<type>>]
Visual(flag) == [Coloured(FormatOf("CSSpawnCharacter")) EXCEPT !["Flag"] = <<flag>>]
Auth(mac, ticket) ==
    [Coloured(FormatOf("CARequestAuth")) EXCEPT
        !["opCode"] = Bytes16(4), !["mac"] = mac, !["ticket"] = ticket]

\* A zero that is positive, one that is negative.
Edges == {<<0, 0, 0, 14, 15, 16, 17, 18, 65>>, <<11, 12, 13, 0, 0, 0, 17, 18, 193>>}

Moves ==
    {World("CSMoveUnit", Move(type, flags, actor), Uncut) :
        type \in {0, 1}, flags \in {0, 16}, actor \in {0, 32, 64, 96, 128, 224}}
    \cup {World("CSMoveUnit", Move(1, 16, 224), cut) : cut \in 2..76}
    \cup {World("CSMoveUnit", [Move(1, 0, 0) EXCEPT !["Pos"] = at], Uncut) : at \in Edges}
Creations ==
    {World("CSCreateCharacter", Looks(<<65, 66>>, type), Uncut) : type \in 0..3}
    \cup {World("CSCreateCharacter", Looks(<<65, 0>>, 3), Uncut)}
    \cup {World("CSCreateCharacter", Looks(<<65, 66>>, 3), cut) : cut \in {60}}
Spawns ==
    {World("CSSpawnCharacter", Visual(flag), Uncut) : flag \in {0, 11, 20}}
    \cup {World("CSSpawnCharacter", Visual(31), 8)}
Others ==
    {World(name, Coloured(FormatOf(name)), Uncut) :
        name \in (DOMAIN CS_OpCode \cup DOMAIN CS_LateOpCode \cup DOMAIN ProxyOpCode)
                 \ {"CSMoveUnit", "CSCreateCharacter", "CSSpawnCharacter"}}
    \cup {World("HandlePing", Coloured(FormatOf("HandlePing")), cut) : cut \in 2..24}
Mistaken ==
    {Request("world", level, opCode, "none", <<>>, Uncut) :
        level \in {0, 1, 2, 3}, opCode \in {2, 65535, 65518}}
    \cup {Request("world", 2, opCode, "none", <<>>, Uncut) : opCode \in {0, 65535}}
Logins ==
    {Request("login", 0, 4, "CARequestAuth", Auth(mac, ticket), Uncut) :
        mac \in {<<>>, <<11>>}, ticket \in {<<12, 13>>, [i \in 1..255 |-> 14], [i \in 1..256 |-> 14]}}
Streams ==
    {Request("stream", 0, 1, "CTJoin", Coloured(FormatOf("CTJoin")), Uncut),
     Request("stream", 0, 2, "CTRequestCell", Coloured(FormatOf("CTRequestCell")), Uncut),
     Request("stream", 0, 5, "none", <<>>, Uncut)}

AllRequests ==
    Moves \cup Creations \cup Spawns \cup Others \cup Mistaken \cup Logins \cup Streams
Names == {<<65, 66>>}
Indeterminate == {<<0, 0, 0>>, <<99, 99, 99>>}
=============================================================================

----------------------------- MODULE PacketCodec -----------------------------
(***************************************************************************)
(* packet.h: a body of bytes with a read cursor and a write cursor.  A     *)
(* value is the sequence of its little-endian bytes; only lengths and flag *)
(* bytes are taken as numbers.  A read that finds too few bytes left does  *)
(* not fail: a number reads as zero and moves the cursor all the same, an  *)
(* array and a three-byte id leave their target and the cursor alone.      *)
(*                                                                         *)
(* A format is the sequence of fields a handler reads or writes, some only *)
(* if an earlier flag byte says so.                                        *)
(***************************************************************************)
EXTENDS Integers, Sequences, SequencesExt

Byte == 0..255
Zeros(n) == [i \in 1..n |-> 0]
Bytes16(n) == <<n % 256, (n \div 256) % 256>>
Number16(b) == b[1] + 256 * b[2]
Least(m, n) == IF m < n THEN m ELSE n

\* A packet as constructed, or as the session read it: the cursor starts writing
\* behind the two bytes of the size.
Packet(body) == [body |-> body, rpos |-> 0, wpos |-> 2]

resetReaderWriter(p) == [p EXCEPT !.rpos = 0, !.wpos = 2]

-----------------------------------------------------------------------------
(* Writing. *)

append(p, src) ==
    LET padded == p.body \o Zeros(p.wpos - Len(p.body))
        end == p.wpos + Len(src)
    IN IF src = <<>> THEN p
       ELSE [p EXCEPT !.body = SubSeq(padded, 1, p.wpos) \o src
                                  \o SubSeq(p.body, end + 1, Len(p.body)),
                      !.wpos = end]

\* << of a counted string and of a vector of bytes.
WriteString(p, s) == append(append(p, Bytes16(Len(s))), s)

prepareAtStart(p, header) == append([p EXCEPT !.body = <<>>, !.wpos = 0], header)

\* The body is cleared, the write cursor stays where it is.
prepare(p, header) == append([p EXCEPT !.body = <<>>], header)

\* 0xdd, the level, at level 1 a hash and a count, and the opcode.
ServerHeader(level, opCode) ==
    IF level = 1 THEN <<221, 1, 0, 0>> \o Bytes16(opCode)
                 ELSE <<221, level>> \o Bytes16(opCode)

\* session::Send writes the size into the first two bytes, and so leaves the write
\* cursor behind them again.
Send(p) == append([p EXCEPT !.wpos = 0], Bytes16(Len(p.body) - 2))

-----------------------------------------------------------------------------
(* Reading: each returns the value and the packet with its cursor moved. *)

Skip(p, n) == [p EXCEPT !.rpos = @ + n]
Has(p, n) == p.rpos + n <= Len(p.body)
Ahead(p, n) == SubSeq(p.body, p.rpos + 1, p.rpos + n)
Left(p) == IF p.rpos < Len(p.body) THEN Len(p.body) - p.rpos ELSE 0

read(p, n) == [value |-> IF Has(p, n) THEN Ahead(p, n) ELSE Zeros(n), packet |-> Skip(p, n)]

\* The target of a three-byte id is uninitialised, that of an array zero.
ReadBc(p, target) ==
    IF Has(p, 3) THEN [value |-> Ahead(p, 3), packet |-> Skip(p, 3)]
    ELSE [value |-> target, packet |-> p]

ReadToArray(p, n) ==
    IF Has(p, n) THEN [value |-> Ahead(p, n), packet |-> Skip(p, n)]
    ELSE [value |-> Zeros(n), packet |-> p]

DropSigns(b) == [b EXCEPT ![9] = @ % 64]

\* Nine bytes to a position and back again: sign, magnitude and height survive,
\* but for the sign of a zero.
Canonical(b) ==
    LET unsigned(n, bit) == IF (n \div bit) % 2 = 1 THEN n - bit ELSE n
        x == IF SubSeq(b, 1, 3) = Zeros(3) THEN unsigned(b[9], 128) ELSE b[9]
    IN [b EXCEPT ![9] = IF SubSeq(b, 4, 6) = Zeros(3) THEN unsigned(x, 64) ELSE x]

ReadPosition(p) ==
    LET r == ReadToArray(p, 9) IN [r EXCEPT !.value = Canonical(@)]

\* A counted string ends early at a zero byte, and the cursor then skips one more.
ReadString(p) ==
    LET counted == read(p, 2)
        q == counted.packet
        available == Ahead(q, Least(Number16(counted.value), Left(q)))
        zeros == {i \in DOMAIN available : available[i] = 0}
        first == CHOOSE i \in zeros : \A j \in zeros : i <= j
    IN IF zeros = {} THEN [value |-> available, packet |-> Skip(q, Len(available))]
       ELSE [value |-> SubSeq(available, 1, first - 1), packet |-> Skip(q, first + 1)]

\* A given number of bytes; the counter has eight bits and reaches no length above
\* 255, so that such a string takes all that is left.
ReadBytes(p, length) ==
    LET n == IF length > 255 THEN Left(p) ELSE Least(length, Left(p))
    IN [value |-> Ahead(p, n), packet |-> Skip(p, n)]

ReadVector(p) ==
    LET counted == read(p, 2)
        q == counted.packet
        n == Number16(counted.value)
    IN [value |-> [i \in 1..n |-> IF q.rpos + i <= Len(q.body) THEN q.body[q.rpos + i] ELSE 0],
        packet |-> Skip(q, n)]

-----------------------------------------------------------------------------
(* Formats. *)

Field(kind, name, size) == [kind |-> kind, name |-> name, size |-> size,
                            on |-> "", flags |-> Byte]
Number(name, size) == <<Field("number", name, size)>>
Numbers(names, size) == [i \in DOMAIN names |-> Field("number", names[i], size)]
Bc(name) == <<Field("bc", name, 3)>>
Position(name) == <<Field("position", name, 9)>>
String(name) == <<Field("string", name, 0)>>
Vector(name) == <<Field("vector", name, 0)>>
\* A u16 length and as many bytes, read in two calls.
Sized(name) == <<Field("sized", name, 0)>>

\* The fields of a format that are there if the byte called on is one of flags.
When(on, flags, format) ==
    [i \in DOMAIN format |-> [format[i] EXCEPT !.on = on, !.flags = flags]]
HasBit(bits) == {b \in Byte : \E n \in bits : (b \div n) % 2 = 1}

Present(f, fields) == f.on = "" \/ fields[f.on][1] \in f.flags

ReadField(f, p, garbage) ==
    CASE f.kind = "number" -> read(p, f.size)
      [] f.kind = "bc" -> ReadBc(p, garbage)
      [] f.kind = "position" -> ReadPosition(p)
      [] f.kind = "string" -> ReadString(p)
      [] f.kind = "vector" -> ReadVector(p)
      [] f.kind = "sized" -> LET n == read(p, 2) IN ReadBytes(n.packet, Number16(n.value))

WriteField(f, p, value) ==
    IF f.kind \in {"string", "vector", "sized"} THEN WriteString(p, value)
    ELSE append(p, value)

\* The bytes a format stands for, whatever the cursors do.
FieldBytes(f, fields) ==
    IF ~Present(f, fields) THEN <<>>
    ELSE IF f.kind \in {"string", "vector", "sized"}
    THEN Bytes16(Len(fields[f.name])) \o fields[f.name]
    ELSE fields[f.name]
EncodingUpTo(format, fields) ==
    LET upTo[n \in 0..Len(format)] ==
            IF n = 0 THEN <<>> ELSE upTo[n - 1] \o FieldBytes(format[n], fields)
    IN upTo
Encoding(format, fields) == EncodingUpTo(format, fields)[Len(format)]

\* The packet after a format was read, and the fields read on top of the defaults.
ReadNext(f, before, garbage) ==
    LET r == ReadField(f, before.packet, garbage)
    IN IF ~Present(f, before.fields) THEN before
       ELSE [packet |-> r.packet, fields |-> [before.fields EXCEPT ![f.name] = r.value]]
ReadUpTo(format, p, defaults, garbage) ==
    LET after[n \in 0..Len(format)] ==
            IF n = 0 THEN [packet |-> p, fields |-> defaults]
            ELSE ReadNext(format[n], after[n - 1], garbage)
    IN after
ReadFormat(format, p, defaults, garbage) ==
    ReadUpTo(format, p, defaults, garbage)[Len(format)]

WriteNext(f, p, fields) ==
    IF ~Present(f, fields) THEN p ELSE WriteField(f, p, fields[f.name])
WriteUpTo(format, p, fields) ==
    LET after[n \in 0..Len(format)] ==
            IF n = 0 THEN p ELSE WriteNext(format[n], after[n - 1], fields)
    IN after
WriteFormat(format, p, fields) == WriteUpTo(format, p, fields)[Len(format)]
=============================================================================

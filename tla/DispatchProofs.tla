--------------------------- MODULE DispatchProofs ---------------------------
(***************************************************************************)
(* For every set of packets: what a handler answers is well formed,        *)
(* whatever was in the packet it answers into; a packet reaches the        *)
(* handler that it names; what was written by a format is read back by it, *)
(* so that movements and looks reach the other players as they were sent.  *)
(***************************************************************************)
EXTENDS Dispatch, CommonLemmas

Bytes == Seq(Byte)

\* Numbers as bytes, and slices of bytes.
LEMMA TwoBytes ==
    ASSUME NEW n \in Nat
    PROVE  /\ Bytes16(n) \in Bytes /\ Len(Bytes16(n)) = 2
           /\ n <= 65535 => Number16(Bytes16(n)) = n
<1> DEFINE low == n % 256
           high == (n \div 256) % 256
<1>1. low \in Byte /\ high \in Byte
  BY DEF Byte
<1>2. n <= 65535 => low + 256 * high = n
  <2> SUFFICES ASSUME n <= 65535 PROVE low + 256 * high = n
    OBVIOUS
  <2>1. n \div 256 \in 0..255
    OBVIOUS
  <2>2. high = n \div 256
    BY <2>1
  <2> QED
    BY <2>2
<1> HIDE DEF low, high
<1>3. <<low, high>> \in Bytes /\ Len(<<low, high>>) = 2
  BY <1>1 DEF Bytes
<1>4. Number16(<<low, high>>) = low + 256 * high
  BY DEF Number16
<1> QED
  BY <1>2, <1>3, <1>4 DEF Bytes16, low, high

LEMMA NumberOfBytes ==
    ASSUME NEW b \in Bytes, Len(b) = 2
    PROVE  Number16(b) \in Nat /\ Number16(b) <= 65535
<1>1. b[1] \in 0..255 /\ b[2] \in 0..255
  <2>1. b[1] \in Byte /\ b[2] \in Byte
    BY DEF Bytes
  <2> QED
    BY <2>1 DEF Byte
<1>2. PICK low \in 0..255, high \in 0..255 : low = b[1] /\ high = b[2]
  BY <1>1
<1>3. Number16(b) = low + 256 * high
  BY <1>2 DEF Number16
<1>4. low + 256 * high \in Nat /\ low + 256 * high <= 65535
  OBVIOUS
<1> QED
  BY <1>3, <1>4

LEMMA ZerosAreBytes ==
    ASSUME NEW n \in Int
    PROVE  Zeros(n) \in Bytes /\ Len(Zeros(n)) = (IF n < 0 THEN 0 ELSE n)
<1>1. CASE n \in Nat
  <2>1. 0 \in Byte
    BY DEF Byte
  <2>2. [i \in 1..n |-> 0] \in Seq(Byte) /\ Len([i \in 1..n |-> 0]) = n
    BY <1>1, <2>1
  <2> QED
    BY <1>1, <2>2 DEF Zeros, Bytes
<1>2. CASE n < 0
  <2>1. 1..n = {}
    BY <1>2
  <2>2. Zeros(n) = <<>>
    BY <2>1 DEF Zeros
  <2> QED
    BY <1>2, <2>2 DEF Bytes
<1> QED
  BY <1>1, <1>2

LEMMA SliceOf ==
    ASSUME NEW S, NEW s \in Seq(S), NEW a \in Nat \ {0}, NEW b \in Int, b <= Len(s)
    PROVE  /\ SubSeq(s, a, b) \in Seq(S)
           /\ Len(SubSeq(s, a, b)) = (IF a <= b THEN b - a + 1 ELSE 0)
           /\ \A i \in 1 .. b - a + 1 : SubSeq(s, a, b)[i] = s[a + i - 1]
<1>1. \A i \in a..b : s[i] \in S
  BY LenProperties
<1>2. a \in Int
  OBVIOUS
<1> QED
  BY <1>1, <1>2, SubSeqProperties

\* What lies in the middle of three sequences.
LEMMA MiddleOf ==
    ASSUME NEW S, NEW s \in Seq(S), NEW t \in Seq(S), NEW u \in Seq(S)
    PROVE  SubSeq((s \o t) \o u, Len(s) + 1, Len(s) + Len(t)) = t
<1> DEFINE whole == (s \o t) \o u
           a == Len(s)
           b == Len(t)
           middle == SubSeq(whole, a + 1, a + b)
<1>1. a \in Nat /\ b \in Nat /\ Len(u) \in Nat
  BY LenProperties
<1>2. s \o t \in Seq(S) /\ Len(s \o t) = a + b
      /\ \A i \in 1..(a + b) : (s \o t)[i] = IF i <= a THEN s[i] ELSE t[i - a]
  BY ConcatProperties
<1>3. whole \in Seq(S) /\ Len(whole) = (a + b) + Len(u)
      /\ \A i \in 1..((a + b) + Len(u)) :
            whole[i] = IF i <= a + b THEN (s \o t)[i] ELSE u[i - (a + b)]
  BY <1>2, ConcatProperties
<1> HIDE DEF whole, a, b
<1>4. /\ middle \in Seq(S) /\ Len(middle) = b
      /\ \A i \in 1..b : middle[i] = whole[a + i]
  <2>1. a + 1 \in Nat \ {0} /\ a + b \in Int /\ a + b <= Len(whole)
    BY <1>1, <1>3
  <2>2. /\ middle \in Seq(S)
        /\ Len(middle) = (IF a + 1 <= a + b THEN (a + b) - (a + 1) + 1 ELSE 0)
        /\ \A i \in 1 .. (a + b) - (a + 1) + 1 : middle[i] = whole[(a + 1) + i - 1]
    BY <1>3, <2>1, SliceOf
  <2>3. (a + b) - (a + 1) + 1 = b /\ \A i \in 1..b : (a + 1) + i - 1 = a + i
    BY <1>1
  <2> QED
    BY <1>1, <2>2, <2>3
<1>5. \A i \in 1..b : whole[a + i] = t[i]
  <2> SUFFICES ASSUME NEW i \in 1..b PROVE whole[a + i] = t[i]
    OBVIOUS
  <2>1. a + i \in 1..(a + b) /\ a + i \in 1..((a + b) + Len(u)) /\ a + i <= a + b
        /\ ~(a + i <= a) /\ (a + i) - a = i
    BY <1>1
  <2> QED
    BY <1>2, <1>3, <2>1
<1>6. middle = t
  <2>1. Len(t) = b
    BY DEF b
  <2> HIDE DEF middle
  <2> QED
    BY <1>4, <1>5, <2>1, SeqEqual
<1> QED
  BY <1>6 DEF whole, a, b

-----------------------------------------------------------------------------
(* Writing. *)

PacketSet == [body : Bytes, rpos : Nat, wpos : Nat]

LEMMA NothingAppended ==
    ASSUME NEW S, NEW s \in Seq(S)
    PROVE  s \o <<>> = s /\ <<>> \o s = s
BY ConcatEmptySeq

\* Behind the last byte, append appends.
LEMMA AppendAtEnd ==
    ASSUME NEW p \in PacketSet, p.wpos = Len(p.body), NEW src \in Bytes
    PROVE  /\ append(p, src) \in PacketSet
           /\ append(p, src).body = p.body \o src
           /\ append(p, src).wpos = Len(append(p, src).body)
           /\ append(p, src).rpos = p.rpos
<1> DEFINE body == p.body
           n == Len(body)
           end == p.wpos + Len(src)
<1>1. body \in Seq(Byte) /\ src \in Seq(Byte) /\ n \in Nat /\ Len(src) \in Nat /\ p.wpos = n
      /\ p.rpos \in Nat
  BY LenProperties DEF PacketSet, Bytes
<1>2. CASE src = <<>>
  <2>1. append(p, src) = p
    BY <1>2 DEF append
  <2>2. body \o src = body
    BY <1>1, <1>2, NothingAppended
  <2> QED
    BY <1>1, <2>1, <2>2
<1>3. CASE src # <<>>
  <2>1. body \o Zeros(p.wpos - Len(p.body)) = body
    <3>1. p.wpos - Len(p.body) = 0
      BY <1>1
    <3>2. Zeros(0) = <<>>
      BY ZerosAreBytes, EmptySeq DEF Bytes
    <3> QED
      BY <1>1, <3>1, <3>2, NothingAppended
  <2>2. SubSeq(body, 1, p.wpos) = body
    BY <1>1, SubSeqFull
  <2>3. SubSeq(p.body, end + 1, Len(p.body)) = <<>>
    <3>1. end + 1 \in Int /\ Len(p.body) \in Int /\ Len(p.body) < end + 1
      BY <1>1
    <3> QED
      BY <3>1, SubSeqEmpty
  <2> DEFINE more == body \o src
  <2>4. more \in Seq(Byte) /\ Len(more) = n + Len(src)
    BY <1>1, ConcatProperties
  <2>5. more \o <<>> = more
    BY <2>4, NothingAppended
  <2>6. append(p, src) = [p EXCEPT !.body = more, !.wpos = end]
    BY <1>3, <2>1, <2>2, <2>3, <2>5 DEF append
  <2>7. end = Len(more) /\ end \in Nat
    BY <1>1, <2>4
  <2> HIDE DEF more, end
  <2>8. /\ append(p, src).body = more /\ append(p, src).wpos = end
        /\ append(p, src).rpos = p.rpos /\ append(p, src) \in PacketSet
    BY <2>4, <2>6, <2>7 DEF PacketSet, Bytes
  <2> QED
    BY <2>7, <2>8 DEF more
<1> QED
  BY <1>2, <1>3

\* A packet prepared for an answer holds room for the size and the header, whatever
\* was in it, because the cursor is where the size ends.
LEMMA PrepareClears ==
    ASSUME NEW p \in PacketSet, p.wpos = 2, NEW header \in Bytes, header # <<>>
    PROVE  /\ prepare(p, header) \in PacketSet
           /\ prepare(p, header).body = Zeros(2) \o header
           /\ prepare(p, header).wpos = Len(prepare(p, header).body)
           /\ prepare(p, header).rpos = p.rpos
<1> DEFINE q == [p EXCEPT !.body = <<>>]
           room == Zeros(2)
           end == 2 + Len(header)
           more == room \o header
<1>1. q.body = <<>> /\ q.wpos = 2 /\ q.rpos = p.rpos /\ q \in PacketSet
  <2>1. <<>> \in Bytes
    BY DEF Bytes
  <2> QED
    BY <2>1 DEF PacketSet
<1>2. room \in Seq(Byte) /\ Len(room) = 2 /\ header \in Seq(Byte) /\ Len(header) \in Nat
  <2>1. 2 \in Int /\ ~(2 < 0)
    OBVIOUS
  <2>2. room \in Bytes /\ Len(room) = 2
    BY <2>1, ZerosAreBytes
  <2> HIDE DEF room
  <2> QED
    BY <2>2, LenProperties DEF Bytes
<1>3. more \in Seq(Byte) /\ Len(more) = end /\ end \in Nat
  <2> HIDE DEF room
  <2> QED
    BY <1>2, ConcatProperties
<1>4. <<>> \o Zeros(2 - Len(<<>>)) = room
  BY <1>2, NothingAppended
<1>5. SubSeq(room, 1, 2) = room
  BY <1>2, SubSeqFull
<1>6. SubSeq(<<>>, end + 1, Len(<<>>)) = <<>>
  <2>1. end + 1 \in Int /\ Len(<<>>) \in Int /\ Len(<<>>) < end + 1
    BY <1>3
  <2> QED
    BY <2>1, SubSeqEmpty
<1>7. more \o <<>> = more
  BY <1>3, NothingAppended
<1> HIDE DEF room, more
<1>8. append(q, header) = [q EXCEPT !.body = more, !.wpos = end]
  BY <1>1, <1>4, <1>5, <1>6, <1>7 DEF append, more
<1>9. prepare(p, header) = [q EXCEPT !.body = more, !.wpos = end]
  BY <1>8 DEF prepare
<1> HIDE DEF q, end
<1>10. /\ prepare(p, header).body = more /\ prepare(p, header).wpos = end
       /\ prepare(p, header).rpos = p.rpos /\ prepare(p, header) \in PacketSet
  BY <1>1, <1>3, <1>9 DEF PacketSet, Bytes
<1> QED
  BY <1>3, <1>10 DEF more, room

\* The size replaces the two bytes in front, and the cursor is behind it again.
LEMMA SendPutsSize ==
    ASSUME NEW p \in PacketSet, NEW room \in Bytes, Len(room) = 2, NEW rest \in Bytes,
           p.body = room \o rest
    PROVE  /\ Send(p) \in PacketSet
           /\ Send(p).body = Bytes16(Len(rest)) \o rest
           /\ Send(p).wpos = 2
           /\ Send(p).rpos = p.rpos
<1> DEFINE q == [p EXCEPT !.wpos = 0]
           body == p.body
           n == Len(body)
           size == Bytes16(n - 2)
<1>1. q.body = body /\ q.wpos = 0 /\ q.rpos = p.rpos /\ q \in PacketSet
  BY DEF PacketSet
<1>2. /\ room \in Seq(Byte) /\ rest \in Seq(Byte) /\ Len(rest) \in Nat
      /\ body \in Seq(Byte) /\ n = 2 + Len(rest)
  <2>1. room \in Seq(Byte) /\ rest \in Seq(Byte) /\ Len(rest) \in Nat
    BY LenProperties DEF Bytes
  <2>2. room \o rest \in Seq(Byte) /\ Len(room \o rest) = Len(room) + Len(rest)
    BY <2>1, ConcatProperties
  <2> QED
    BY <2>1, <2>2
<1>3. n - 2 = Len(rest) /\ n - 2 \in Nat
  BY <1>2
<1>4. size \in Seq(Byte) /\ Len(size) = 2 /\ size # <<>>
  BY <1>3, TwoBytes DEF Bytes
<1>5. body \o Zeros(0 - n) = body
  <2>1. 0 - n \in Int /\ 0 - n < 0
    BY <1>2
  <2>2. Zeros(0 - n) = <<>>
    BY <2>1, ZerosAreBytes, EmptySeq DEF Bytes
  <2> QED
    BY <1>2, <2>2, NothingAppended
<1>6. SubSeq(body, 1, 0) = <<>>
  BY SubSeqEmpty
<1>7. SubSeq(body, 3, n) = rest
  <2>1. (room \o rest) \o <<>> = room \o rest
    BY <1>2, NothingAppended
  <2>2. SubSeq((room \o rest) \o <<>>, Len(room) + 1, Len(room) + Len(rest)) = rest
    <3>1. <<>> \in Seq(Byte)
      OBVIOUS
    <3> QED
      BY <1>2, <3>1, MiddleOf
  <2>3. Len(room) + 1 = 3 /\ Len(room) + Len(rest) = n
    BY <1>2
  <2> QED
    BY <2>1, <2>2, <2>3
<1>8. <<>> \o size = size
  BY <1>4, NothingAppended
<1> DEFINE more == size \o rest
<1>9. more \in Seq(Byte)
  BY <1>2, <1>4, ConcatProperties
<1>10. append(q, size) = [q EXCEPT !.body = more, !.wpos = 2]
  <2> HIDE DEF q, body, n, size, more
  <2>1. (0 + Len(size)) + 1 = 3 /\ 0 + Len(size) = 2
    BY <1>4
  <2>2. append(q, size) = [q EXCEPT !.body = (SubSeq(body \o Zeros(0 - n), 1, 0) \o size)
                                              \o SubSeq(body, 3, n),
                                    !.wpos = 2]
    BY <1>1, <1>4, <2>1 DEF append, n
  <2>3. (SubSeq(body \o Zeros(0 - n), 1, 0) \o size) \o SubSeq(body, 3, n) = more
    BY <1>5, <1>6, <1>7, <1>8 DEF more
  <2> QED
    BY <2>2, <2>3
<1>11. Send(p) = append(q, size)
  BY DEF Send
<1>13. more \in Bytes /\ 2 \in Nat
  BY <1>9 DEF Bytes
<1> HIDE DEF q, more, size
<1>12. /\ Send(p).body = more /\ Send(p).wpos = 2
       /\ Send(p).rpos = p.rpos /\ Send(p) \in PacketSet
  BY <1>1, <1>10, <1>11, <1>13 DEF PacketSet
<1> QED
  BY <1>3, <1>12 DEF more, size

\* A counted string, likewise.
LEMMA StringAtEnd ==
    ASSUME NEW p \in PacketSet, p.wpos = Len(p.body), NEW src \in Bytes
    PROVE  /\ WriteString(p, src) \in PacketSet
           /\ WriteString(p, src).body = p.body \o (Bytes16(Len(src)) \o src)
           /\ WriteString(p, src).wpos = Len(WriteString(p, src).body)
           /\ WriteString(p, src).rpos = p.rpos
<1> DEFINE count == Bytes16(Len(src))
           q == append(p, count)
<1>1. count \in Bytes
  BY LenProperties, TwoBytes DEF Bytes
<1>2. /\ q \in PacketSet /\ q.wpos = Len(q.body) /\ q.body = p.body \o count
      /\ q.rpos = p.rpos
  BY <1>1, AppendAtEnd
<1>3. WriteString(p, src) = append(q, src)
  BY DEF WriteString
<1> HIDE DEF q, count
<1>4. /\ append(q, src) \in PacketSet
      /\ append(q, src).body = q.body \o src
      /\ append(q, src).wpos = Len(append(q, src).body)
      /\ append(q, src).rpos = q.rpos
  BY <1>2, AppendAtEnd
<1>5. (p.body \o count) \o src = p.body \o (count \o src)
  <2>1. p.body \in Seq(Byte) /\ count \in Seq(Byte) /\ src \in Seq(Byte)
    BY <1>1 DEF PacketSet, Bytes
  <2>2. \A a, b, c \in Seq(Byte) : (a \o b) \o c = a \o (b \o c)
    BY ConcatAssociative
  <2> QED
    BY <2>1, <2>2
<1> QED
  BY <1>2, <1>3, <1>4, <1>5 DEF count

\* The fields that a format uses are bytes.
Filled(format, fields) ==
    \A n \in 1..Len(format) : Present(format[n], fields) => fields[format[n].name] \in Bytes

LEMMA FieldAtEnd ==
    ASSUME NEW p \in PacketSet, p.wpos = Len(p.body), NEW f, NEW fields,
           Present(f, fields) => fields[f.name] \in Bytes
    PROVE  /\ WriteNext(f, p, fields) \in PacketSet
           /\ WriteNext(f, p, fields).body = p.body \o FieldBytes(f, fields)
           /\ WriteNext(f, p, fields).wpos = Len(WriteNext(f, p, fields).body)
           /\ WriteNext(f, p, fields).rpos = p.rpos
           /\ FieldBytes(f, fields) \in Bytes
<1>1. CASE ~Present(f, fields)
  <2>1. WriteNext(f, p, fields) = p /\ FieldBytes(f, fields) = <<>>
    BY <1>1 DEF WriteNext, FieldBytes
  <2>2. p.body \o <<>> = p.body /\ <<>> \in Bytes
    BY NothingAppended DEF PacketSet, Bytes
  <2> QED
    BY <2>1, <2>2
<1>2. CASE Present(f, fields)
  <2> DEFINE value == fields[f.name]
  <2>1. value \in Bytes
    BY <1>2
  <2>2. CASE f.kind \in {"string", "vector", "sized"}
    <3>1. /\ WriteNext(f, p, fields) = WriteString(p, value)
          /\ FieldBytes(f, fields) = Bytes16(Len(value)) \o value
      BY <1>2, <2>2 DEF WriteNext, WriteField, FieldBytes
    <3> HIDE DEF value
    <3>2. Bytes16(Len(value)) \o value \in Bytes
      <4>1. Bytes16(Len(value)) \in Seq(Byte) /\ value \in Seq(Byte)
        BY <2>1, LenProperties, TwoBytes DEF Bytes
      <4> QED
        BY <4>1, ConcatProperties DEF Bytes
    <3> QED
      BY <2>1, <3>1, <3>2, StringAtEnd
  <2>3. CASE f.kind \notin {"string", "vector", "sized"}
    <3>1. /\ WriteNext(f, p, fields) = append(p, value)
          /\ FieldBytes(f, fields) = value
      BY <1>2, <2>3 DEF WriteNext, WriteField, FieldBytes
    <3> HIDE DEF value
    <3> QED
      BY <2>1, <3>1, AppendAtEnd
  <2> QED
    BY <2>2, <2>3
<1> QED
  BY <1>1, <1>2

-----------------------------------------------------------------------------
(* The recursive functions are the ones their equations describe. *)

LEMMA EncodingUnrolls ==
    ASSUME NEW format, NEW fields, Len(format) \in Nat
    PROVE  /\ EncodingUpTo(format, fields)[0] = <<>>
           /\ \A n \in 1..Len(format) :
                 EncodingUpTo(format, fields)[n]
                   = EncodingUpTo(format, fields)[n - 1] \o FieldBytes(format[n], fields)
<1> DEFINE base == <<>>
           Step(x, n) == x \o FieldBytes(format[n], fields)
           Folds(g, k) == g = [n \in 0..k |-> IF n = 0 THEN base ELSE Step(g[n - 1], n)]
           S == {k \in Nat : \E g : Folds(g, k)}
<1>0. EncodingUpTo(format, fields) = CHOOSE g : Folds(g, Len(format))
  BY DEF EncodingUpTo
<1> HIDE DEF base, Step
<1>1. 0 \in S
  <2> DEFINE g == [n \in 0..0 |-> base]
  <2>1. Folds(g, 0)
    OBVIOUS
  <2> QED
    BY <2>1
<1>2. ASSUME NEW k \in Nat, k \in S
      PROVE  k + 1 \in S
  <2>1. PICK g : Folds(g, k)
    BY <1>2
  <2> DEFINE h == [n \in 0..(k + 1) |-> IF n = k + 1 THEN Step(g[k], k + 1) ELSE g[n]]
  <2>2. ASSUME NEW n \in 0..(k + 1)
        PROVE  h[n] = IF n = 0 THEN base ELSE Step(h[n - 1], n)
    <3>1. CASE n = 0
      BY <2>1, <3>1
    <3>2. CASE n \in 1..k
      <4>1. n - 1 \in 0..k /\ n \in 0..k /\ n # k + 1 /\ n - 1 # k + 1 /\ n # 0
        BY <3>2
      <4>2. h[n] = g[n] /\ h[n - 1] = g[n - 1]
        BY <4>1
      <4> QED
        BY <2>1, <4>1, <4>2
    <3>3. CASE n = k + 1
      <4>1. n - 1 = k /\ k \in 0..(k + 1) /\ k # k + 1 /\ n # 0
        BY <3>3
      <4> QED
        BY <3>3, <4>1
    <3> QED
      BY <3>1, <3>2, <3>3
  <2>3. Folds(h, k + 1)
    BY <2>2
  <2> HIDE DEF Folds, h
  <2>4. \E f : Folds(f, k + 1)
    BY <2>3
  <2> QED
    BY <2>4
<1>3. \E g : Folds(g, Len(format))
  <2>1. Nat \subseteq S
    BY <1>1, <1>2, SetInduction
  <2>2. \A k \in S : \E g : Folds(g, k)
    OBVIOUS
  <2> HIDE DEF S, Folds
  <2> QED
    BY <2>1, <2>2
<1>4. Folds(EncodingUpTo(format, fields), Len(format))
  BY <1>0, <1>3
<1>5. /\ EncodingUpTo(format, fields)[0] = base
      /\ \A n \in 1..Len(format) : EncodingUpTo(format, fields)[n]
                                     = Step(EncodingUpTo(format, fields)[n - 1], n)
  BY <1>4
<1> QED
  BY <1>5 DEF base, Step

LEMMA WritingUnrolls ==
    ASSUME NEW format, NEW p, NEW fields, Len(format) \in Nat
    PROVE  /\ WriteUpTo(format, p, fields)[0] = p
           /\ \A n \in 1..Len(format) :
                 WriteUpTo(format, p, fields)[n]
                   = WriteNext(format[n], WriteUpTo(format, p, fields)[n - 1], fields)
<1> DEFINE base == p
           Step(x, n) == WriteNext(format[n], x, fields)
           Folds(g, k) == g = [n \in 0..k |-> IF n = 0 THEN base ELSE Step(g[n - 1], n)]
           S == {k \in Nat : \E g : Folds(g, k)}
<1>0. WriteUpTo(format, p, fields) = CHOOSE g : Folds(g, Len(format))
  BY DEF WriteUpTo
<1> HIDE DEF base, Step
<1>1. 0 \in S
  <2> DEFINE g == [n \in 0..0 |-> base]
  <2>1. Folds(g, 0)
    OBVIOUS
  <2> QED
    BY <2>1
<1>2. ASSUME NEW k \in Nat, k \in S
      PROVE  k + 1 \in S
  <2>1. PICK g : Folds(g, k)
    BY <1>2
  <2> DEFINE h == [n \in 0..(k + 1) |-> IF n = k + 1 THEN Step(g[k], k + 1) ELSE g[n]]
  <2>2. ASSUME NEW n \in 0..(k + 1)
        PROVE  h[n] = IF n = 0 THEN base ELSE Step(h[n - 1], n)
    <3>1. CASE n = 0
      BY <2>1, <3>1
    <3>2. CASE n \in 1..k
      <4>1. n - 1 \in 0..k /\ n \in 0..k /\ n # k + 1 /\ n - 1 # k + 1 /\ n # 0
        BY <3>2
      <4>2. h[n] = g[n] /\ h[n - 1] = g[n - 1]
        BY <4>1
      <4> QED
        BY <2>1, <4>1, <4>2
    <3>3. CASE n = k + 1
      <4>1. n - 1 = k /\ k \in 0..(k + 1) /\ k # k + 1 /\ n # 0
        BY <3>3
      <4> QED
        BY <3>3, <4>1
    <3> QED
      BY <3>1, <3>2, <3>3
  <2>3. Folds(h, k + 1)
    BY <2>2
  <2> HIDE DEF Folds, h
  <2>4. \E f : Folds(f, k + 1)
    BY <2>3
  <2> QED
    BY <2>4
<1>3. \E g : Folds(g, Len(format))
  <2>1. Nat \subseteq S
    BY <1>1, <1>2, SetInduction
  <2>2. \A k \in S : \E g : Folds(g, k)
    OBVIOUS
  <2> HIDE DEF S, Folds
  <2> QED
    BY <2>1, <2>2
<1>4. Folds(WriteUpTo(format, p, fields), Len(format))
  BY <1>0, <1>3
<1>5. /\ WriteUpTo(format, p, fields)[0] = base
      /\ \A n \in 1..Len(format) : WriteUpTo(format, p, fields)[n]
                                     = Step(WriteUpTo(format, p, fields)[n - 1], n)
  BY <1>4
<1> QED
  BY <1>5 DEF base, Step

LEMMA ReadingUnrolls ==
    ASSUME NEW format, NEW p, NEW defaults, NEW garbage, Len(format) \in Nat
    PROVE  /\ ReadUpTo(format, p, defaults, garbage)[0] = [packet |-> p, fields |-> defaults]
           /\ \A n \in 1..Len(format) :
                 ReadUpTo(format, p, defaults, garbage)[n]
                   = ReadNext(format[n], ReadUpTo(format, p, defaults, garbage)[n - 1], garbage)
<1> DEFINE base == [packet |-> p, fields |-> defaults]
           Step(x, n) == ReadNext(format[n], x, garbage)
           Folds(g, k) == g = [n \in 0..k |-> IF n = 0 THEN base ELSE Step(g[n - 1], n)]
           S == {k \in Nat : \E g : Folds(g, k)}
<1>0. ReadUpTo(format, p, defaults, garbage) = CHOOSE g : Folds(g, Len(format))
  BY DEF ReadUpTo
<1> HIDE DEF base, Step
<1>1. 0 \in S
  <2> DEFINE g == [n \in 0..0 |-> base]
  <2>1. Folds(g, 0)
    OBVIOUS
  <2> QED
    BY <2>1
<1>2. ASSUME NEW k \in Nat, k \in S
      PROVE  k + 1 \in S
  <2>1. PICK g : Folds(g, k)
    BY <1>2
  <2> DEFINE h == [n \in 0..(k + 1) |-> IF n = k + 1 THEN Step(g[k], k + 1) ELSE g[n]]
  <2>2. ASSUME NEW n \in 0..(k + 1)
        PROVE  h[n] = IF n = 0 THEN base ELSE Step(h[n - 1], n)
    <3>1. CASE n = 0
      BY <2>1, <3>1
    <3>2. CASE n \in 1..k
      <4>1. n - 1 \in 0..k /\ n \in 0..k /\ n # k + 1 /\ n - 1 # k + 1 /\ n # 0
        BY <3>2
      <4>2. h[n] = g[n] /\ h[n - 1] = g[n - 1]
        BY <4>1
      <4> QED
        BY <2>1, <4>1, <4>2
    <3>3. CASE n = k + 1
      <4>1. n - 1 = k /\ k \in 0..(k + 1) /\ k # k + 1 /\ n # 0
        BY <3>3
      <4> QED
        BY <3>3, <4>1
    <3> QED
      BY <3>1, <3>2, <3>3
  <2>3. Folds(h, k + 1)
    BY <2>2
  <2> HIDE DEF Folds, h
  <2>4. \E f : Folds(f, k + 1)
    BY <2>3
  <2> QED
    BY <2>4
<1>3. \E g : Folds(g, Len(format))
  <2>1. Nat \subseteq S
    BY <1>1, <1>2, SetInduction
  <2>2. \A k \in S : \E g : Folds(g, k)
    OBVIOUS
  <2> HIDE DEF S, Folds
  <2> QED
    BY <2>1, <2>2
<1>4. Folds(ReadUpTo(format, p, defaults, garbage), Len(format))
  BY <1>0, <1>3
<1>5. /\ ReadUpTo(format, p, defaults, garbage)[0] = base
      /\ \A n \in 1..Len(format) : ReadUpTo(format, p, defaults, garbage)[n]
                                     = Step(ReadUpTo(format, p, defaults, garbage)[n - 1], n)
  BY <1>4
<1> QED
  BY <1>5 DEF base, Step

-----------------------------------------------------------------------------
(* An answer. *)

\* A format is written behind what is there.
LEMMA FormatAtEnd ==
    ASSUME NEW p \in PacketSet, p.wpos = Len(p.body),
           NEW format, Len(format) \in Nat, NEW fields, Filled(format, fields)
    PROVE  /\ WriteFormat(format, p, fields) \in PacketSet
           /\ WriteFormat(format, p, fields).body = p.body \o Encoding(format, fields)
           /\ WriteFormat(format, p, fields).wpos = Len(WriteFormat(format, p, fields).body)
           /\ WriteFormat(format, p, fields).rpos = p.rpos
           /\ Encoding(format, fields) \in Bytes
<1> DEFINE w == WriteUpTo(format, p, fields)
           e == EncodingUpTo(format, fields)
           P(n) == /\ w[n] \in PacketSet /\ w[n].body = p.body \o e[n]
                   /\ w[n].wpos = Len(w[n].body) /\ w[n].rpos = p.rpos
                   /\ e[n] \in Bytes
           S == {n \in Nat : n <= Len(format) => P(n)}
<1>1. /\ w[0] = p
      /\ \A n \in 1..Len(format) : w[n] = WriteNext(format[n], w[n - 1], fields)
  BY WritingUnrolls
<1>2. /\ e[0] = <<>>
      /\ \A n \in 1..Len(format) : e[n] = e[n - 1] \o FieldBytes(format[n], fields)
  BY EncodingUnrolls
<1> HIDE DEF w, e
<1>3. 0 \in S
  <2>1. p.body \o <<>> = p.body /\ <<>> \in Bytes
    BY NothingAppended DEF PacketSet, Bytes
  <2>2. P(0)
    BY <1>1, <1>2, <2>1
  <2> HIDE DEF P
  <2> QED
    BY <2>2
<1> HIDE DEF P
<1>4. ASSUME NEW n \in Nat, n \in S
      PROVE  n + 1 \in S
  <2> SUFFICES ASSUME n + 1 <= Len(format) PROVE P(n + 1)
    OBVIOUS
  <2> DEFINE q == w[n]
             f == format[n + 1]
             bytes == FieldBytes(f, fields)
  <2>0. P(n) /\ n + 1 \in 1..Len(format) /\ (n + 1) - 1 = n
    BY <1>4
  <2> USE DEF P
  <2>1. /\ w[n] \in PacketSet /\ w[n].body = p.body \o e[n]
        /\ w[n].wpos = Len(w[n].body) /\ w[n].rpos = p.rpos
        /\ e[n] \in Bytes /\ n + 1 \in 1..Len(format) /\ (n + 1) - 1 = n
    BY <2>0
  <2>2. w[n + 1] = WriteNext(f, q, fields) /\ e[n + 1] = e[n] \o bytes
    BY <1>1, <1>2, <2>1
  <2>3. Present(f, fields) => fields[f.name] \in Bytes
    BY <2>1 DEF Filled
  <2>4. q \in PacketSet /\ q.wpos = Len(q.body)
    BY <2>1
  <2> HIDE DEF q, f
  <2>5. /\ WriteNext(f, q, fields) \in PacketSet
        /\ WriteNext(f, q, fields).body = q.body \o bytes
        /\ WriteNext(f, q, fields).wpos = Len(WriteNext(f, q, fields).body)
        /\ WriteNext(f, q, fields).rpos = q.rpos
        /\ bytes \in Bytes
    BY <2>3, <2>4, FieldAtEnd
  <2> HIDE DEF bytes
  <2>6. (p.body \o e[n]) \o bytes = p.body \o (e[n] \o bytes) /\ e[n] \o bytes \in Bytes
    <3>1. p.body \in Seq(Byte) /\ e[n] \in Seq(Byte) /\ bytes \in Seq(Byte)
      BY <2>1, <2>5 DEF PacketSet, Bytes
    <3>2. \A a, b, c \in Seq(Byte) : (a \o b) \o c = a \o (b \o c)
      BY ConcatAssociative
    <3>3. \A a, b \in Seq(Byte) : a \o b \in Seq(Byte)
      BY ConcatProperties
    <3> QED
      BY <3>1, <3>2, <3>3 DEF Bytes
  <2> QED
    BY <2>1, <2>2, <2>5, <2>6 DEF q
<1>5. P(Len(format))
  <2>1. Nat \subseteq S
    BY <1>3, <1>4, SetInduction
  <2> QED
    BY <2>1
<1> QED
  BY <1>5 DEF P, w, e, WriteFormat, Encoding

\* What is handed to the network: the size, the header, the fields; handed over
\* again, the same.
LEMMA AnswerWellFormed ==
    ASSUME NEW p \in PacketSet, p.wpos = 2, NEW reply, NEW fields,
           reply.header \in Bytes, reply.header # <<>>, Len(reply.format) \in Nat,
           Filled(reply.format, fields)
    PROVE  LET sent == Written(reply, p, fields)
               should == reply.header \o Encoding(reply.format, fields)
           IN  /\ sent \in PacketSet /\ sent.wpos = 2 /\ sent.rpos = p.rpos
               /\ sent.body = Bytes16(Len(should)) \o should
               /\ Send(sent).body = Bytes16(Len(should)) \o should
               /\ Encoding(reply.format, fields) \in Bytes
<1> DEFINE header == reply.header
           format == reply.format
           prepared == prepare(p, header)
           filled == WriteFormat(format, prepared, fields)
           content == Encoding(format, fields)
           should == header \o content
           room == Zeros(2)
           sent == Send(filled)
<1>1. room \in Bytes /\ Len(room) = 2
  <2>1. 2 \in Int /\ ~(2 < 0)
    OBVIOUS
  <2> QED
    BY <2>1, ZerosAreBytes
<1> HIDE DEF room
<1>2. /\ prepared \in PacketSet /\ prepared.body = room \o header
      /\ prepared.wpos = Len(prepared.body) /\ prepared.rpos = p.rpos
  BY PrepareClears DEF room
<1>3. header \in Bytes /\ Len(format) \in Nat /\ Filled(format, fields)
  OBVIOUS
<1> HIDE DEF prepared, header, format
<1>4. /\ filled \in PacketSet /\ filled.body = prepared.body \o content
      /\ filled.rpos = prepared.rpos /\ content \in Bytes
  BY <1>2, <1>3, FormatAtEnd
<1> HIDE DEF content
<1>5. should \in Bytes /\ (room \o header) \o content = room \o should
  <2>1. room \in Seq(Byte) /\ header \in Seq(Byte) /\ content \in Seq(Byte)
    BY <1>1, <1>3, <1>4 DEF Bytes
  <2>2. \A a, b, c \in Seq(Byte) : (a \o b) \o c = a \o (b \o c)
    BY ConcatAssociative
  <2>3. \A a, b \in Seq(Byte) : a \o b \in Seq(Byte)
    BY ConcatProperties
  <2> QED
    BY <2>1, <2>2, <2>3 DEF Bytes
<1>6. filled.body = room \o should
  BY <1>2, <1>4, <1>5
<1> HIDE DEF filled, should
<1>7. /\ sent \in PacketSet /\ sent.body = Bytes16(Len(should)) \o should
      /\ sent.wpos = 2 /\ sent.rpos = filled.rpos
  BY <1>1, <1>4, <1>5, <1>6, SendPutsSize
<1> DEFINE size == Bytes16(Len(should))
<1>8. size \in Bytes /\ Len(size) = 2
  BY <1>5, LenProperties, TwoBytes DEF Bytes
<1> HIDE DEF sent, size
<1>9. sent.body = size \o should
  BY <1>7 DEF size
<1>10. Send(sent).body = Bytes16(Len(should)) \o should
  BY <1>5, <1>7, <1>8, <1>9, SendPutsSize
<1>11. sent = Written(reply, p, fields)
  BY DEF sent, filled, prepared, header, format, Written
<1> QED
  BY <1>2, <1>4, <1>7, <1>10, <1>11 DEF should, content, header, format

-----------------------------------------------------------------------------
(* Reading. *)

Kinds == {"number", "bc", "position", "string", "vector", "sized"}
IsField(f) ==
    /\ DOMAIN f = {"kind", "name", "size", "on", "flags"}
    /\ f.kind \in Kinds /\ f.size \in Nat
    /\ f.kind = "bc" => f.size = 3
    /\ f.kind = "position" => f.size = 9
IsForm(format) == IsSequence(format) /\ \A n \in 1..Len(format) : IsField(format[n])

\* A value read is bytes, and of the packet only the read cursor moves.
ReadWell(r, p) ==
    /\ r.value \in Bytes
    /\ r.packet \in PacketSet /\ r.packet.body = p.body /\ r.packet.wpos = p.wpos

LEMMA SkipMoves ==
    ASSUME NEW p \in PacketSet, NEW n \in Nat
    PROVE  /\ Skip(p, n) \in PacketSet /\ Skip(p, n).body = p.body
           /\ Skip(p, n).wpos = p.wpos /\ Skip(p, n).rpos = p.rpos + n
BY DEF Skip, PacketSet

LEMMA AheadIsBytes ==
    ASSUME NEW p \in PacketSet, NEW n \in Nat, Has(p, n)
    PROVE  /\ Ahead(p, n) \in Bytes /\ Len(Ahead(p, n)) = n
           /\ \A i \in 1..n : Ahead(p, n)[i] = p.body[p.rpos + i]
<1> DEFINE body == p.body
           a == p.rpos
<1>1. body \in Seq(Byte) /\ a \in Nat /\ a + n <= Len(body)
  BY DEF PacketSet, Bytes, Has
<1> HIDE DEF body, a
<1>2. /\ SubSeq(body, a + 1, a + n) \in Seq(Byte)
      /\ Len(SubSeq(body, a + 1, a + n)) = (IF a + 1 <= a + n THEN (a + n) - (a + 1) + 1 ELSE 0)
      /\ \A i \in 1 .. (a + n) - (a + 1) + 1 :
            SubSeq(body, a + 1, a + n)[i] = body[(a + 1) + i - 1]
  <2>1. a + 1 \in Nat \ {0} /\ a + n \in Int
    BY <1>1
  <2> QED
    BY <1>1, <2>1, SliceOf
<1>3. (a + n) - (a + 1) + 1 = n /\ \A i \in 1..n : (a + 1) + i - 1 = a + i
  BY <1>1
<1> DEFINE slice == SubSeq(body, a + 1, a + n)
<1>4. slice \in Seq(Byte) /\ Len(slice) = n /\ \A i \in 1..n : slice[i] = body[a + i]
  <2> HIDE DEF slice
  <2>1. Len(slice) = (IF a + 1 <= a + n THEN (a + n) - (a + 1) + 1 ELSE 0)
    BY <1>2 DEF slice
  <2>2. Len(slice) = n
    BY <1>1, <1>3, <2>1
  <2> QED
    BY <1>2, <1>3, <2>2 DEF slice
<1>5. Ahead(p, n) = slice
  BY DEF Ahead, body, a
<1> HIDE DEF slice
<1> QED
  BY <1>4, <1>5 DEF Bytes, body, a

LEMMA NumberRead ==
    ASSUME NEW p \in PacketSet, NEW n \in Nat
    PROVE  /\ ReadWell(read(p, n), p) /\ Len(read(p, n).value) = n
           /\ read(p, n).packet.rpos = p.rpos + n
<1>1. Zeros(n) \in Bytes /\ Len(Zeros(n)) = n
  <2>1. n \in Int /\ ~(n < 0)
    OBVIOUS
  <2> QED
    BY <2>1, ZerosAreBytes
<1> QED
  BY <1>1, AheadIsBytes, SkipMoves DEF read, ReadWell

LEMMA IdRead ==
    ASSUME NEW p \in PacketSet, NEW garbage \in Bytes
    PROVE  ReadWell(ReadBc(p, garbage), p)
BY AheadIsBytes, SkipMoves DEF ReadBc, ReadWell

LEMMA ArrayRead ==
    ASSUME NEW p \in PacketSet, NEW n \in Nat
    PROVE  ReadWell(ReadToArray(p, n), p) /\ Len(ReadToArray(p, n).value) = n
<1>1. Zeros(n) \in Bytes /\ Len(Zeros(n)) = n
  <2>1. n \in Int /\ ~(n < 0)
    OBVIOUS
  <2> QED
    BY <2>1, ZerosAreBytes
<1> QED
  BY <1>1, AheadIsBytes, SkipMoves DEF ReadToArray, ReadWell

LEMMA ElementChanged ==
    ASSUME NEW S, NEW s \in Seq(S), NEW i \in 1..Len(s), NEW e \in S
    PROVE  [s EXCEPT ![i] = e] \in Seq(S) /\ Len([s EXCEPT ![i] = e]) = Len(s)
<1> DEFINE t == [s EXCEPT ![i] = e]
<1>1. Len(s) \in Nat /\ DOMAIN s = 1..Len(s) /\ \A j \in 1..Len(s) : s[j] \in S
  BY LenProperties, ElementOfSeq
<1>2. DOMAIN t = 1..Len(s) /\ t = [j \in 1..Len(s) |-> t[j]] /\ \A j \in 1..Len(s) : t[j] \in S
  BY <1>1
<1> HIDE DEF t
<1>3. t \in Seq(S) /\ Len(t) = Len(s)
  BY <1>1, <1>2
<1> QED
  BY <1>3 DEF t

\* A bit that is set can be taken away.
LEMMA CanonicalIsBytes ==
    ASSUME NEW b \in Bytes, Len(b) = 9
    PROVE  Canonical(b) \in Bytes /\ Len(Canonical(b)) = 9
<1> DEFINE unsigned(n, bit) == IF (n \div bit) % 2 = 1 THEN n - bit ELSE n
           last == b[9]
           x == IF SubSeq(b, 1, 3) = Zeros(3) THEN unsigned(b[9], 128) ELSE b[9]
           y == IF SubSeq(b, 4, 6) = Zeros(3) THEN unsigned(x, 64) ELSE x
<1>0. b \in Seq(Byte) /\ 9 \in 1..Len(b)
  BY DEF Bytes
<1>1. b[9] \in Byte
  BY <1>0, ElementOfSeq
<1>2. \A n \in Byte : unsigned(n, 128) \in Byte /\ unsigned(n, 64) \in Byte
  BY DEF Byte
<1>3. y \in Byte
  <2>1. x \in Byte
    BY <1>1, <1>2
  <2> HIDE DEF x, unsigned
  <2> QED
    BY <1>2, <2>1
<1>4. Canonical(b) = [b EXCEPT ![9] = y]
  BY DEF Canonical
<1> HIDE DEF y
<1> QED
  <2>1. PICK z \in Byte : z = y
    BY <1>3
  <2>2. PICK c \in Seq(Byte) : c = b
    BY <1>0
  <2>3. PICK i \in 1..Len(c) : i = 9
    BY <1>0, <2>2
  <2>4. [c EXCEPT ![i] = z] \in Seq(Byte) /\ Len([c EXCEPT ![i] = z]) = Len(c)
    BY ElementChanged
  <2>5. [c EXCEPT ![i] = z] = Canonical(b)
    BY <1>4, <2>1, <2>2, <2>3
  <2> QED
    BY <2>2, <2>4, <2>5 DEF Bytes

LEMMA PositionRead ==
    ASSUME NEW p \in PacketSet
    PROVE  ReadWell(ReadPosition(p), p)
<1> DEFINE r == ReadToArray(p, 9)
<1>1. ReadWell(r, p) /\ Len(r.value) = 9
  BY ArrayRead
<1>2. r = [value |-> r.value, packet |-> r.packet]
  BY DEF ReadToArray
<1>3. ReadPosition(p) = [r EXCEPT !.value = Canonical(@)]
  BY DEF ReadPosition
<1> HIDE DEF r
<1>4. Canonical(r.value) \in Bytes
  BY <1>1, CanonicalIsBytes DEF ReadWell
<1>5. ReadPosition(p).value = Canonical(r.value) /\ ReadPosition(p).packet = r.packet
  BY <1>2, <1>3
<1> QED
  BY <1>1, <1>4, <1>5 DEF ReadWell

\* As many of the bytes counted as are left.
LEMMA LeftAhead ==
    ASSUME NEW p \in PacketSet, NEW n \in Nat
    PROVE  Least(n, Left(p)) \in Nat /\ Left(p) \in Nat
           /\ (Has(p, Least(n, Left(p))) \/ Least(n, Left(p)) = 0)
           /\ (Has(p, Left(p)) \/ Left(p) = 0)
<1> DEFINE size == Len(p.body)
           at == p.rpos
<1>1. size \in Nat /\ at \in Nat
  BY LenProperties DEF PacketSet, Bytes
<1> HIDE DEF size, at
<1>2. Left(p) = IF at < size THEN size - at ELSE 0
  BY DEF Left, size, at
<1>3. Left(p) \in Nat /\ (at + Left(p) <= size \/ Left(p) = 0)
  BY <1>1, <1>2
<1>4. Least(n, Left(p)) = IF n < Left(p) THEN n ELSE Left(p)
  BY DEF Least
<1>5. Least(n, Left(p)) \in Nat /\ (at + Least(n, Left(p)) <= size \/ Least(n, Left(p)) = 0)
  BY <1>1, <1>3, <1>4
<1> QED
  BY <1>3, <1>5 DEF Has, size, at

\* Nothing is ahead of a cursor that moves by nothing.
LEMMA AheadOrNothing ==
    ASSUME NEW p \in PacketSet, NEW n \in Nat, Has(p, n) \/ n = 0
    PROVE  Ahead(p, n) \in Bytes /\ Len(Ahead(p, n)) = n
<1>1. CASE Has(p, n)
  BY <1>1, AheadIsBytes
<1>2. CASE n = 0
  <2>1. p.rpos + 1 \in Int /\ p.rpos + n \in Int /\ p.rpos + n < p.rpos + 1
    BY <1>2 DEF PacketSet
  <2>2. SubSeq(p.body, p.rpos + 1, p.rpos + n) = <<>>
    BY <2>1, SubSeqEmpty
  <2>3. Ahead(p, n) = <<>>
    BY <2>2 DEF Ahead
  <2> QED
    BY <1>2, <2>3, EmptySeq DEF Bytes
<1> QED
  BY <1>1, <1>2

LEMMA CountedRead ==
    ASSUME NEW p \in PacketSet
    PROVE  ReadWell(ReadString(p), p)
<1> DEFINE counted == read(p, 2)
           q == counted.packet
           count == Number16(counted.value)
           n == Least(count, Left(q))
           available == Ahead(q, n)
           zeros == {i \in DOMAIN available : available[i] = 0}
           first == CHOOSE i \in zeros : \A j \in zeros : i <= j
<1>1. ReadWell(counted, p) /\ Len(counted.value) = 2
  BY NumberRead
<1>2. /\ q \in PacketSet /\ q.body = p.body /\ q.wpos = p.wpos
      /\ counted.value \in Bytes /\ count \in Nat
  BY <1>1, NumberOfBytes DEF ReadWell
<1> HIDE DEF counted, q, count
<1>3. n \in Nat /\ (Has(q, n) \/ n = 0)
  BY <1>2, LeftAhead
<1> HIDE DEF n
<1>4. available \in Bytes /\ Len(available) = n
  BY <1>2, <1>3, AheadOrNothing
<1> HIDE DEF available
<1>5. available \in Seq(Byte) /\ DOMAIN available = 1..n
  BY <1>4 DEF Bytes
<1>6. CASE zeros = {}
  <2>1. ReadString(p) = [value |-> available, packet |-> Skip(q, Len(available))]
    BY <1>6 DEF ReadString, available, n, count, q, counted
  <2>2. Skip(q, n) \in PacketSet /\ Skip(q, n).body = q.body /\ Skip(q, n).wpos = q.wpos
    BY <1>2, <1>3, SkipMoves
  <2> QED
    BY <1>2, <1>4, <2>1, <2>2 DEF ReadWell
<1>7. CASE zeros # {}
  <2>1. zeros \subseteq Nat /\ zeros \subseteq 1..n
    BY <1>3, <1>5
  <2>2. \E i \in zeros : \A j \in zeros : i <= j
    BY <1>7, <2>1, LeastOf
  <2> HIDE DEF zeros
  <2>3. first \in zeros
    BY <2>2
  <2> HIDE DEF first
  <2>4. first \in 1..n
    BY <2>1, <2>3
  <2>5. ReadString(p) = [value |-> SubSeq(available, 1, first - 1), packet |-> Skip(q, first + 1)]
    BY <1>7 DEF ReadString, available, n, count, q, counted, zeros, first
  <2>6. SubSeq(available, 1, first - 1) \in Bytes
    <3>1. 1 \in Nat \ {0} /\ first - 1 \in Int /\ first - 1 <= Len(available)
      BY <1>3, <1>4, <2>4
    <3> QED
      BY <1>5, <3>1, SliceOf DEF Bytes
  <2>7. first + 1 \in Nat
    BY <1>3, <2>4
  <2>8. Skip(q, first + 1) \in PacketSet /\ Skip(q, first + 1).body = q.body
        /\ Skip(q, first + 1).wpos = q.wpos
    BY <1>2, <2>7, SkipMoves
  <2> QED
    BY <1>2, <2>5, <2>6, <2>8 DEF ReadWell
<1> QED
  BY <1>6, <1>7

LEMMA GivenRead ==
    ASSUME NEW p \in PacketSet, NEW length \in Nat
    PROVE  ReadWell(ReadBytes(p, length), p)
<1> DEFINE n == IF length > 255 THEN Left(p) ELSE Least(length, Left(p))
<1>1. n \in Nat /\ (Has(p, n) \/ n = 0)
  BY LeftAhead
<1>2. ReadBytes(p, length) = [value |-> Ahead(p, n), packet |-> Skip(p, n)]
  BY DEF ReadBytes
<1> HIDE DEF n
<1> QED
  BY <1>1, <1>2, AheadOrNothing, SkipMoves DEF ReadWell

LEMMA VectorRead ==
    ASSUME NEW p \in PacketSet
    PROVE  ReadWell(ReadVector(p), p)
<1> DEFINE counted == read(p, 2)
           q == counted.packet
           n == Number16(counted.value)
           value == [i \in 1..n |-> IF q.rpos + i <= Len(q.body) THEN q.body[q.rpos + i] ELSE 0]
<1>1. ReadWell(counted, p) /\ Len(counted.value) = 2
  BY NumberRead
<1>2. /\ q \in PacketSet /\ q.body = p.body /\ q.wpos = p.wpos
      /\ counted.value \in Bytes /\ n \in Nat
  BY <1>1, NumberOfBytes DEF ReadWell
<1>3. ReadVector(p) = [value |-> value, packet |-> Skip(q, n)]
  BY DEF ReadVector
<1> HIDE DEF counted, q, n
<1>4. \A i \in 1..n : value[i] \in Byte
  <2> SUFFICES ASSUME NEW i \in 1..n PROVE value[i] \in Byte
    OBVIOUS
  <2>1. q.body \in Seq(Byte) /\ q.rpos \in Nat /\ Len(q.body) \in Nat
    BY <1>2, LenProperties DEF PacketSet, Bytes
  <2>2. CASE q.rpos + i <= Len(q.body)
    <3>1. q.rpos + i \in 1..Len(q.body)
      BY <1>2, <2>1, <2>2
    <3> QED
      BY <2>1, <2>2, <3>1, ElementOfSeq
  <2>3. CASE ~(q.rpos + i <= Len(q.body))
    BY <2>3 DEF Byte
  <2> QED
    BY <2>2, <2>3
<1>5. value \in Seq(Byte)
  <2>1. DOMAIN value = 1..n /\ value = [i \in 1..n |-> value[i]]
    OBVIOUS
  <2> HIDE DEF value
  <2> QED
    BY <1>2, <1>4, <2>1
<1> HIDE DEF value
<1> QED
  <2>1. Skip(q, n) \in PacketSet /\ Skip(q, n).body = q.body /\ Skip(q, n).wpos = q.wpos
    BY <1>2, SkipMoves
  <2>2. ReadVector(p).value = value /\ ReadVector(p).packet = Skip(q, n)
    BY <1>3
  <2>3. value \in Bytes
    BY <1>5 DEF Bytes
  <2> QED
    BY <1>2, <2>1, <2>2, <2>3 DEF ReadWell

LEMMA SizedRead ==
    ASSUME NEW p \in PacketSet
    PROVE  LET n == read(p, 2) IN ReadWell(ReadBytes(n.packet, Number16(n.value)), p)
<1> DEFINE n == read(p, 2)
           q == n.packet
           length == Number16(n.value)
<1>1. ReadWell(n, p) /\ Len(n.value) = 2
  BY NumberRead
<1>2. q \in PacketSet /\ q.body = p.body /\ q.wpos = p.wpos /\ length \in Nat
  BY <1>1, NumberOfBytes DEF ReadWell
<1> HIDE DEF n, q, length
<1>3. ReadWell(ReadBytes(q, length), q)
  BY <1>2, GivenRead
<1>4. ReadWell(ReadBytes(q, length), p)
  BY <1>2, <1>3 DEF ReadWell
<1> QED
  BY <1>4 DEF n, q, length

LEMMA FieldRead ==
    ASSUME NEW f, IsField(f), NEW p \in PacketSet, NEW garbage \in Bytes
    PROVE  ReadWell(ReadField(f, p, garbage), p)
<1>1. f.kind \in Kinds /\ f.size \in Nat
  BY DEF IsField
<1>2. CASE f.kind = "number"
  BY <1>1, <1>2, NumberRead DEF ReadField
<1>3. CASE f.kind = "bc"
  BY <1>3, IdRead DEF ReadField
<1>4. CASE f.kind = "position"
  BY <1>4, PositionRead DEF ReadField
<1>5. CASE f.kind = "string"
  BY <1>5, CountedRead DEF ReadField
<1>6. CASE f.kind = "vector"
  BY <1>6, VectorRead DEF ReadField
<1>7. CASE f.kind = "sized"
  BY <1>7, SizedRead DEF ReadField
<1> QED
  BY <1>1, <1>2, <1>3, <1>4, <1>5, <1>6, <1>7 DEF Kinds

\* Reading a format moves the read cursor and leaves bytes in every field.
LEMMA FormatRead ==
    ASSUME NEW format, IsForm(format), NEW p \in PacketSet, NEW names,
           NEW defaults \in [names -> Bytes], NEW garbage \in Bytes
    PROVE  LET r == ReadFormat(format, p, defaults, garbage)
           IN  /\ r.packet \in PacketSet /\ r.packet.body = p.body /\ r.packet.wpos = p.wpos
               /\ r.fields \in [names -> Bytes]
<1> DEFINE w == ReadUpTo(format, p, defaults, garbage)
           P(n) == /\ w[n].packet \in PacketSet
                   /\ w[n].packet.body = p.body /\ w[n].packet.wpos = p.wpos
                   /\ w[n].fields \in [names -> Bytes]
           S == {n \in Nat : n <= Len(format) => P(n)}
<1>0. Len(format) \in Nat
  BY SequenceDomain DEF IsForm
<1>1. /\ w[0] = [packet |-> p, fields |-> defaults]
      /\ \A n \in 1..Len(format) : w[n] = ReadNext(format[n], w[n - 1], garbage)
  BY <1>0, ReadingUnrolls
<1> HIDE DEF w
<1>2. 0 \in S
  <2>1. P(0)
    BY <1>1
  <2> HIDE DEF P
  <2> QED
    BY <2>1
<1> HIDE DEF P
<1>3. ASSUME NEW n \in Nat, n \in S
      PROVE  n + 1 \in S
  <2> SUFFICES ASSUME n + 1 <= Len(format) PROVE P(n + 1)
    OBVIOUS
  <2> DEFINE f == format[n + 1]
             before == w[n]
             r == ReadField(f, before.packet, garbage)
  <2>1. P(n) /\ n + 1 \in 1..Len(format) /\ (n + 1) - 1 = n
    BY <1>0, <1>3
  <2>2. IsField(f)
    BY <2>1 DEF IsForm
  <2>3. w[n + 1] = ReadNext(f, before, garbage)
    BY <1>1, <2>1
  <2>4. /\ before.packet \in PacketSet
        /\ before.packet.body = p.body /\ before.packet.wpos = p.wpos
        /\ before.fields \in [names -> Bytes]
    BY <2>1 DEF P
  <2> HIDE DEF f, before
  <2>5. ReadWell(r, before.packet)
    BY <2>2, <2>4, FieldRead
  <2>6. CASE ~Present(f, before.fields)
    <3>1. w[n + 1] = before
      BY <2>3, <2>6 DEF ReadNext
    <3> QED
      BY <2>4, <3>1 DEF P
  <2>7. CASE Present(f, before.fields)
    <3> HIDE DEF r
    <3>1. w[n + 1] = [packet |-> r.packet,
                      fields |-> [before.fields EXCEPT ![f.name] = r.value]]
      BY <2>3, <2>7 DEF ReadNext, r
    <3>2. r.value \in Bytes /\ r.packet \in PacketSet /\ r.packet.body = before.packet.body
          /\ r.packet.wpos = before.packet.wpos
      BY <2>5 DEF ReadWell
    <3>3. [before.fields EXCEPT ![f.name] = r.value] \in [names -> Bytes]
      BY <2>4, <3>2
    <3> QED
      BY <2>4, <3>1, <3>2, <3>3 DEF P
  <2> QED
    BY <2>6, <2>7
<1>4. P(Len(format))
  <2>1. Nat \subseteq S
    BY <1>2, <1>3, SetInduction
  <2> QED
    BY <1>0, <2>1
<1> QED
  BY <1>4 DEF P, w, ReadFormat

-----------------------------------------------------------------------------
(* The formats of the handlers. *)

LEMMA FieldFits ==
    ASSUME NEW kind \in Kinds, NEW name, NEW size \in Nat,
           kind = "bc" => size = 3, kind = "position" => size = 9
    PROVE  IsField(Field(kind, name, size))
BY DEF Field, IsField

LEMMA OneFieldFits ==
    ASSUME NEW f, IsField(f)
    PROVE  IsForm(<<f>>)
<1> DEFINE s == <<f>>
<1>1. s \in Seq({f}) /\ Len(s) = 1 /\ s[1] = f
  OBVIOUS
<1> HIDE DEF s
<1>2. IsSequence(s)
  BY <1>1, SubrangeSequence
<1>3. \A n \in 1..Len(s) : IsField(s[n])
  BY <1>1
<1> QED
  BY <1>2, <1>3 DEF IsForm, s

LEMMA OneField ==
    ASSUME NEW name, NEW size \in Nat
    PROVE  /\ IsForm(Number(name, size)) /\ IsForm(Bc(name)) /\ IsForm(Position(name))
           /\ IsForm(String(name)) /\ IsForm(Vector(name)) /\ IsForm(Sized(name))
<1>1. {"number", "bc", "position", "string", "vector", "sized"} \subseteq Kinds
  BY DEF Kinds
<1>2. /\ IsField(Field("number", name, size))
      /\ IsField(Field("bc", name, 3)) /\ IsField(Field("position", name, 9))
      /\ IsField(Field("string", name, 0)) /\ IsField(Field("vector", name, 0))
      /\ IsField(Field("sized", name, 0))
  BY <1>1, FieldFits
<1> QED
  BY <1>2, OneFieldFits DEF Number, Bc, Position, String, Vector, Sized

LEMMA ManyFields ==
    ASSUME NEW names, IsSequence(names), NEW size \in Nat
    PROVE  IsForm(Numbers(names, size))
<1> DEFINE s == Numbers(names, size)
           k == Len(names)
<1>1. k \in Nat /\ DOMAIN names = 1..k
  BY SequenceDomain
<1>2. "number" \in Kinds
  BY DEF Kinds
<1>3. DOMAIN s = 1..k /\ \A i \in 1..k : s[i] = Field("number", names[i], size)
  BY <1>1 DEF Numbers
<1>4. s = [i \in 1..k |-> s[i]]
  BY <1>1 DEF Numbers
<1> HIDE DEF s, k
<1>5. IsSequence(s) /\ Len(s) = k
  BY <1>1, <1>3, <1>4, IntervalSequence
<1>6. \A i \in 1..k : IsField(s[i])
  BY <1>2, <1>3, FieldFits
<1> QED
  BY <1>5, <1>6 DEF IsForm, s

LEMMA ConditionalFields ==
    ASSUME NEW on, NEW flags, NEW format, IsForm(format)
    PROVE  IsForm(When(on, flags, format))
<1> DEFINE s == When(on, flags, format)
           k == Len(format)
<1>1. k \in Nat /\ DOMAIN format = 1..k /\ \A i \in 1..k : IsField(format[i])
  BY SequenceDomain DEF IsForm
<1>2. ASSUME NEW f, IsField(f)
      PROVE  IsField([f EXCEPT !.on = on, !.flags = flags])
  <2> DEFINE g == [f EXCEPT !.on = on]
             h == [g EXCEPT !.flags = flags]
  <2>1. /\ DOMAIN f = {"kind", "name", "size", "on", "flags"}
        /\ f.kind \in Kinds /\ f.size \in Nat
        /\ f.kind = "bc" => f.size = 3
        /\ f.kind = "position" => f.size = 9
    BY <1>2 DEF IsField
  <2>2. DOMAIN g = DOMAIN f /\ g.kind = f.kind /\ g.size = f.size
    BY <2>1
  <2> HIDE DEF g
  <2>3. DOMAIN h = DOMAIN g /\ h.kind = g.kind /\ h.size = g.size
    BY <2>1, <2>2
  <2>4. h = [f EXCEPT !.on = on, !.flags = flags]
    BY DEF g
  <2> HIDE DEF h
  <2> QED
    BY <2>1, <2>2, <2>3, <2>4 DEF IsField
<1>3. /\ DOMAIN s = 1..k
      /\ \A i \in 1..k : s[i] = [format[i] EXCEPT !.on = on, !.flags = flags]
      /\ s = [i \in 1..k |-> s[i]]
  BY <1>1 DEF When
<1> HIDE DEF s, k
<1>4. IsSequence(s) /\ Len(s) = k
  BY <1>1, <1>3, IntervalSequence
<1>5. ASSUME NEW i \in 1..k
      PROVE  IsField(s[i])
  <2>1. PICK f : f = format[i]
    OBVIOUS
  <2>2. IsField(f) /\ s[i] = [f EXCEPT !.on = on, !.flags = flags]
    BY <1>1, <1>3, <2>1
  <2> QED
    BY <1>2, <2>2
<1> QED
  BY <1>4, <1>5 DEF IsForm, s

LEMMA JoinedFields ==
    ASSUME NEW s, NEW t, IsForm(s), IsForm(t)
    PROVE  IsForm(s \o t)
<1> DEFINE u == s \o t
           a == Len(s)
           b == Len(t)
<1>1. IsSequence(s) /\ IsSequence(t) /\ a \in Nat /\ b \in Nat
  BY SequenceDomain DEF IsForm
<1>2. /\ IsSequence(u) /\ Len(u) = a + b
      /\ \A i \in 1..a : u[i] = s[i]
      /\ \A i \in a + 1 .. a + b : u[i] = t[i - a]
  BY <1>1, ConcatenatedSequence
<1> HIDE DEF u, a, b
<1>3. ASSUME NEW i \in 1..(a + b)
      PROVE  IsField(u[i])
  <2>1. CASE i <= a
    <3>1. i \in 1..a
      BY <1>1, <2>1
    <3> QED
      BY <1>2, <3>1 DEF IsForm, a
  <2>2. CASE ~(i <= a)
    <3>1. i \in a + 1 .. a + b /\ i - a \in 1..b
      BY <1>1, <2>2
    <3> QED
      BY <1>2, <3>1 DEF IsForm, b
  <2> QED
    BY <2>1, <2>2
<1> QED
  BY <1>2, <1>3 DEF IsForm, u

LEMMA HeaderForm == IsForm(WorldHeader)
<1>2. IsSequence(<<"unk", "level">>) /\ IsSequence(<<"crc", "counter">>)
  <2>1. <<"unk", "level">> \in Seq({"unk", "level"}) /\ <<"crc", "counter">> \in Seq({"crc", "counter"})
    OBVIOUS
  <2> QED
    BY <2>1, SubrangeSequence
<1>3. IsForm(Numbers(<<"unk", "level">>, 1)) /\ IsForm(Numbers(<<"crc", "counter">>, 1))
  BY <1>2, ManyFields
<1>4. IsForm(When("level", {1}, Numbers(<<"crc", "counter">>, 1)))
  BY <1>3, ConditionalFields
<1>5. IsForm(Number("opCode", 2))
  BY OneField
<1> QED
  BY <1>3, <1>4, <1>5, JoinedFields DEF WorldHeader
\* The lists of names.
LEMMA NameLists ==
    /\ IsSequence(<<"unk", "level">>) /\ IsSequence(<<"crc", "counter">>)
    /\ IsSequence(<<"VelX", "VelY", "VelZ">>)
    /\ IsSequence(<<"Stance", "Alertness", "ActorFlags">>)
    /\ IsSequence(Decals) /\ IsSequence(<<"copy", "copy", "copy", "copy">>)
    /\ IsSequence(<<"SkinColorId", "ModelId">>) /\ IsSequence(Options)
    /\ IsSequence(<<"race", "gender">>)
    /\ IsSequence(<<"ability1", "ability2", "ability3", "charLevel">>)
    /\ IsSequence(<<"tm", "when">>) /\ IsSequence(<<"pFrom", "pTo">>)
    /\ IsSequence(<<"accountID", "cookie">>) /\ IsSequence(<<"instanceId", "x", "y">>)
    /\ IsSequence(<<"zeros">>) /\ IsSequence(<<"code", "result">>)
    /\ IsSequence(<<"tm", "when", "elapsed", "world1000">>) /\ IsSequence(<<"local", "world">>)
    /\ IsSequence(<<"serverCount", "serverID">>) /\ IsSequence(<<"serverOnline", "serverLoad">>)
    /\ IsSequence(<<"requestId", "next", "count">>)
<1>1. ASSUME NEW a PROVE IsSequence(<<a>>)
  <2>1. <<a>> \in Seq({a})
    OBVIOUS
  <2> QED
    BY <2>1, SubrangeSequence
<1>2. ASSUME NEW a, NEW b PROVE IsSequence(<<a, b>>)
  <2>1. <<a, b>> \in Seq({a, b})
    OBVIOUS
  <2> QED
    BY <2>1, SubrangeSequence
<1>3. ASSUME NEW a, NEW b, NEW c PROVE IsSequence(<<a, b, c>>)
  <2>1. <<a, b, c>> \in Seq({a, b, c})
    OBVIOUS
  <2> QED
    BY <2>1, SubrangeSequence
<1>4. ASSUME NEW a, NEW b, NEW c, NEW d PROVE IsSequence(<<a, b, c, d>>)
  <2>1. <<a, b, c, d>> \in Seq({a, b, c, d})
    OBVIOUS
  <2> QED
    BY <2>1, SubrangeSequence
<1> QED
  BY <1>1, <1>2, <1>3, <1>4, Zenon DEF Decals, Options

LEMMA MovementDataForm == IsForm(ReadUnitMovementData)
<1>1. /\ IsForm(Numbers(<<"VelX", "VelY", "VelZ">>, 2))
      /\ IsForm(Numbers(<<"Stance", "Alertness", "ActorFlags">>, 1))
  BY NameLists, ManyFields
<1> DEFINE ground == Number("GcFlags", 1) \o Number("GcPartId", 2) \o Position("Pos2")
                     \o Number("Rot2", 3)
<1>2. IsForm(ground)
  BY OneField, JoinedFields
<1>3. /\ IsForm(When("ActorFlags", HasBit({128}), Number("FallVel", 2)))
      /\ IsForm(When("ActorFlags", HasBit({32}), ground))
      /\ IsForm(When("ActorFlags", HasBit({32, 64}), Number("GcId", 4)))
      /\ IsForm(When("ActorFlags", HasBit({64}), Number("ClimbData", 4)))
  BY <1>2, OneField, ConditionalFields
<1> HIDE DEF ground
<1>4. IsForm(Position("Pos")) /\ IsForm(Number("Rot", 3)) /\ IsForm(Number("DeltaMov", 3))
  BY OneField
<1> QED
  BY <1>1, <1>3, <1>4, JoinedFields, Zenon DEF ReadUnitMovementData, ground

\* The body of a movement keeps its own conditions.
LEMMA MovementForm ==
    ASSUME NEW body, IsForm(body)
    PROVE  IsForm(Movement(body))
<1> DEFINE inner == When("Type", {1}, body)
           s == [i \in DOMAIN body |-> IF body[i].on = "" THEN inner[i] ELSE body[i]]
           k == Len(body)
<1>1. IsForm(inner) /\ DOMAIN inner = DOMAIN body
  BY ConditionalFields DEF When
<1>2. k \in Nat /\ DOMAIN body = 1..k
  BY SequenceDomain DEF IsForm
<1>3. Len(inner) = k
  BY <1>1, <1>2, SequenceDomain DEF IsForm
<1> HIDE DEF inner
<1>4. DOMAIN s = 1..k /\ s = [i \in 1..k |-> s[i]]
      /\ \A i \in 1..k : s[i] = inner[i] \/ s[i] = body[i]
  BY <1>2
<1>5. \A i \in 1..k : IsField(inner[i]) /\ IsField(body[i])
  BY <1>1, <1>3 DEF IsForm
<1>6. IsForm(s)
  <2> HIDE DEF s, k
  <2>1. IsSequence(s) /\ Len(s) = k
    BY <1>2, <1>4, IntervalSequence
  <2> QED
    BY <1>4, <1>5, <2>1 DEF IsForm
<1>7. /\ IsForm(Bc("objId")) /\ IsForm(Number("Type", 1)) /\ IsForm(Number("Time", 4))
      /\ IsForm(Number("Flags", 1))
  BY OneField
<1>8. IsForm(When("Flags", HasBit({16}), Number("ScType", 4) \o Number("Phase", 1)))
  BY OneField, JoinedFields, ConditionalFields
<1>9. IsForm(MovementHead)
  BY <1>7, <1>8, JoinedFields DEF MovementHead
<1>10. Movement(body) = Bc("objId") \o Number("Type", 1) \o MovementHead \o s
  BY DEF Movement, inner
<1> HIDE DEF s
<1> QED
  BY <1>6, <1>7, <1>9, <1>10, JoinedFields

LEMMA ModelForm ==
    ASSUME NEW decals, IsSequence(decals)
    PROVE  IsForm(UnitCustomModel(decals))
<1>1. IsForm(Numbers(decals, 8)) /\ IsForm(Numbers(<<"SkinColorId", "ModelId">>, 4))
  BY NameLists, ManyFields
<1>2. /\ IsForm(Number("MoveableDecal", 20)) /\ IsForm(Number("MapsAndColours", 36))
      /\ IsForm(Vector("Modifier")) /\ IsForm(Number("ModelType", 1))
      /\ IsForm(Number("HairColorId", 4))
  BY OneField
<1>3. IsForm(FaceModel(decals))
  BY <1>1, <1>2, JoinedFields DEF FaceModel
<1>4. /\ IsForm(When("ModelType", 1..255, Number("HairColorId", 4)))
      /\ IsForm(When("ModelType", 2..255, Numbers(<<"SkinColorId", "ModelId">>, 4)))
      /\ IsForm(When("ModelType", 3..255, FaceModel(decals)))
  BY <1>1, <1>2, <1>3, ConditionalFields, Zenon
<1> QED
  BY <1>2, <1>4, JoinedFields, Zenon DEF UnitCustomModel

LEMMA OptionsForm == IsForm(ReadOptions) /\ IsForm(WriteOptions)
<1>1. /\ IsForm(Number("Flag", 1)) /\ IsForm(Number("Stp", 6)) /\ IsForm(Number("Helmet", 1))
      /\ IsForm(Number("BackHoldable", 1)) /\ IsForm(Number("Cosplay", 1))
      /\ IsForm(Number("CosplayBackpack", 1))
  BY OneField
<1>2. /\ IsForm(When("Flag", HasBit({1}), Number("Stp", 6)))
      /\ IsForm(When("Flag", HasBit({2}), Number("Helmet", 1)))
      /\ IsForm(When("Flag", HasBit({4}), Number("BackHoldable", 1)))
      /\ IsForm(When("Flag", HasBit({8}), Number("Cosplay", 1)))
      /\ IsForm(When("Flag", HasBit({16}), Number("CosplayBackpack", 1)))
  BY <1>1, ConditionalFields, Zenon
<1>3. IsForm(Numbers(Options, 1))
  BY NameLists, ManyFields
<1>4. IsForm(ReadOptions)
  BY <1>1, <1>2, JoinedFields, Zenon DEF ReadOptions
<1>5. IsForm(WriteOptions)
  BY <1>1, <1>3, JoinedFields DEF WriteOptions
<1> QED
  BY <1>4, <1>5
\* What is a header: bytes, and not none.
Headers == {header \in Bytes : header # <<>>}

LEMMA ReplyHeaders ==
    ASSUME NEW n \in Nat
    PROVE  Bytes16(n) \in Headers /\ ServerHeader(1, n) \in Headers /\ ServerHeader(2, n) \in Headers
<1> DEFINE low == Bytes16(n)
<1>1. low \in Seq(Byte) /\ Len(low) = 2
  BY TwoBytes DEF Bytes
<1>2. <<221, 1, 0, 0>> \in Seq(Byte) /\ <<221, 2>> \in Seq(Byte)
  BY DEF Byte
<1>3. ServerHeader(1, n) = <<221, 1, 0, 0>> \o low /\ ServerHeader(2, n) = <<221, 2>> \o low
  BY DEF ServerHeader
<1> HIDE DEF low
<1>4. low # <<>>
  BY <1>1
<1>5. ASSUME NEW s \in Seq(Byte)
      PROVE  s \o low \in Seq(Byte) /\ s \o low # <<>>
  <2>1. s \o low \in Seq(Byte) /\ Len(s \o low) = Len(s) + 2 /\ Len(s) \in Nat
    BY <1>1, ConcatProperties, LenProperties
  <2> QED
    BY <2>1
<1>6. low \in Headers /\ ServerHeader(1, n) \in Headers /\ ServerHeader(2, n) \in Headers
  BY <1>1, <1>2, <1>3, <1>4, <1>5 DEF Headers, Bytes
<1> QED
  BY <1>6 DEF low

LEMMA WorldRequestForms ==
    \A h \in DOMAIN WorldRequests : IsForm(WorldRequests[h])
<1>1. /\ IsForm(Numbers(<<"race", "gender">>, 1)) /\ IsForm(Numbers(<<"tm", "when">>, 8))
      /\ IsForm(Numbers(<<"ability1", "ability2", "ability3", "charLevel">>, 1))
  BY NameLists, ManyFields
<1>2. IsForm(ReadModel) /\ IsForm(ReadOptions) /\ IsForm(Movement(ReadUnitMovementData))
  BY NameLists, ModelForm, OptionsForm, MovementDataForm, MovementForm DEF ReadModel
<1>3. IsForm(WorldRequests.CSListCharacter)
  BY OneField, JoinedFields DEF WorldRequests
<1>4. IsForm(WorldRequests.CSCreateCharacter)
  BY <1>1, <1>2, OneField, JoinedFields DEF WorldRequests
<1>5. IsForm(WorldRequests.CSCharacterSelect)
  BY OneField, JoinedFields DEF WorldRequests
<1>6. IsForm(WorldRequests.CSSaveUIData)
  BY OneField, JoinedFields DEF WorldRequests
<1>7. IsForm(WorldRequests.CSRestrictCheck)
  BY OneField, JoinedFields DEF WorldRequests
<1>8. IsForm(WorldRequests.HandlePing)
  BY <1>1, OneField, JoinedFields DEF WorldRequests
<1>9. /\ IsForm(WorldRequests.X2EnterWorld) /\ IsForm(WorldRequests.CSSetLpManageCharacter)
      /\ IsForm(WorldRequests.CSNotifySubZone) /\ IsForm(WorldRequests.CSPremiumServieceMsg)
      /\ IsForm(WorldRequests.HandleFinishState)
      /\ IsForm(WorldRequests.CSSpawnCharacter) /\ IsForm(WorldRequests.CSMoveUnit)
  BY <1>2, OneField DEF WorldRequests
<1>10. DOMAIN WorldRequests =
         {"X2EnterWorld", "CSListCharacter", "CSCreateCharacter", "CSCharacterSelect",
          "CSSpawnCharacter", "CSMoveUnit", "CSSetLpManageCharacter", "CSNotifySubZone",
          "CSSaveUIData", "CSRestrictCheck", "CSPremiumServieceMsg", "HandleFinishState",
          "HandlePing"}
  BY DEF WorldRequests
<1> QED
  BY <1>3, <1>4, <1>5, <1>6, <1>7, <1>8, <1>9, <1>10

LEMMA LoginAndStreamRequestForms ==
    /\ \A h \in DOMAIN LoginRequests : IsForm(LoginRequests[h])
    /\ \A h \in DOMAIN StreamRequests : IsForm(StreamRequests[h])
<1>1. /\ IsForm(Numbers(<<"pFrom", "pTo">>, 4)) /\ IsForm(Numbers(<<"accountID", "cookie">>, 4))
      /\ IsForm(Numbers(<<"instanceId", "x", "y">>, 4))
  BY NameLists, ManyFields
<1>2. IsForm(LoginRequests.CARequestAuth)
  BY <1>1, OneField, JoinedFields DEF LoginRequests
<1>3. IsForm(StreamRequests.CTJoin) /\ IsForm(StreamRequests.CTRequestCell)
  BY <1>1 DEF StreamRequests
<1>4. DOMAIN LoginRequests = {"CARequestAuth"} /\ DOMAIN StreamRequests = {"CTJoin", "CTRequestCell"}
  BY DEF LoginRequests, StreamRequests
<1> QED
  BY <1>2, <1>3, <1>4

LEMMA WorldReplyForms ==
    \A h \in DOMAIN WorldReplies :
        IsForm(WorldReplies[h].format) /\ WorldReplies[h].header \in Headers
<1>1. /\ IsForm(Numbers(<<"zeros">>, 9)) /\ IsForm(Numbers(<<"code", "result">>, 1))
      /\ IsForm(Numbers(<<"tm", "when", "elapsed", "world1000">>, 8))
      /\ IsForm(Numbers(<<"local", "world">>, 4))
  BY NameLists, ManyFields
<1>2. IsForm(WorldReplies.X2EnterWorld.format)
  BY OneField, JoinedFields DEF WorldReplies, Reply
<1>3. /\ IsForm(WorldReplies.CSRefreshInCharacterList.format)
      /\ IsForm(WorldReplies.CSSetLpManageCharacter.format)
  BY <1>1, OneField DEF WorldReplies, Reply
<1>4. IsForm(WorldReplies.CSRestrictCheck.format)
  BY <1>1, OneField, JoinedFields DEF WorldReplies, Reply
<1>5. IsForm(WorldReplies.CSPremiumServieceMsg.format)
  BY OneField, JoinedFields DEF WorldReplies, Reply
<1>6. IsForm(WorldReplies.HandlePing.format)
  BY <1>1, JoinedFields DEF WorldReplies, Reply
<1>7. /\ WorldReplies.X2EnterWorld.header = ServerHeader(1, 0)
      /\ WorldReplies.CSRefreshInCharacterList.header = ServerHeader(1, 461)
      /\ WorldReplies.CSSetLpManageCharacter.header = ServerHeader(1, 72)
      /\ WorldReplies.CSRestrictCheck.header = ServerHeader(1, 462)
      /\ WorldReplies.CSPremiumServieceMsg.header = ServerHeader(1, 417)
      /\ WorldReplies.HandlePing.header = ServerHeader(2, 19)
  BY DEF WorldReplies, Reply
<1>8. \A n \in {0, 461, 72, 462, 417, 19} : n \in Nat
  OBVIOUS
<1>9. DOMAIN WorldReplies = {"X2EnterWorld", "CSRefreshInCharacterList", "CSSetLpManageCharacter",
                             "CSRestrictCheck", "CSPremiumServieceMsg", "HandlePing"}
  BY DEF WorldReplies
<1> QED
  BY <1>2, <1>3, <1>4, <1>5, <1>6, <1>7, <1>8, <1>9, ReplyHeaders

LEMMA LoginAndStreamReplyForms ==
    /\ \A h \in DOMAIN LoginReplies :
          IsForm(LoginReplies[h].format) /\ LoginReplies[h].header \in Headers
    /\ \A h \in DOMAIN StreamReplies :
          IsForm(StreamReplies[h].format) /\ StreamReplies[h].header \in Headers
<1>1. /\ IsForm(Numbers(<<"serverCount", "serverID">>, 1))
      /\ IsForm(Numbers(<<"serverOnline", "serverLoad">>, 1))
      /\ IsForm(Numbers(<<"requestId", "next", "count">>, 4))
  BY NameLists, ManyFields
<1>2. IsForm(LoginReplies.CARequestAuth.format) /\ IsForm(LoginReplies.CAEnterWorld.format)
  BY OneField, JoinedFields DEF LoginReplies, Reply
<1>3. IsForm(LoginReplies.CAListWorld.format)
  BY <1>1, OneField, JoinedFields DEF LoginReplies, Reply
<1>4. IsForm(StreamReplies.CTJoin.format) /\ IsForm(StreamReplies.CTRequestCell.format)
  BY <1>1, OneField DEF StreamReplies, Reply
<1>5. /\ LoginReplies.CARequestAuth.header = Bytes16(0)
      /\ LoginReplies.CAListWorld.header = Bytes16(8)
      /\ LoginReplies.CAEnterWorld.header = Bytes16(10)
      /\ StreamReplies.CTJoin.header = Bytes16(1) /\ StreamReplies.CTRequestCell.header = Bytes16(2)
  BY DEF LoginReplies, StreamReplies, Reply
<1>6. \A n \in {0, 8, 10, 1, 2} : n \in Nat
  OBVIOUS
<1>7. /\ DOMAIN LoginReplies = {"CARequestAuth", "CAListWorld", "CAEnterWorld"}
      /\ DOMAIN StreamReplies = {"CTJoin", "CTRequestCell"}
  BY DEF LoginReplies, StreamReplies
<1> QED
  BY <1>2, <1>3, <1>4, <1>5, <1>6, <1>7, ReplyHeaders
LEMMA RequestForms ==
    /\ \A h \in DOMAIN RequestFormat : IsForm(RequestFormat[h])
    /\ \A h : IsForm(FormatOf(h))
<1>1. \A h \in DOMAIN RequestFormat :
         \/ h \in DOMAIN WorldRequests /\ RequestFormat[h] = WorldRequests[h]
         \/ h \in DOMAIN LoginRequests /\ RequestFormat[h] = LoginRequests[h]
         \/ h \in DOMAIN StreamRequests /\ RequestFormat[h] = StreamRequests[h]
  BY DEF RequestFormat, Over
<1>2. \A h \in DOMAIN RequestFormat : IsForm(RequestFormat[h])
  BY <1>1, WorldRequestForms, LoginAndStreamRequestForms
<1>3. IsForm(<<>>)
  <2>1. <<>> \in Seq({}) /\ Len(<<>>) = 0
    BY EmptySeq
  <2>2. IsSequence(<<>>)
    BY <2>1, SubrangeSequence, Zenon
  <2>3. \A n \in 1..0 : FALSE
    OBVIOUS
  <2> QED
    BY <2>1, <2>2, <2>3, Zenon DEF IsForm
<1> QED
  BY <1>2, <1>3 DEF FormatOf

LEMMA ReplyForms ==
    \A h \in DOMAIN Replies : IsForm(Replies[h].format) /\ Replies[h].header \in Headers
<1>1. \A h \in DOMAIN Replies :
         \/ h \in DOMAIN WorldReplies /\ Replies[h] = WorldReplies[h]
         \/ h \in DOMAIN LoginReplies /\ Replies[h] = LoginReplies[h]
         \/ h \in DOMAIN StreamReplies /\ Replies[h] = StreamReplies[h]
  BY DEF Replies, Over
<1> QED
  BY <1>1, WorldReplyForms, LoginAndStreamReplyForms

LEMMA ShowingForms ==
    \A reply \in {CreateResponse, CreationFailed, AuthResponse, UnitState, OneUnitMovement} :
        IsForm(reply.format) /\ reply.header \in Headers
<1>1. IsForm(WriteModel) /\ IsForm(WriteOptions) /\ IsForm(Movement(WriteUnitMovementData))
  <2>1. WriteUnitMovementData = ReadUnitMovementData
    BY DEF WriteUnitMovementData, ReadUnitMovementData
  <2> QED
    BY <2>1, NameLists, ModelForm, OptionsForm, MovementDataForm, MovementForm DEF WriteModel
<1>2. IsForm(CreateResponse.format)
  BY <1>1, OneField, JoinedFields DEF CreateResponse, Reply
<1>3. IsForm(CreationFailed.format)
  BY OneField DEF CreationFailed, Reply
<1>4. IsForm(AuthResponse.format)
  BY OneField, JoinedFields DEF AuthResponse, Reply
<1>5. IsForm(UnitState.format)
  BY <1>1, OneField, JoinedFields DEF UnitState, Reply
<1>6. IsForm(OneUnitMovement.format)
  BY <1>1 DEF OneUnitMovement, Reply
<1>7. /\ CreateResponse.header = ServerHeader(1, 56) /\ CreationFailed.header = ServerHeader(1, 61)
      /\ AuthResponse.header = Bytes16(3) /\ UnitState.header = ServerHeader(1, 105)
      /\ OneUnitMovement.header = ServerHeader(1, 108)
  BY DEF CreateResponse, CreationFailed, AuthResponse, UnitState, OneUnitMovement, Reply
<1>8. \A n \in {56, 61, 3, 105, 108} : n \in Nat
  OBVIOUS
<1> QED
  BY <1>2, <1>3, <1>4, <1>5, <1>6, <1>7, <1>8, ReplyHeaders

LEMMA EveryForm == \A format \in Formats : IsForm(format)
BY RequestForms, ReplyForms, ShowingForms, HeaderForm DEF Formats

\* Every field of a format has a default, and every default is bytes.
Names(format) == {f.name : f \in Range(format)}

LEMMA NamesOfForm ==
    ASSUME NEW format, IsForm(format)
    PROVE  /\ \A n \in 1..Len(format) : format[n] \in Range(format) /\ format[n].name \in Names(format)
           /\ \A f \in Range(format) : IsField(f)
           /\ Len(format) \in Nat
<1>1. Len(format) \in Nat /\ DOMAIN format = 1..Len(format)
  BY SequenceDomain DEF IsForm
<1> QED
  BY <1>1 DEF Names, Range, IsForm

LEMMA DefaultsAreBytes ==
    /\ Defaults \in [DOMAIN Defaults -> Bytes]
    /\ \A format \in Formats : Names(format) \subseteq DOMAIN Defaults
<1> DEFINE fields == UNION {Range(f) : f \in Formats}
           names == {f.name : f \in fields}
           First(name) == CHOOSE f \in fields : f.name = name
<1>1. Defaults = [name \in names |-> Zeros(First(name).size)]
  BY DEF Defaults
<1>2. \A f \in fields : IsField(f)
  BY EveryForm, NamesOfForm
<1>3. \A name \in names : First(name) \in fields
  OBVIOUS
<1>4. \A format \in Formats : Names(format) \subseteq names
  BY DEF Names
<1> HIDE DEF fields
<1>5. \A name \in names : First(name).size \in Nat
  BY <1>2, <1>3 DEF IsField
<1> HIDE DEF names, First
<1>6. \A name \in names : Zeros(First(name).size) \in Bytes
  BY <1>5, ZerosAreBytes
<1> QED
  BY <1>1, <1>4, <1>6
LEMMA JoinedNames ==
    ASSUME NEW s, NEW t, IsForm(s), IsForm(t)
    PROVE  Names(s \o t) = Names(s) \cup Names(t)
<1> DEFINE u == s \o t
           a == Len(s)
           b == Len(t)
<1>1. /\ IsSequence(s) /\ IsSequence(t) /\ a \in Nat /\ b \in Nat
      /\ DOMAIN s = 1..a /\ DOMAIN t = 1..b
  BY SequenceDomain DEF IsForm
<1>2. /\ IsSequence(u) /\ Len(u) = a + b
      /\ \A i \in 1..a : u[i] = s[i]
      /\ \A i \in a + 1 .. a + b : u[i] = t[i - a]
  BY <1>1, ConcatenatedSequence
<1>3. DOMAIN u = 1..(a + b)
  BY <1>2, SequenceDomain
<1> HIDE DEF u, a, b
<1>4. \A i \in 1..(a + b) : (i \in 1..a /\ u[i] = s[i]) \/ (i - a \in 1..b /\ u[i] = t[i - a])
  <2> SUFFICES ASSUME NEW i \in 1..(a + b)
               PROVE  (i \in 1..a /\ u[i] = s[i]) \/ (i - a \in 1..b /\ u[i] = t[i - a])
    OBVIOUS
  <2>1. i \in 1..a \/ (i \in a + 1 .. a + b /\ i - a \in 1..b)
    BY <1>1
  <2> QED
    BY <1>2, <2>1
<1>5. \A i \in 1..a : i \in 1..(a + b) /\ u[i] = s[i]
  BY <1>1, <1>2
<1>6. \A i \in 1..b : a + i \in 1..(a + b) /\ u[a + i] = t[i]
  <2> SUFFICES ASSUME NEW i \in 1..b PROVE a + i \in 1..(a + b) /\ u[a + i] = t[i]
    OBVIOUS
  <2>1. a + i \in a + 1 .. a + b /\ (a + i) - a = i /\ a + i \in 1..(a + b)
    BY <1>1
  <2> QED
    BY <1>2, <2>1
<1>7. Range(u) \subseteq Range(s) \cup Range(t)
  BY <1>1, <1>3, <1>4 DEF Range
<1>8. Range(s) \subseteq Range(u) /\ Range(t) \subseteq Range(u)
  BY <1>1, <1>3, <1>5, <1>6 DEF Range
<1>9. Range(u) = Range(s) \cup Range(t)
  BY <1>7, <1>8
<1> QED
  BY <1>9 DEF Names, u

\* What shows a character is written from what is stored of it, and what is stored of
\* it was read.
LEMMA NamesShown ==
    /\ Names(UnitState.format) = StoredNames
    /\ Names(CreateResponse.format) \subseteq StoredNames
    /\ Names(String("name") \o WriteModel) \subseteq StoredNames
    /\ Names(WriteOptions) \subseteq StoredNames
    /\ Names(Position("Pos")) \subseteq StoredNames
    /\ StoredNames \subseteq DOMAIN Defaults
    /\ Names(OneUnitMovement.format) \subseteq DOMAIN Defaults
    /\ Names(CreationFailed.format) \subseteq DOMAIN Defaults
    /\ Names(AuthResponse.format) \subseteq DOMAIN Defaults
    /\ \A h \in DOMAIN Replies : Names(Replies[h].format) \subseteq DOMAIN Defaults
    /\ \A h \in DOMAIN RequestFormat : Names(RequestFormat[h]) \subseteq DOMAIN Defaults
<1>1. /\ IsForm(String("name")) /\ IsForm(Position("Pos"))
      /\ IsForm(WriteModel) /\ IsForm(WriteOptions)
  BY OneField, NameLists, ModelForm, OptionsForm DEF WriteModel
<1>2. UnitState.format = String("name") \o Position("Pos") \o WriteModel \o WriteOptions
  BY DEF UnitState, Reply
<1>3. CreateResponse.format = String("name") \o WriteModel
  BY DEF CreateResponse, Reply
<1>4. Names(UnitState.format) = Names(String("name")) \cup Names(Position("Pos"))
                                \cup Names(WriteModel) \cup Names(WriteOptions)
  <2>1. IsForm(String("name") \o Position("Pos"))
        /\ IsForm(String("name") \o Position("Pos") \o WriteModel)
    BY <1>1, JoinedFields
  <2> QED
    BY <1>1, <1>2, <2>1, JoinedNames
<1>5. Names(String("name") \o WriteModel) = Names(String("name")) \cup Names(WriteModel)
  BY <1>1, JoinedNames
<1>6. Names(UnitState.format) = StoredNames
  BY DEF StoredNames, Names
<1>7. /\ UnitState.format \in Formats /\ CreationFailed.format \in Formats
      /\ AuthResponse.format \in Formats
      /\ \A h \in DOMAIN Replies : Replies[h].format \in Formats
      /\ \A h \in DOMAIN RequestFormat : RequestFormat[h] \in Formats
  BY DEF Formats
<1>8. OneUnitMovement.format \in Formats
  <2>1. WriteUnitMovementData = ReadUnitMovementData
    BY DEF WriteUnitMovementData, ReadUnitMovementData
  <2>2. OneUnitMovement.format = Movement(ReadUnitMovementData)
    BY <2>1 DEF OneUnitMovement, Reply
  <2>3. "CSMoveUnit" \in DOMAIN WorldRequests
        /\ WorldRequests["CSMoveUnit"] = Movement(ReadUnitMovementData)
    BY DEF WorldRequests
  <2>4. "CSMoveUnit" \in DOMAIN RequestFormat
        /\ RequestFormat["CSMoveUnit"] = WorldRequests["CSMoveUnit"]
    BY <2>3 DEF RequestFormat, Over
  <2> QED
    BY <1>7, <2>2, <2>3, <2>4
<1> QED
  BY <1>3, <1>4, <1>5, <1>6, <1>7, <1>8, DefaultsAreBytes

\* An answer written from fields that are bytes.
WellSent(s) == s.body = Bytes16(Len(s.should)) \o s.should

LEMMA AnswerSent ==
    ASSUME NEW p \in PacketSet, p.wpos = 2, NEW reply, IsForm(reply.format),
           reply.header \in Headers, NEW names, Names(reply.format) \subseteq names,
           NEW fields \in [names -> Bytes]
    PROVE  LET sent == Written(reply, p, fields)
           IN  /\ sent \in PacketSet /\ sent.wpos = 2
               /\ WellSent(Sent(reply, sent, fields))
               /\ WellSent(Sent(reply, Send(sent), fields))
<1> DEFINE sent == Written(reply, p, fields)
           should == reply.header \o Encoding(reply.format, fields)
<1>1. Len(reply.format) \in Nat /\ Filled(reply.format, fields)
  BY NamesOfForm DEF Filled
<1>2. reply.header \in Bytes /\ reply.header # <<>>
  BY DEF Headers
<1>3. /\ sent \in PacketSet /\ sent.wpos = 2
      /\ sent.body = Bytes16(Len(should)) \o should
      /\ Send(sent).body = Bytes16(Len(should)) \o should
  BY <1>1, <1>2, AnswerWellFormed
<1>4. ASSUME NEW q
      PROVE  Sent(reply, q, fields).body = q.body /\ Sent(reply, q, fields).should = should
  BY DEF Sent
<1> HIDE DEF should, sent
<1>5. WellSent(Sent(reply, sent, fields)) /\ WellSent(Sent(reply, Send(sent), fields))
  BY <1>3, <1>4, Zenon DEF WellSent
<1> QED
  BY <1>3, <1>5 DEF sent
-----------------------------------------------------------------------------
(* What a client sends is bytes. *)

\* A format of bytes stands for bytes.
LEMMA EncodingIsBytes ==
    ASSUME NEW format, IsForm(format), NEW fields, \A n \in Names(format) : fields[n] \in Bytes
    PROVE  Encoding(format, fields) \in Bytes /\ Filled(format, fields)
<1> DEFINE p == [body |-> <<>>, rpos |-> 0, wpos |-> 0]
<1>1. p \in PacketSet /\ p.wpos = Len(p.body)
  BY EmptySeq DEF PacketSet, Bytes
<1>2. Len(format) \in Nat /\ Filled(format, fields)
  BY NamesOfForm DEF Filled
<1> QED
  BY <1>1, <1>2, FormatAtEnd

LEMMA NamesOfPieces ==
    /\ \A name, size : Names(Number(name, size)) = {name}
    /\ \A name : /\ Names(Bc(name)) = {name} /\ Names(Position(name)) = {name}
                 /\ Names(String(name)) = {name} /\ Names(Vector(name)) = {name}
    /\ \A names, size : Names(Numbers(names, size)) = Range(names)
    /\ \A on, flags, format : IsForm(format) => Names(When(on, flags, format)) = Names(format)
<1>1. ASSUME NEW f PROVE Names(<<f>>) = {f.name}
  <2>1. DOMAIN <<f>> = {1} /\ <<f>>[1] = f
    OBVIOUS
  <2>2. Range(<<f>>) = {f}
    BY <2>1 DEF Range
  <2> QED
    BY <2>2 DEF Names
<1>2. ASSUME NEW kind, NEW name, NEW size PROVE Field(kind, name, size).name = name
  BY DEF Field
<1>3. ASSUME NEW names, NEW size PROVE Names(Numbers(names, size)) = Range(names)
  <2> DEFINE s == Numbers(names, size)
  <2>1. DOMAIN s = DOMAIN names /\ \A i \in DOMAIN names : s[i] = Field("number", names[i], size)
    BY DEF Numbers
  <2> HIDE DEF s
  <2>2. \A i \in DOMAIN names : s[i].name = names[i]
    BY <1>2, <2>1
  <2>3. Names(s) = Range(names)
    BY <2>1, <2>2 DEF Names, Range
  <2> QED
    BY <2>3 DEF s
<1>4. ASSUME NEW on, NEW flags, NEW format, IsForm(format)
      PROVE  Names(When(on, flags, format)) = Names(format)
  <2> DEFINE s == When(on, flags, format)
  <2>1. DOMAIN s = DOMAIN format
        /\ \A i \in DOMAIN format : s[i] = [format[i] EXCEPT !.on = on, !.flags = flags]
    BY DEF When
  <2>2. DOMAIN format = 1..Len(format)
    BY <1>4, SequenceDomain DEF IsForm
  <2> HIDE DEF s
  <2>3. \A i \in DOMAIN format : s[i].name = format[i].name
    BY <1>4, <2>1, <2>2 DEF IsForm, IsField
  <2>4. \A t : Names(t) = {t[i].name : i \in DOMAIN t}
    BY DEF Names, Range
  <2>5. {s[i].name : i \in DOMAIN s} = {format[i].name : i \in DOMAIN format}
    BY <2>1, <2>3
  <2>6. Names(s) = Names(format)
    BY <2>4, <2>5
  <2> QED
    BY <2>6 DEF s
<1>5. \A name, size : Names(Number(name, size)) = {name}
  BY <1>1, <1>2 DEF Number
<1>6. \A name : /\ Names(Bc(name)) = {name} /\ Names(Position(name)) = {name}
               /\ Names(String(name)) = {name} /\ Names(Vector(name)) = {name}
  BY <1>1, <1>2 DEF Bc, Position, String, Vector
<1> QED
  BY <1>3, <1>4, <1>5, <1>6

LEMMA HeaderNames == Names(WorldHeader) = {"unk", "level", "crc", "counter", "opCode"}
<1> DEFINE first == Numbers(<<"unk", "level">>, 1)
           check == Numbers(<<"crc", "counter">>, 1)
           some == When("level", {1}, check)
<1>1. IsForm(first) /\ IsForm(check) /\ IsForm(Number("opCode", 2))
  BY NameLists, ManyFields, OneField
<1>2. IsForm(some) /\ IsForm(first \o some)
  BY <1>1, ConditionalFields, JoinedFields
<1>3. Range(<<"unk", "level">>) = {"unk", "level"} /\ Range(<<"crc", "counter">>) = {"crc", "counter"}
  BY DEF Range
<1>4. Names(first) = {"unk", "level"} /\ Names(some) = {"crc", "counter"}
      /\ Names(Number("opCode", 2)) = {"opCode"}
  BY <1>1, <1>3, NamesOfPieces
<1>5. WorldHeader = first \o some \o Number("opCode", 2)
  BY DEF WorldHeader
<1> HIDE DEF first, check, some
<1>6. Names(WorldHeader) = Names(first) \cup Names(some) \cup Names(Number("opCode", 2))
  BY <1>1, <1>2, <1>5, JoinedNames
<1> QED
  BY <1>4, <1>6

LEMMA HeaderIsBytes ==
    ASSUME NEW r \in Requests
    PROVE  \A n \in Names(WorldHeader) : HeaderFields(r)[n] \in Bytes
<1>1. <<0>> \in Bytes /\ <<r.level>> \in Bytes
  BY PacketsOfBytes DEF Bytes, Byte
<1>2. Bytes16(r.opCode) \in Bytes
  BY PacketsOfBytes, TwoBytes
<1> QED
  BY <1>1, <1>2, HeaderNames DEF HeaderFields

LEMMA WholeIsBytes ==
    ASSUME NEW r \in Requests
    PROVE  /\ Whole(r) \in Bytes /\ Lead(r) \in Bytes
           /\ Encoding(FormatOf(r.name), r.fields) \in Bytes
           /\ \A n \in Names(FormatOf(r.name)) : r.fields[n] \in Bytes
<1>1. \A n \in Names(FormatOf(r.name)) : r.fields[n] \in Bytes
  BY PacketsOfBytes DEF Bytes, Names
<1>2. Encoding(FormatOf(r.name), r.fields) \in Bytes
  BY <1>1, RequestForms, EncodingIsBytes
<1>3. Lead(r) \in Bytes
  <2>1. Encoding(WorldHeader, HeaderFields(r)) \in Bytes
    BY HeaderIsBytes, HeaderForm, EncodingIsBytes
  <2>2. Bytes16(r.opCode) \in Bytes /\ <<>> \in Bytes
    BY PacketsOfBytes, TwoBytes, EmptySeq DEF Bytes
  <2> QED
    BY <2>1, <2>2 DEF Lead
<1>4. Lead(r) \o Encoding(FormatOf(r.name), r.fields) \in Bytes
  BY <1>2, <1>3, ConcatProperties DEF Bytes
<1> QED
  BY <1>1, <1>2, <1>3, <1>4 DEF Whole

LEMMA FramesAreBytes ==
    ASSUME NEW r \in Requests
    PROVE  /\ Frame[r] \in Bytes
           /\ r.cut >= Len(Whole(r)) => Frame[r] = Whole(r)
<1> DEFINE whole == Whole(r)
           n == Least(r.cut, Len(whole))
<1>1. whole \in Seq(Byte) /\ Len(whole) \in Nat /\ r.cut \in Nat
  BY WholeIsBytes, PacketsOfBytes, LenProperties DEF Bytes
<1>2. Frame[r] = SubSeq(whole, 1, n)
  BY DEF Frame
<1> HIDE DEF whole
<1>3. n \in Nat /\ n <= Len(whole) /\ (r.cut >= Len(whole) => n = Len(whole))
  BY <1>1 DEF Least
<1> HIDE DEF n
<1>4. SubSeq(whole, 1, n) \in Seq(Byte) /\ SubSeq(whole, 1, Len(whole)) = whole
  <2>1. 1 \in Nat \ {0} /\ n \in Int
    BY <1>3
  <2>2. SubSeq(whole, 1, n) \in Seq(Byte)
    BY <1>1, <1>3, <2>1, SliceOf
  <2> QED
    BY <1>1, <2>2, SubSeqFull
<1> QED
  BY <1>2, <1>3, <1>4 DEF Bytes, whole

-----------------------------------------------------------------------------
(* Answers. *)

\* Between two iterations the packet is ready to be prepared, its write cursor behind
\* the room for the size, and what is stored of a character can be written.
Kept == /\ packet \in PacketSet /\ packet.wpos = 2
        /\ stored \in [StoredNames -> Bytes]
        /\ phase # "idle" => request \in Requests

LEMMA KeptAtFirst == Init => Kept /\ SentWellFormed
<1> SUFFICES ASSUME Init PROVE Kept /\ SentWellFormed
  OBVIOUS
<1>1. packet \in PacketSet /\ packet.wpos = 2
  BY EmptySeq DEF Init, Packet, PacketSet, Bytes
<1>2. stored \in [StoredNames -> Bytes]
  BY NamesShown, DefaultsAreBytes DEF Init
<1>3. out = <<>>
  BY DEF Init
<1>4. SentWellFormed
  BY <1>3 DEF SentWellFormed
<1> QED
  BY <1>1, <1>2, <1>4 DEF Kept, Init
\* Packets sent one after the other.
AllWell(sent) == IsSequence(sent) /\ \A i \in DOMAIN sent : WellSent(sent[i])

LEMMA SentTogether ==
    /\ AllWell(<<>>)
    /\ \A x : WellSent(x) => AllWell(<<x>>)
    /\ \A x, y : WellSent(x) /\ WellSent(y) => AllWell(<<x, y>>)
    /\ \A s, t : AllWell(s) /\ AllWell(t) => AllWell(s \o t)
    /\ \A s : AllWell(s) => \A i \in DOMAIN s : WellSent(s[i])
<1>1. AllWell(<<>>)
  <2>1. <<>> \in Seq({}) /\ DOMAIN <<>> = {}
    BY EmptySeq
  <2> QED
    BY <2>1, SubrangeSequence, Zenon DEF AllWell
<1>2. ASSUME NEW x, WellSent(x) PROVE AllWell(<<x>>)
  <2>1. <<x>> \in Seq({x}) /\ DOMAIN <<x>> = {1} /\ <<x>>[1] = x
    OBVIOUS
  <2> QED
    BY <1>2, <2>1, SubrangeSequence, Zenon DEF AllWell
<1>3. ASSUME NEW x, NEW y, WellSent(x), WellSent(y) PROVE AllWell(<<x, y>>)
  <2>1. <<x, y>> \in Seq({x, y}) /\ DOMAIN <<x, y>> = {1, 2}
        /\ <<x, y>>[1] = x /\ <<x, y>>[2] = y
    OBVIOUS
  <2> QED
    BY <1>3, <2>1, SubrangeSequence, Zenon DEF AllWell
<1>4. ASSUME NEW s, NEW t, AllWell(s), AllWell(t) PROVE AllWell(s \o t)
  <2> DEFINE u == s \o t
             a == Len(s)
             b == Len(t)
  <2>1. /\ IsSequence(s) /\ IsSequence(t) /\ a \in Nat /\ b \in Nat
        /\ DOMAIN s = 1..a /\ DOMAIN t = 1..b
    BY <1>4, SequenceDomain DEF AllWell
  <2>2. /\ IsSequence(u) /\ Len(u) = a + b
        /\ \A i \in 1..a : u[i] = s[i]
        /\ \A i \in a + 1 .. a + b : u[i] = t[i - a]
    BY <2>1, ConcatenatedSequence
  <2>3. DOMAIN u = 1..(a + b)
    BY <2>2, SequenceDomain
  <2> HIDE DEF u, a, b
  <2>4. ASSUME NEW i \in 1..(a + b) PROVE WellSent(u[i])
    <3>1. i \in 1..a \/ (i \in a + 1 .. a + b /\ i - a \in 1..b)
      BY <2>1
    <3> QED
      BY <1>4, <2>1, <2>2, <3>1 DEF AllWell
  <2> QED
    BY <2>2, <2>3, <2>4 DEF AllWell, u
<1> QED
  BY <1>1, <1>2, <1>3, <1>4, Zenon DEF AllWell

\* What a handler has read is a packet to answer into, and fields to answer with.
LEMMA HandlerReads ==
    ASSUME Kept, NEW garbage \in Bytes
    PROVE  /\ Reads(garbage).packet \in PacketSet /\ Reads(garbage).packet.wpos = 2
           /\ Reads(garbage).fields \in [DOMAIN Defaults -> Bytes]
<1>1. IsForm(FormatOf(handler)) /\ Defaults \in [DOMAIN Defaults -> Bytes]
  BY RequestForms, DefaultsAreBytes
<1> QED
  BY <1>1, FormatRead DEF Reads, Kept

LEMMA Updated ==
    ASSUME Kept, NEW fields \in [DOMAIN Defaults -> Bytes], NEW format,
           Names(format) \subseteq StoredNames
    PROVE  Update(Only(fields, format)) \in [StoredNames -> Bytes]
<1> DEFINE some == Only(fields, format)
<1>1. some = [name \in Names(format) |-> fields[name]]
  BY DEF Only, Names
<1>2. Names(format) \subseteq DOMAIN Defaults
  BY NamesShown
<1>3. DOMAIN some = Names(format) /\ \A name \in Names(format) : some[name] \in Bytes
  BY <1>1, <1>2
<1> HIDE DEF some
<1>4. StoredNames = DOMAIN some \cup DOMAIN stored
  BY <1>3 DEF Kept
<1>5. Over(some, stored) \in [StoredNames -> Bytes]
  BY <1>3, <1>4 DEF Over, Kept
<1> QED
  BY <1>5 DEF Update, some

LEMMA ReceivedKept ==
    ASSUME Kept, SentWellFormed, Receive \/ ProcessPacket
    PROVE  Kept' /\ SentWellFormed'
<1>1. SentWellFormed' /\ stored' = stored
  BY DEF Receive, ProcessPacket, SentWellFormed
<1>2. CASE Receive
  <2>1. PICK r \in Requests : request' = r /\ packet' = Packet(Frame[r])
    BY <1>2 DEF Receive
  <2>2. Frame[r] \in Bytes
    BY FramesAreBytes
  <2> QED
    BY <1>1, <2>1, <2>2 DEF Kept, Packet, PacketSet
<1>3. CASE ProcessPacket
  <2> DEFINE p == resetReaderWriter(packet)
             world == ReadFormat(WorldHeader, p, Defaults, Zeros(3))
             stream == read(p, 2)
  <2>1. p \in PacketSet /\ p.wpos = 2
    BY DEF Kept, PacketSet, resetReaderWriter
  <2> HIDE DEF p
  <2>2. world.packet \in PacketSet /\ world.packet.wpos = 2
    <3>1. Zeros(3) \in Bytes /\ Defaults \in [DOMAIN Defaults -> Bytes]
      BY ZerosAreBytes, DefaultsAreBytes
    <3> QED
      BY <2>1, <3>1, HeaderForm, FormatRead
  <2>3. stream.packet \in PacketSet /\ stream.packet.wpos = 2
    BY <2>1, NumberRead DEF ReadWell
  <2>4. request \in Requests /\ request' = request
    BY <1>3 DEF ProcessPacket, Kept
  <2>5. request.server \in {"world", "stream", "login"}
    BY <2>4, PacketsOfBytes
  <2>6. packet' = world.packet \/ packet' = stream.packet \/ packet' = p
    BY <1>3, <2>5 DEF ProcessPacket, p
  <2> QED
    BY <1>1, <2>1, <2>2, <2>3, <2>4, <2>6 DEF Kept
<1> QED
  BY <1>2, <1>3
LEMMA RequestKept ==
    ASSUME Kept, HandleUnknown \/ HandleRequest \/ Release
    PROVE  Kept' /\ (SentWellFormed => SentWellFormed')
<1>1. CASE HandleUnknown
  BY <1>1 DEF HandleUnknown, Kept, SentWellFormed
<1>2. CASE Release
  <2>1. packet' \in PacketSet /\ packet'.wpos = 2
    BY <1>2, EmptySeq DEF Release, Packet, PacketSet, Bytes
  <2>2. out' = <<>>
    BY <1>2 DEF Release
  <2>3. SentWellFormed'
    BY <2>2 DEF SentWellFormed
  <2> QED
    BY <1>2, <2>1, <2>3 DEF Kept, Release
<1>3. CASE HandleRequest
  <2> DEFINE r == Reads(Zeros(3))
             reply == Replies[handler]
             p == Written(reply, r.packet, r.fields)
             second == Written(AuthResponse, Packet(<<>>), r.fields)
             first == Sent(reply, p, r.fields)
             auth == Sent(AuthResponse, second, r.fields)
  <2>1. /\ r.packet \in PacketSet /\ r.packet.wpos = 2
        /\ r.fields \in [DOMAIN Defaults -> Bytes]
    BY ZerosAreBytes, HandlerReads
  <2>2. \/ packet' = r.packet /\ out' = <<>>
        \/ /\ handler \in DOMAIN Replies /\ packet' = p
           /\ out' = <<first>> \o (IF handler = "CARequestAuth" THEN <<auth>> ELSE <<>>)
    BY <1>3 DEF HandleRequest
  <2>3. stored' = stored /\ request' = request /\ phase = "dispatched"
    BY <1>3 DEF HandleRequest
  <2>4. WellSent(auth)
    <3>1. Packet(<<>>) \in PacketSet /\ Packet(<<>>).wpos = 2
      BY EmptySeq DEF Packet, PacketSet, Bytes
    <3>2. IsForm(AuthResponse.format) /\ AuthResponse.header \in Headers
          /\ Names(AuthResponse.format) \subseteq DOMAIN Defaults
      BY ShowingForms, NamesShown
    <3> HIDE DEF r
    <3> QED
      BY <2>1, <3>1, <3>2, AnswerSent
  <2>5. ASSUME handler \in DOMAIN Replies
        PROVE  p \in PacketSet /\ p.wpos = 2 /\ WellSent(first)
    <3>1. IsForm(reply.format) /\ reply.header \in Headers
          /\ Names(reply.format) \subseteq DOMAIN Defaults
      BY <2>5, ReplyForms, NamesShown
    <3> HIDE DEF r, reply
    <3> QED
      BY <2>1, <3>1, AnswerSent
  <2> HIDE DEF r, reply, p, second, first, auth
  <2>6. packet' \in PacketSet /\ packet'.wpos = 2
    BY <2>1, <2>2, <2>5
  <2>7. AllWell(out')
    <3>1. AllWell(IF handler = "CARequestAuth" THEN <<auth>> ELSE <<>>)
      BY <2>4, SentTogether, Zenon
    <3>2. handler \in DOMAIN Replies => AllWell(<<first>>)
      BY <2>5, SentTogether, Zenon
    <3> QED
      BY <2>2, <3>1, <3>2, SentTogether, Zenon
  <2>8. SentWellFormed'
    BY <2>7, SentTogether, Zenon DEF SentWellFormed, WellSent
  <2> QED
    BY <2>3, <2>6, <2>8 DEF Kept
<1> QED
  BY <1>1, <1>2, <1>3

LEMMA CreationKept ==
    ASSUME Kept, CSCreateCharacter
    PROVE  Kept' /\ SentWellFormed'
<1> DEFINE r == Reads(Zeros(3))
           failed == Written(CreationFailed, r.packet, Defaults)
           valid == r.fields["name"] \in ValidNames
           looks == Update(Only(r.fields, String("name") \o WriteModel))
           character == IF valid THEN looks ELSE stored
           p == Written(CreateResponse, IF valid THEN r.packet ELSE failed, character)
           refused == Sent(CreationFailed, failed, Defaults)
           refusal == IF valid THEN <<>> ELSE <<refused>>
           shown == Sent(CreateResponse, p, character)
<1>1. /\ r.packet \in PacketSet /\ r.packet.wpos = 2
      /\ r.fields \in [DOMAIN Defaults -> Bytes]
  BY ZerosAreBytes, HandlerReads
<1>2. /\ stored' = character /\ request' = request /\ phase = "dispatched"
      /\ \/ packet' = p /\ out' = refusal \o <<shown>>
         \/ packet' = failed /\ out' = refusal
  BY DEF CSCreateCharacter
<1> HIDE DEF r
<1>3. looks \in [StoredNames -> Bytes]
  BY <1>1, NamesShown, Updated
<1>4. /\ IsForm(CreationFailed.format) /\ CreationFailed.header \in Headers
      /\ IsForm(CreateResponse.format) /\ CreateResponse.header \in Headers
      /\ Names(CreationFailed.format) \subseteq DOMAIN Defaults
      /\ Names(CreateResponse.format) \subseteq StoredNames
      /\ Defaults \in [DOMAIN Defaults -> Bytes]
  BY ShowingForms, NamesShown, DefaultsAreBytes
<1>5. failed \in PacketSet /\ failed.wpos = 2 /\ WellSent(refused)
  BY <1>1, <1>4, AnswerSent
<1> HIDE DEF valid, looks, failed, refused
<1>6. character \in [StoredNames -> Bytes]
  BY <1>3 DEF Kept
<1> HIDE DEF character
<1>7. p \in PacketSet /\ p.wpos = 2 /\ WellSent(shown)
  <2> DEFINE into == IF valid THEN r.packet ELSE failed
  <2>1. into \in PacketSet /\ into.wpos = 2
    BY <1>1, <1>5
  <2>2. p = Written(CreateResponse, into, character)
    OBVIOUS
  <2> HIDE DEF into, p
  <2> QED
    BY <1>4, <1>6, <2>1, <2>2, AnswerSent
<1> HIDE DEF p, shown
<1>8. AllWell(refusal) /\ AllWell(<<shown>>)
  BY <1>5, <1>7, SentTogether, Zenon
<1> HIDE DEF refusal
<1>9. AllWell(out')
  BY <1>2, <1>8, SentTogether, Zenon
<1>10. SentWellFormed'
  BY <1>9, SentTogether, Zenon DEF SentWellFormed, WellSent
<1> QED
  BY <1>2, <1>5, <1>6, <1>7, <1>10 DEF Kept

LEMMA SpawningKept ==
    ASSUME Kept, SentWellFormed, CSSpawnCharacter
    PROVE  Kept' /\ SentWellFormed'
<1> DEFINE r == Reads(Zeros(3))
           character == Update(Only(r.fields, WriteOptions))
           p == Written(UnitState, Packet(<<>>), character)
           shown == Sent(UnitState, p, character)
<1>1. /\ r.packet \in PacketSet /\ r.packet.wpos = 2
      /\ r.fields \in [DOMAIN Defaults -> Bytes]
  BY ZerosAreBytes, HandlerReads
<1>2. \/ stored' = character /\ packet' = r.packet /\ out' = <<shown>>
      \/ stored' = stored /\ packet' = packet /\ out' = out
  BY DEF CSSpawnCharacter
<1>3. request' = request /\ phase = "dispatched"
  BY DEF CSSpawnCharacter
<1> HIDE DEF r
<1>4. character \in [StoredNames -> Bytes]
  BY <1>1, NamesShown, Updated
<1> HIDE DEF character
<1>5. WellSent(shown)
  <2>1. Packet(<<>>) \in PacketSet /\ Packet(<<>>).wpos = 2
    BY EmptySeq DEF Packet, PacketSet, Bytes
  <2>2. IsForm(UnitState.format) /\ UnitState.header \in Headers
        /\ Names(UnitState.format) \subseteq StoredNames
    BY ShowingForms, NamesShown
  <2> QED
    BY <1>4, <2>1, <2>2, AnswerSent
<1> HIDE DEF shown
<1>6. SentWellFormed'
  <2>1. CASE out' = <<shown>>
    <3>1. AllWell(out')
      BY <1>5, <2>1, SentTogether, Zenon
    <3> QED
      BY <3>1, SentTogether, Zenon DEF SentWellFormed, WellSent
  <2>2. CASE out' = out
    BY <2>2 DEF SentWellFormed
  <2> QED
    BY <1>2, <2>1, <2>2
<1> QED
  BY <1>1, <1>2, <1>3, <1>4, <1>6 DEF Kept

LEMMA MovementKept ==
    ASSUME Kept, CSMoveUnit
    PROVE  Kept' /\ SentWellFormed'
<1>1. PICK garbage \in Garbage, resolves \in {FALSE, made} :
        LET r == Reads(garbage)
            p == Written(OneUnitMovement, Packet(<<>>), r.fields)
        IN  /\ packet' = r.packet
            /\ stored' = stored \/ stored' = Update(Only(r.fields, Position("Pos")))
            /\ out' = <<Sent(OneUnitMovement, p, r.fields),
                        Sent(OneUnitMovement, Send(p), r.fields)>>
  BY Zenon DEF CSMoveUnit
<1> DEFINE r == Reads(garbage)
           p == Written(OneUnitMovement, Packet(<<>>), r.fields)
           once == Sent(OneUnitMovement, p, r.fields)
           again == Sent(OneUnitMovement, Send(p), r.fields)
<1>2. /\ packet' = r.packet
      /\ stored' = stored \/ stored' = Update(Only(r.fields, Position("Pos")))
      /\ out' = <<once, again>>
  BY <1>1
<1>3. request' = request /\ phase = "dispatched"
  BY DEF CSMoveUnit
<1>4. garbage \in Bytes
  BY PacketsOfBytes DEF Bytes
<1>5. /\ r.packet \in PacketSet /\ r.packet.wpos = 2
      /\ r.fields \in [DOMAIN Defaults -> Bytes]
  BY <1>4, HandlerReads
<1> HIDE DEF r
<1>6. Update(Only(r.fields, Position("Pos"))) \in [StoredNames -> Bytes]
  BY <1>5, NamesShown, Updated
<1>7. WellSent(once) /\ WellSent(again)
  <2>1. Packet(<<>>) \in PacketSet /\ Packet(<<>>).wpos = 2
    BY EmptySeq DEF Packet, PacketSet, Bytes
  <2>2. IsForm(OneUnitMovement.format) /\ OneUnitMovement.header \in Headers
        /\ Names(OneUnitMovement.format) \subseteq DOMAIN Defaults
    BY ShowingForms, NamesShown
  <2> QED
    BY <1>5, <2>1, <2>2, AnswerSent
<1> HIDE DEF once, again
<1>8. AllWell(out')
  BY <1>2, <1>7, SentTogether, Zenon
<1>9. SentWellFormed'
  BY <1>8, SentTogether, Zenon DEF SentWellFormed, WellSent
<1> QED
  BY <1>2, <1>3, <1>5, <1>6, <1>9 DEF Kept

LEMMA KeptAlways ==
    Kept /\ SentWellFormed /\ [Next]_vars => Kept' /\ SentWellFormed'
<1> SUFFICES ASSUME Kept, SentWellFormed, [Next]_vars PROVE Kept' /\ SentWellFormed'
  OBVIOUS
<1>1. CASE Next
  BY <1>1, ReceivedKept, RequestKept, CreationKept, SpawningKept, MovementKept, Zenon DEF Next
<1>2. CASE UNCHANGED vars
  BY <1>2 DEF vars, Kept, SentWellFormed
<1> QED
  BY <1>1, <1>2

\* Whatever was in the packet that an answer is written into, however far its cursors
\* were, and however often the answer is sent, what goes out is the size, the header
\* and the fields of the answer.
THEOREM AnswersAlwaysWellFormed == Spec => []SentWellFormed
<1>1. Init => Kept /\ SentWellFormed
  BY KeptAtFirst
<1>2. Kept /\ SentWellFormed /\ [Next]_vars => Kept' /\ SentWellFormed'
  BY KeptAlways
<1> QED
  BY <1>1, <1>2, PTL DEF Spec
-----------------------------------------------------------------------------
(* What was put in comes out. *)

Counted == {"string", "vector", "sized"}

\* Two bytes can count them.
Short(v) == Len(v) < 65536

\* A value that a field can carry.
Takes(f, v) ==
    /\ v \in Bytes
    /\ f.kind = "number" => Len(v) = f.size
    /\ f.kind = "bc" => Len(v) = 3
    /\ f.kind = "position" => Len(v) = 9 /\ Canonical(v) = v
    /\ f.kind \in {"string", "vector"} => Short(v)
    /\ f.kind = "sized" => Len(v) <= 255
    /\ f.kind = "string" => \A i \in 1..Len(v) : v[i] # 0

\* The cursor of p stands before b.
Before(p, b, post) ==
    \E pre \in Bytes : p.body = (pre \o b) \o post /\ p.rpos = Len(pre)

LEMMA AheadIs ==
    ASSUME NEW p \in PacketSet, NEW b \in Bytes, NEW post \in Bytes, Before(p, b, post)
    PROVE  /\ Has(p, Len(b)) /\ Ahead(p, Len(b)) = b
           /\ Left(p) \in Nat /\ Len(b) <= Left(p)
<1>1. PICK pre \in Bytes : p.body = (pre \o b) \o post /\ p.rpos = Len(pre)
  BY DEF Before
<1> DEFINE whole == (pre \o b) \o post
           k == Len(b)
<1>2. /\ pre \in Seq(Byte) /\ b \in Seq(Byte) /\ post \in Seq(Byte)
      /\ Len(pre) \in Nat /\ k \in Nat /\ Len(post) \in Nat
  BY LenProperties DEF Bytes
<1>3. Len(whole) = Len(pre) + k + Len(post)
  <2>1. pre \o b \in Seq(Byte) /\ Len(pre \o b) = Len(pre) + k
    BY <1>2, ConcatProperties
  <2>2. Len(whole) = Len(pre \o b) + Len(post)
    BY <1>2, <2>1, ConcatProperties
  <2> QED
    BY <2>1, <2>2
<1>4. SubSeq(whole, Len(pre) + 1, Len(pre) + k) = b
  BY <1>2, MiddleOf
<1> HIDE DEF whole, k
<1>5. p.body = whole /\ p.rpos = Len(pre)
  BY <1>1 DEF whole
<1>6. Ahead(p, k) = b
  BY <1>4, <1>5 DEF Ahead
<1>7. Has(p, k)
  BY <1>2, <1>3, <1>5 DEF Has
<1>8. Left(p) \in Nat /\ k <= Left(p)
  <2>1. Left(p) = IF Len(pre) < Len(whole) THEN Len(whole) - Len(pre) ELSE 0
    BY <1>5 DEF Left
  <2> QED
    BY <1>2, <1>3, <2>1
<1> QED
  BY <1>6, <1>7, <1>8 DEF k

\* Once it was read, the cursor stands before what comes next.
LEMMA BeforeNext ==
    ASSUME NEW p \in PacketSet, NEW b \in Bytes, NEW c \in Bytes, NEW post \in Bytes,
           Before(p, b \o c, post)
    PROVE  /\ Before(p, b, c \o post)
           /\ Skip(p, Len(b)) \in PacketSet /\ Before(Skip(p, Len(b)), c, post)
<1>1. PICK pre \in Bytes : p.body = (pre \o (b \o c)) \o post /\ p.rpos = Len(pre)
  BY DEF Before
<1>2. \A x, y, z \in Seq(Byte) : (x \o y) \o z = x \o (y \o z) /\ x \o y \in Seq(Byte)
  BY ConcatAssociative, ConcatProperties
<1>3. /\ pre \in Seq(Byte) /\ b \in Seq(Byte) /\ c \in Seq(Byte) /\ post \in Seq(Byte)
      /\ Len(pre) \in Nat /\ Len(b) \in Nat
  BY LenProperties DEF Bytes
<1>4. (pre \o (b \o c)) \o post = ((pre \o b) \o c) \o post
  BY <1>2, <1>3, Zenon
<1>5. ((pre \o b) \o c) \o post = (pre \o b) \o (c \o post)
  <2>1. pre \o b \in Seq(Byte)
    BY <1>2, <1>3, Zenon
  <2> QED
    BY <1>2, <1>3, <2>1, Zenon
<1>6. p.body = ((pre \o b) \o c) \o post /\ p.body = (pre \o b) \o (c \o post)
  BY <1>1, <1>4, <1>5, Zenon
<1>7. Len(pre \o b) = Len(pre) + Len(b) /\ pre \o b \in Bytes
  BY <1>3, ConcatProperties DEF Bytes
<1>8. Before(p, b, c \o post)
  BY <1>1, <1>6, Zenon DEF Before
<1> DEFINE q == Skip(p, Len(b))
<1>9. q \in PacketSet /\ q.body = p.body /\ q.rpos = p.rpos + Len(b)
  BY <1>3, SkipMoves
<1> HIDE DEF q
<1>10. q.rpos = Len(pre \o b)
  BY <1>1, <1>7, <1>9
<1>11. Before(q, c, post)
  BY <1>6, <1>7, <1>9, <1>10, Zenon DEF Before
<1> QED
  BY <1>8, <1>9, <1>11 DEF q

LEMMA CountReadsBack ==
    ASSUME NEW p \in PacketSet, NEW v \in Bytes, NEW post \in Bytes, Short(v),
           Before(p, Bytes16(Len(v)) \o v, post)
    PROVE  LET n == read(p, 2)
           IN  /\ Number16(n.value) = Len(v) /\ n.packet = Skip(p, 2)
               /\ n.packet \in PacketSet /\ Before(n.packet, v, post)
<1> DEFINE k == Len(v)
           count == Bytes16(k)
<1>1. k \in Nat /\ k <= 65535
  BY LenProperties DEF Bytes, Short
<1>2. count \in Bytes /\ Len(count) = 2 /\ Number16(count) = k
  BY <1>1, TwoBytes
<1> HIDE DEF k, count
<1>3. Before(p, count \o v, post)
  BY DEF count, k
<1>4. /\ Before(p, count, v \o post)
      /\ Skip(p, Len(count)) \in PacketSet /\ Before(Skip(p, Len(count)), v, post)
  BY <1>2, <1>3, BeforeNext, Zenon
<1>5. v \o post \in Bytes
  BY ConcatProperties DEF Bytes
<1>6. Has(p, 2) /\ Ahead(p, 2) = count
  <2>1. Has(p, Len(count)) /\ Ahead(p, Len(count)) = count
    BY <1>2, <1>4, <1>5, AheadIs, Zenon
  <2> QED
    BY <1>2, <2>1
<1>7. read(p, 2) = [value |-> count, packet |-> Skip(p, 2)]
  BY <1>6 DEF read
<1> QED
  BY <1>2, <1>4, <1>7 DEF k

LEMMA StringReadsBack ==
    ASSUME NEW p \in PacketSet, NEW v \in Bytes, NEW post \in Bytes, Short(v),
           Before(p, Bytes16(Len(v)) \o v, post), \A i \in 1..Len(v) : v[i] # 0
    PROVE  ReadString(p) = [value |-> v, packet |-> Skip(Skip(p, 2), Len(v))]
<1> DEFINE counted == read(p, 2)
           q == counted.packet
           count == Number16(counted.value)
           available == Ahead(q, Least(count, Left(q)))
           zeros == {i \in DOMAIN available : available[i] = 0}
<1>1. count = Len(v) /\ q = Skip(p, 2) /\ q \in PacketSet /\ Before(q, v, post)
  BY CountReadsBack
<1> HIDE DEF counted, q, count
<1>2. Len(v) \in Nat /\ DOMAIN v = 1..Len(v)
  BY LenProperties DEF Bytes
<1>3. Ahead(q, Len(v)) = v /\ Left(q) \in Nat /\ Len(v) <= Left(q)
  BY <1>1, AheadIs
<1>4. Least(count, Left(q)) = Len(v)
  BY <1>1, <1>2, <1>3 DEF Least
<1>5. available = v
  BY <1>3, <1>4
<1> HIDE DEF available
<1>6. zeros = {}
  BY <1>2, <1>5
<1>7. ReadString(p) = [value |-> available, packet |-> Skip(q, Len(available))]
  BY <1>6 DEF ReadString, available, q, counted, count
<1> QED
  BY <1>1, <1>5, <1>7

LEMMA VectorReadsBack ==
    ASSUME NEW p \in PacketSet, NEW v \in Bytes, NEW post \in Bytes, Short(v),
           Before(p, Bytes16(Len(v)) \o v, post)
    PROVE  ReadVector(p) = [value |-> v, packet |-> Skip(Skip(p, 2), Len(v))]
<1> DEFINE counted == read(p, 2)
           q == counted.packet
           n == Number16(counted.value)
           value == [i \in 1..n |-> IF q.rpos + i <= Len(q.body) THEN q.body[q.rpos + i] ELSE 0]
<1>1. n = Len(v) /\ q = Skip(p, 2) /\ q \in PacketSet /\ Before(q, v, post)
  BY CountReadsBack
<1>2. ReadVector(p) = [value |-> value, packet |-> Skip(q, n)]
  BY DEF ReadVector
<1> HIDE DEF counted, q, n
<1>3. v \in Seq(Byte) /\ Len(v) \in Nat /\ v = [i \in 1..Len(v) |-> v[i]]
  BY LenProperties DEF Bytes
<1>4. Ahead(q, Len(v)) = v /\ Has(q, Len(v))
  BY <1>1, AheadIs
<1>5. q.body \in Seq(Byte) /\ q.rpos \in Nat /\ Len(q.body) \in Nat
  BY <1>1, LenProperties DEF PacketSet, Bytes
<1>6. ASSUME NEW i \in 1..Len(v)
      PROVE  q.rpos + i <= Len(q.body) /\ q.body[q.rpos + i] = v[i]
  <2> DEFINE at == q.rpos
             body == q.body
             k == Len(v)
  <2>1. at + k <= Len(body)
    BY <1>4 DEF Has
  <2>2. at + 1 \in Nat \ {0} /\ at + k \in Int
    BY <1>3, <1>5
  <2>3. \A j \in 1 .. (at + k) - (at + 1) + 1 : SubSeq(body, at + 1, at + k)[j] = body[(at + 1) + j - 1]
    BY <1>5, <2>1, <2>2, SliceOf, Zenon
  <2>4. SubSeq(body, at + 1, at + k) = v
    BY <1>4 DEF Ahead
  <2> HIDE DEF at, body, k
  <2>5. at \in Nat /\ k \in Nat /\ Len(body) \in Nat /\ i \in 1..k
    BY <1>3, <1>5 DEF at, body, k
  <2>6. i \in 1 .. (at + k) - (at + 1) + 1 /\ (at + 1) + i - 1 = at + i /\ at + i <= Len(body)
    BY <2>1, <2>5
  <2>7. SubSeq(body, at + 1, at + k)[i] = body[at + i]
    BY <2>3, <2>6
  <2>8. body[at + i] = v[i]
    BY <2>4, <2>7, Zenon
  <2> QED
    BY <2>6, <2>8 DEF at, body
<1>7. value = v
  BY <1>1, <1>3, <1>6
<1> HIDE DEF value
<1> QED
  BY <1>1, <1>2, <1>7

LEMMA SizedReadsBack ==
    ASSUME NEW p \in PacketSet, NEW v \in Bytes, NEW post \in Bytes, Len(v) <= 255,
           Before(p, Bytes16(Len(v)) \o v, post)
    PROVE  LET n == read(p, 2)
           IN  ReadBytes(n.packet, Number16(n.value))
                 = [value |-> v, packet |-> Skip(Skip(p, 2), Len(v))]
<1> DEFINE counted == read(p, 2)
           q == counted.packet
           n == Number16(counted.value)
<1>0. Len(v) \in Nat /\ Short(v)
  BY LenProperties DEF Bytes, Short
<1>1. n = Len(v) /\ q = Skip(p, 2) /\ q \in PacketSet /\ Before(q, v, post)
  BY <1>0, CountReadsBack
<1> HIDE DEF counted, q, n
<1>2. Ahead(q, Len(v)) = v /\ Left(q) \in Nat /\ Len(v) <= Left(q)
  BY <1>1, AheadIs
<1>3. Least(n, Left(q)) = Len(v) /\ ~(n > 255)
  BY <1>0, <1>1, <1>2 DEF Least
<1>4. ReadBytes(q, n) = [value |-> v, packet |-> Skip(q, Len(v))]
  BY <1>2, <1>3 DEF ReadBytes
<1> QED
  BY <1>1, <1>4 DEF counted, q, n

LEMMA SkipTwice ==
    ASSUME NEW p \in PacketSet, NEW m \in Nat, NEW n \in Nat
    PROVE  Skip(Skip(p, m), n) = Skip(p, m + n) /\ Skip(p, 0) = p
<1>1. p = [body |-> p.body, rpos |-> p.rpos, wpos |-> p.wpos] /\ p.rpos \in Nat
  BY DEF PacketSet
<1>2. \A k \in Nat : Skip(p, k) = [body |-> p.body, rpos |-> p.rpos + k, wpos |-> p.wpos]
  BY <1>1 DEF Skip
<1>3. PICK q : q = [body |-> p.body, rpos |-> p.rpos + m, wpos |-> p.wpos]
  OBVIOUS
<1>4. Skip(p, m) = q
  BY <1>2, <1>3
<1>5. Skip(q, n) = [body |-> p.body, rpos |-> (p.rpos + m) + n, wpos |-> p.wpos]
  BY <1>3 DEF Skip
<1>6. m + n \in Nat /\ p.rpos + (m + n) = (p.rpos + m) + n
  BY <1>1
<1>7. Skip(p, m + n) = [body |-> p.body, rpos |-> p.rpos + (m + n), wpos |-> p.wpos]
  BY <1>2, <1>6
<1>8. p.rpos + 0 = p.rpos
  BY <1>1
<1> QED
  BY <1>1, <1>2, <1>4, <1>5, <1>6, <1>7, <1>8

Carried(f, v) == IF f.kind \in Counted THEN Bytes16(Len(v)) \o v ELSE v

LEMMA FieldReadsBack ==
    ASSUME NEW f, IsField(f), NEW p \in PacketSet, NEW v, Takes(f, v), NEW garbage,
           NEW post \in Bytes, Before(p, Carried(f, v), post)
    PROVE  ReadField(f, p, garbage) = [value |-> v, packet |-> Skip(p, Len(Carried(f, v)))]
<1> DEFINE bytes == Carried(f, v)
<1>0. bytes = IF f.kind \in Counted THEN Bytes16(Len(v)) \o v ELSE v
  BY DEF Carried
<1>9. Before(p, bytes, post)
  OBVIOUS
<1> SUFFICES ReadField(f, p, garbage) = [value |-> v, packet |-> Skip(p, Len(bytes))]
  OBVIOUS
<1> HIDE DEF bytes
<1>1. f.kind \in Kinds /\ f.size \in Nat /\ v \in Bytes /\ Len(v) \in Nat
  BY LenProperties DEF IsField, Takes, Bytes
<1>2. CASE f.kind \notin Counted
  <2>1. bytes = v
    BY <1>0, <1>2
  <2>2. Has(p, Len(v)) /\ Ahead(p, Len(v)) = v
    BY <1>1, <1>9, <2>1, AheadIs
  <2>3. CASE f.kind = "number"
    <3>1. ReadField(f, p, garbage) = read(p, Len(v))
      BY <2>3 DEF ReadField, Takes
    <3> QED
      BY <2>1, <2>2, <3>1 DEF read
  <2>4. CASE f.kind = "bc"
    <3>1. ReadField(f, p, garbage) = ReadBc(p, garbage) /\ Len(v) = 3
      BY <2>4 DEF ReadField, Takes
    <3> QED
      BY <2>1, <2>2, <3>1 DEF ReadBc
  <2>5. CASE f.kind = "position"
    <3>1. Len(v) = 9 /\ Canonical(v) = v
      BY <2>5 DEF Takes
    <3> DEFINE r == [value |-> v, packet |-> Skip(p, 9)]
    <3>2. ReadToArray(p, 9) = r
      BY <2>2, <3>1 DEF ReadToArray
    <3>3. ReadPosition(p) = [r EXCEPT !.value = Canonical(@)]
      BY <3>2 DEF ReadPosition
    <3>4. ReadPosition(p) = r
      BY <3>1, <3>3
    <3> QED
      BY <2>1, <2>5, <3>1, <3>4 DEF ReadField
  <2> QED
    BY <1>1, <1>2, <2>3, <2>4, <2>5 DEF Kinds, Counted
<1>3. CASE f.kind \in Counted
  <2> DEFINE count == Bytes16(Len(v))
  <2>1. bytes = count \o v
    BY <1>0, <1>3
  <2>2. Len(bytes) = 2 + Len(v) /\ count \in Bytes /\ Len(count) = 2
    <3>1. count \in Bytes /\ Len(count) = 2
      BY <1>1, TwoBytes
    <3>2. Len(count \o v) = Len(count) + Len(v)
      BY <1>1, <3>1, ConcatProperties DEF Bytes
    <3> QED
      BY <2>1, <3>1, <3>2
  <2>3. Skip(Skip(p, 2), Len(v)) = Skip(p, Len(bytes))
    BY <1>1, <2>2, SkipTwice
  <2>4. Before(p, Bytes16(Len(v)) \o v, post)
    BY <1>9, <2>1
  <2> HIDE DEF count
  <2>5. CASE f.kind = "string"
    <3>1. Short(v) /\ \A i \in 1..Len(v) : v[i] # 0
      BY <2>5 DEF Takes
    <3> QED
      BY <1>1, <2>3, <2>4, <2>5, <3>1, StringReadsBack DEF ReadField
  <2>6. CASE f.kind = "vector"
    <3>1. Short(v)
      BY <2>6 DEF Takes
    <3> QED
      BY <1>1, <2>3, <2>4, <2>6, <3>1, VectorReadsBack DEF ReadField
  <2>7. CASE f.kind = "sized"
    <3>1. Len(v) <= 255
      BY <2>7 DEF Takes
    <3> QED
      BY <1>1, <2>3, <2>4, <2>7, <3>1, SizedReadsBack DEF ReadField
  <2> QED
    BY <1>3, <2>5, <2>6, <2>7 DEF Counted
<1> QED
  BY <1>2, <1>3
-----------------------------------------------------------------------------
(* What a format stands for, piece by piece. *)

LEMMA FieldBytesAreBytes ==
    ASSUME NEW f, NEW fields, Present(f, fields) => fields[f.name] \in Bytes
    PROVE  FieldBytes(f, fields) \in Bytes
<1> DEFINE p == [body |-> <<>>, rpos |-> 0, wpos |-> 0]
<1>1. p \in PacketSet /\ p.wpos = Len(p.body)
  BY EmptySeq DEF PacketSet, Bytes
<1> QED
  BY <1>1, FieldAtEnd

LEMMA SameEncoding ==
    ASSUME NEW s, NEW t, NEW F, NEW G, Len(s) \in Nat, Len(t) = Len(s),
           \A n \in 1..Len(s) : FieldBytes(s[n], F) = FieldBytes(t[n], G)
    PROVE  Encoding(s, F) = Encoding(t, G)
<1> DEFINE a == EncodingUpTo(s, F)
           b == EncodingUpTo(t, G)
           S == {n \in Nat : n <= Len(s) => a[n] = b[n]}
<1>1. a[0] = <<>> /\ \A n \in 1..Len(s) : a[n] = a[n - 1] \o FieldBytes(s[n], F)
  BY EncodingUnrolls
<1>2. b[0] = <<>> /\ \A n \in 1..Len(s) : b[n] = b[n - 1] \o FieldBytes(t[n], G)
  BY EncodingUnrolls
<1> HIDE DEF a, b
<1>3. 0 \in S
  BY <1>1, <1>2
<1>4. ASSUME NEW n \in Nat, n \in S PROVE n + 1 \in S
  <2> SUFFICES ASSUME n + 1 <= Len(s) PROVE a[n + 1] = b[n + 1]
    OBVIOUS
  <2>1. n + 1 \in 1..Len(s) /\ (n + 1) - 1 = n /\ a[n] = b[n]
    BY <1>4
  <2>2. a[n + 1] = a[n] \o FieldBytes(s[n + 1], F) /\ b[n + 1] = b[n] \o FieldBytes(t[n + 1], G)
    BY <1>1, <1>2, <2>1
  <2> QED
    BY <2>1, <2>2
<1>5. Nat \subseteq S
  BY <1>3, <1>4, SetInduction
<1>6. a[Len(s)] = b[Len(s)]
  BY <1>5
<1> QED
  BY <1>6 DEF a, b, Encoding

LEMMA EncodingJoined ==
    ASSUME NEW s, NEW t, IsForm(s), IsForm(t), NEW fields,
           \A n \in Names(s) \cup Names(t) : fields[n] \in Bytes
    PROVE  Encoding(s \o t, fields) = Encoding(s, fields) \o Encoding(t, fields)
<1> DEFINE u == s \o t
           a == Len(s)
           b == Len(t)
           es == EncodingUpTo(s, fields)
           et == EncodingUpTo(t, fields)
           eu == EncodingUpTo(u, fields)
           S == {n \in Nat : n <= a => eu[n] = es[n]}
           Q(m) == eu[a + m] = es[a] \o et[m] /\ et[m] \in Seq(Byte)
           T == {m \in Nat : m <= b => Q(m)}
<1>1. IsSequence(s) /\ IsSequence(t) /\ a \in Nat /\ b \in Nat
  BY SequenceDomain DEF IsForm
<1>2. /\ Len(u) = a + b
      /\ \A i \in 1..a : u[i] = s[i]
      /\ \A i \in a + 1 .. a + b : u[i] = t[i - a]
  BY <1>1, ConcatenatedSequence
<1> HIDE DEF u
<1>3. /\ es[0] = <<>> /\ \A n \in 1..a : es[n] = es[n - 1] \o FieldBytes(s[n], fields)
      /\ et[0] = <<>> /\ \A n \in 1..b : et[n] = et[n - 1] \o FieldBytes(t[n], fields)
  BY <1>1, EncodingUnrolls
<1>4. eu[0] = <<>> /\ \A n \in 1..(a + b) : eu[n] = eu[n - 1] \o FieldBytes(u[n], fields)
  <2>1. Len(u) \in Nat
    BY <1>1, <1>2
  <2> QED
    BY <1>2, <2>1, EncodingUnrolls
<1>5. es[a] \in Seq(Byte)
  BY EncodingIsBytes DEF Encoding, Bytes
<1>6. \A m \in 1..b : FieldBytes(t[m], fields) \in Seq(Byte)
  <2>1. \A m \in 1..b : t[m].name \in Names(t)
    BY NamesOfForm
  <2> QED
    BY <2>1, FieldBytesAreBytes DEF Bytes
<1> HIDE DEF a, b, es, et, eu
<1>7. a \in S
  <2>1. 0 \in S
    BY <1>3, <1>4
  <2>2. ASSUME NEW n \in Nat, n \in S PROVE n + 1 \in S
    <3> SUFFICES ASSUME n + 1 <= a PROVE eu[n + 1] = es[n + 1]
      OBVIOUS
    <3>1. n + 1 \in 1..a /\ n + 1 \in 1..(a + b) /\ (n + 1) - 1 = n /\ eu[n] = es[n]
      BY <1>1, <2>2
    <3>2. eu[n + 1] = eu[n] \o FieldBytes(u[n + 1], fields)
          /\ es[n + 1] = es[n] \o FieldBytes(s[n + 1], fields)
      BY <1>3, <1>4, <3>1
    <3>3. u[n + 1] = s[n + 1]
      BY <1>2, <3>1
    <3> QED
      BY <3>1, <3>2, <3>3
  <2> HIDE DEF S
  <2>3. Nat \subseteq S
    BY <2>1, <2>2, SetInduction
  <2> QED
    BY <1>1, <2>3
<1>8. b \in T
  <2>1. 0 \in T
    <3>1. eu[a + 0] = es[a]
      BY <1>1, <1>7
    <3>2. es[a] \o <<>> = es[a] /\ <<>> \in Seq(Byte)
      BY <1>5, NothingAppended
    <3>3. Q(0)
      BY <1>3, <3>1, <3>2
    <3> HIDE DEF Q
    <3> QED
      BY <3>3
  <2>2. ASSUME NEW m \in Nat, m \in T PROVE m + 1 \in T
    <3> HIDE DEF Q
    <3> SUFFICES ASSUME m + 1 <= b PROVE Q(m + 1)
      OBVIOUS
    <3> DEFINE bytes == FieldBytes(t[m + 1], fields)
    <3>1. /\ m + 1 \in 1..b /\ (m + 1) - 1 = m
          /\ a + (m + 1) \in 1..(a + b) /\ (a + (m + 1)) - 1 = a + m
          /\ a + (m + 1) \in a + 1 .. a + b /\ (a + (m + 1)) - a = m + 1
          /\ Q(m)
      BY <1>1, <2>2
    <3>2. u[a + (m + 1)] = t[m + 1]
      BY <1>2, <3>1
    <3>3. eu[a + m] = es[a] \o et[m] /\ et[m] \in Seq(Byte)
      BY <3>1 DEF Q
    <3>4. eu[a + (m + 1)] = eu[a + m] \o bytes /\ et[m + 1] = et[m] \o bytes
      BY <1>3, <1>4, <3>1, <3>2
    <3>5. bytes \in Seq(Byte)
      BY <1>6, <3>1
    <3> HIDE DEF bytes
    <3>6. (es[a] \o et[m]) \o bytes = es[a] \o (et[m] \o bytes) /\ et[m] \o bytes \in Seq(Byte)
      <4>1. \A x, y, z \in Seq(Byte) : (x \o y) \o z = x \o (y \o z) /\ x \o y \in Seq(Byte)
        BY ConcatAssociative, ConcatProperties
      <4> QED
        BY <1>5, <3>3, <3>5, <4>1, Zenon
    <3> QED
      BY <3>3, <3>4, <3>6, Zenon DEF Q
  <2> HIDE DEF Q, T
  <2>3. Nat \subseteq T
    BY <2>1, <2>2, SetInduction
  <2> QED
    BY <1>1, <2>3
<1>9. eu[a + b] = es[a] \o et[b]
  <2> HIDE DEF Q
  <2>1. Q(b)
    BY <1>1, <1>8
  <2> QED
    BY <2>1 DEF Q
<1>10. Encoding(u, fields) = eu[a + b]
  BY <1>2 DEF Encoding, eu
<1>11. Encoding(s, fields) = es[a] /\ Encoding(t, fields) = et[b]
  BY DEF Encoding, es, et, a, b
<1> QED
  BY <1>9, <1>10, <1>11 DEF u

\* The first fields of a format come first.
LEMMA EncodingBegins ==
    ASSUME NEW format, IsForm(format), NEW fields,
           \A n \in Names(format) : fields[n] \in Bytes
    PROVE  \A n \in 0..Len(format) :
              /\ EncodingUpTo(format, fields)[n] \in Bytes
              /\ \E rest \in Bytes :
                    Encoding(format, fields) = EncodingUpTo(format, fields)[n] \o rest
<1> DEFINE e == EncodingUpTo(format, fields)
           k == Len(format)
           S == {n \in Nat : n <= k => e[n] \in Seq(Byte)}
           Begins(n) == \E rest \in Seq(Byte) : e[k] = e[n] \o rest
           T == {m \in Nat : m <= k => Begins(k - m)}
<1>1. k \in Nat /\ \A n \in 1..k : FieldBytes(format[n], fields) \in Seq(Byte)
  BY NamesOfForm, FieldBytesAreBytes DEF Bytes
<1>2. e[0] = <<>> /\ \A n \in 1..k : e[n] = e[n - 1] \o FieldBytes(format[n], fields)
  BY <1>1, EncodingUnrolls
<1> HIDE DEF e, k
<1>3. Nat \subseteq S
  <2>1. 0 \in S
    BY <1>2, EmptySeq
  <2>2. ASSUME NEW n \in Nat, n \in S PROVE n + 1 \in S
    <3> SUFFICES ASSUME n + 1 <= k PROVE e[n + 1] \in Seq(Byte)
      OBVIOUS
    <3>1. n + 1 \in 1..k /\ (n + 1) - 1 = n /\ e[n] \in Seq(Byte)
      BY <1>1, <2>2
    <3>2. e[n + 1] = e[n] \o FieldBytes(format[n + 1], fields)
          /\ FieldBytes(format[n + 1], fields) \in Seq(Byte)
      BY <1>1, <1>2, <3>1
    <3> QED
      BY <3>1, <3>2, ConcatProperties
  <2> HIDE DEF S
  <2> QED
    BY <2>1, <2>2, SetInduction
<1>4. \A n \in 0..k : e[n] \in Seq(Byte)
  BY <1>1, <1>3
<1>5. Nat \subseteq T
  <2>1. 0 \in T
    <3>1. e[k] \o <<>> = e[k] /\ <<>> \in Seq(Byte) /\ k - 0 = k
      BY <1>1, <1>4, NothingAppended, EmptySeq
    <3>2. Begins(k - 0)
      BY <3>1
    <3> HIDE DEF Begins
    <3> QED
      BY <3>2
  <2>2. ASSUME NEW m \in Nat, m \in T PROVE m + 1 \in T
    <3> HIDE DEF Begins
    <3> SUFFICES ASSUME m + 1 <= k PROVE Begins(k - (m + 1))
      OBVIOUS
    <3> DEFINE n == k - (m + 1)
               bytes == FieldBytes(format[k - m], fields)
    <3>1. k - m \in 1..k /\ (k - m) - 1 = n /\ n \in 0..k /\ Begins(k - m)
      BY <1>1, <2>2
    <3>2. PICK rest \in Seq(Byte) : e[k] = e[k - m] \o rest
      BY <3>1 DEF Begins
    <3>3. e[k - m] = e[n] \o bytes /\ bytes \in Seq(Byte) /\ e[n] \in Seq(Byte)
      BY <1>1, <1>2, <1>4, <3>1
    <3> HIDE DEF n, bytes
    <3>4. e[k] = e[n] \o (bytes \o rest) /\ bytes \o rest \in Seq(Byte)
      <4>1. \A x, y, z \in Seq(Byte) : (x \o y) \o z = x \o (y \o z) /\ x \o y \in Seq(Byte)
        BY ConcatAssociative, ConcatProperties
      <4>2. (e[n] \o bytes) \o rest = e[n] \o (bytes \o rest) /\ bytes \o rest \in Seq(Byte)
        BY <3>2, <3>3, <4>1, Zenon
      <4> QED
        BY <3>2, <3>3, <4>2, Zenon
    <3>5. Begins(n)
      BY <3>4, Zenon DEF Begins
    <3> QED
      BY <3>5 DEF n
  <2> HIDE DEF T
  <2> QED
    BY <2>1, <2>2, SetInduction
<1>6. ASSUME NEW n \in 0..k PROVE e[n] \in Seq(Byte) /\ Begins(n)
  <2>1. k - n \in Nat /\ k - n <= k /\ k - (k - n) = n
    BY <1>1
  <2>2. k - n \in T
    BY <1>5, <2>1
  <2>3. Begins(k - (k - n))
    BY <2>1, <2>2
  <2> QED
    BY <1>4, <2>1, <2>3
<1>7. Encoding(format, fields) = e[k]
  BY DEF Encoding, e, k
<1> QED
  BY <1>6, <1>7 DEF e, k, Bytes
-----------------------------------------------------------------------------
(* A handler that reads what a client wrote reads what the client meant. *)

\* A flag is read before the fields that are there because of it.
FlagsAhead(format) ==
    \A n \in 1..Len(format) :
        format[n].on = "" \/ \E m \in 1..(n - 1) : format[m].name = format[n].on

\* What the reader can take; what is not there is as if by default.
TakenBy(format, fields, defaults) ==
    \A n \in 1..Len(format) :
        IF Present(format[n], fields) THEN Takes(format[n], fields[format[n].name])
        ELSE fields[format[n].name] = defaults[format[n].name]

LEMMA FormatReadsBack ==
    ASSUME NEW format, IsForm(format), FlagsAhead(format),
           NEW p \in PacketSet, NEW names, NEW defaults \in [names -> Bytes],
           Names(format) \subseteq names, NEW garbage,
           NEW fields, \A n \in Names(format) : fields[n] \in Bytes,
           TakenBy(format, fields, defaults),
           NEW post \in Bytes, Before(p, Encoding(format, fields), post)
    PROVE  LET r == ReadFormat(format, p, defaults, garbage)
           IN  /\ r.packet = Skip(p, Len(Encoding(format, fields)))
               /\ \A n \in Names(format) : r.fields[n] = fields[n]
               /\ \A n \in names \ Names(format) : r.fields[n] = defaults[n]
<1> DEFINE k == Len(format)
           e == EncodingUpTo(format, fields)
           w == ReadUpTo(format, p, defaults, garbage)
           P(n) == /\ w[n].packet = Skip(p, Len(e[n]))
                   /\ w[n].fields \in [names -> Bytes]
                   /\ \A j \in 1..n : w[n].fields[format[j].name] = fields[format[j].name]
                   /\ \A x \in names \ Names(format) : w[n].fields[x] = defaults[x]
                   /\ \A x \in Names(format) :
                         w[n].fields[x] = defaults[x] \/ w[n].fields[x] = fields[x]
           S == {n \in Nat : n <= k => P(n)}
<1>1. /\ k \in Nat /\ \A n \in 1..k : IsField(format[n]) /\ format[n].name \in Names(format)
      /\ \A x \in Names(format) : \E n \in 1..k : x = format[n].name
  <2>1. k \in Nat /\ DOMAIN format = 1..k
    BY SequenceDomain DEF IsForm
  <2> QED
    BY <2>1 DEF IsForm, Names, Range
<1>2. /\ e[0] = <<>> /\ \A n \in 1..k : e[n] = e[n - 1] \o FieldBytes(format[n], fields)
      /\ w[0] = [packet |-> p, fields |-> defaults]
      /\ \A n \in 1..k : w[n] = ReadNext(format[n], w[n - 1], garbage)
  <2>1. Len(format) \in Nat
    BY <1>1
  <2>2. e[0] = <<>> /\ \A n \in 1..k : e[n] = e[n - 1] \o FieldBytes(format[n], fields)
    BY <2>1, EncodingUnrolls
  <2>3. /\ w[0] = [packet |-> p, fields |-> defaults]
        /\ \A n \in 1..k : w[n] = ReadNext(format[n], w[n - 1], garbage)
    BY <2>1, ReadingUnrolls
  <2> QED
    BY <2>2, <2>3
<1>3. \A n \in 0..k : e[n] \in Bytes /\ \E rest \in Bytes : Encoding(format, fields) = e[n] \o rest
  BY EncodingBegins
<1>4. \A n \in 1..k : FieldBytes(format[n], fields) \in Bytes
  BY <1>1, FieldBytesAreBytes
<1>5. Encoding(format, fields) = e[k] /\ ReadFormat(format, p, defaults, garbage) = w[k]
  BY DEF Encoding, ReadFormat
<1> HIDE DEF k, e, w
<1>6. 0 \in S
  <2>1. Len(<<>>) = 0 /\ Skip(p, 0) = p
    BY EmptySeq, SkipTwice
  <2>2. P(0)
    BY <1>2, <2>1
  <2> HIDE DEF P
  <2> QED
    BY <2>2
<1>7. ASSUME NEW n \in Nat, n \in S PROVE n + 1 \in S
  <2> HIDE DEF P
  <2> SUFFICES ASSUME n + 1 <= k PROVE P(n + 1)
    OBVIOUS
  <2> DEFINE f == format[n + 1]
             bytes == FieldBytes(f, fields)
             q == w[n].packet
             got0 == w[n].fields
  <2>1. n + 1 \in 1..k /\ (n + 1) - 1 = n /\ n \in 0..k /\ n + 1 \in 0..k /\ P(n)
    BY <1>1, <1>7
  <2>2. /\ q = Skip(p, Len(e[n])) /\ got0 \in [names -> Bytes]
        /\ \A j \in 1..n : got0[format[j].name] = fields[format[j].name]
        /\ \A x \in names \ Names(format) : got0[x] = defaults[x]
        /\ \A x \in Names(format) : got0[x] = defaults[x] \/ got0[x] = fields[x]
    BY <2>1 DEF P
  <2>3. /\ IsField(f) /\ f.name \in Names(format) /\ bytes \in Bytes
        /\ e[n + 1] = e[n] \o bytes /\ w[n + 1] = ReadNext(f, w[n], garbage)
        /\ e[n] \in Bytes /\ e[n + 1] \in Bytes
    BY <1>1, <1>2, <1>3, <1>4, <2>1
  <2>4. Present(f, got0) <=> Present(f, fields)
    <3>1. CASE f.on = ""
      BY <3>1 DEF Present
    <3>2. CASE f.on # ""
      <4>1. PICK m \in 1..n : format[m].name = f.on
        BY <2>1, <3>2 DEF FlagsAhead, k
      <4>2. got0[f.on] = fields[f.on]
        BY <2>2, <4>1
      <4> QED
        BY <3>2, <4>2 DEF Present
    <3> QED
      BY <3>1, <3>2
  <2>5. IF Present(f, fields) THEN Takes(f, fields[f.name])
        ELSE fields[f.name] = defaults[f.name]
    BY <2>1 DEF TakenBy, k
  <2> HIDE DEF f, bytes, q, got0
  <2>6. CASE ~Present(f, fields)
    <3>1. w[n + 1] = w[n]
      BY <2>3, <2>4, <2>6 DEF ReadNext, got0
    <3>2. bytes = <<>>
      BY <2>6 DEF FieldBytes, bytes
    <3>3. e[n + 1] = e[n]
      BY <2>3, <3>2, NothingAppended DEF Bytes
    <3>4. got0[f.name] = fields[f.name]
      BY <2>2, <2>3, <2>5, <2>6
    <3>5. \A j \in 1..(n + 1) : got0[format[j].name] = fields[format[j].name]
      <4>1. \A j \in 1..(n + 1) : j \in 1..n \/ j = n + 1
        OBVIOUS
      <4> QED
        BY <2>2, <3>4, <4>1 DEF f
    <3> QED
      BY <2>2, <3>1, <3>3, <3>5 DEF P, q, got0
  <2>7. CASE Present(f, fields)
    <3> DEFINE v == fields[f.name]
    <3>1. Takes(f, v) /\ v \in Bytes
      BY <2>5, <2>7 DEF Takes
    <3>2. bytes = Carried(f, v)
      BY <2>7 DEF FieldBytes, bytes, Counted, Carried
    <3> HIDE DEF v
    <3>3. q \in PacketSet /\ \E after \in Bytes : Before(q, bytes, after)
      <4>1. PICK rest \in Bytes : Encoding(format, fields) = e[n + 1] \o rest
        BY <1>3, <2>1
      <4>2. Before(p, e[n + 1] \o rest, post)
        BY <4>1
      <4>3. Before(p, e[n + 1], rest \o post)
        BY <2>3, <4>2, BeforeNext, Zenon
      <4>4. Before(p, e[n] \o bytes, rest \o post) /\ rest \o post \in Bytes
        BY <2>3, <4>3, ConcatProperties DEF Bytes
      <4>5. /\ Skip(p, Len(e[n])) \in PacketSet
            /\ Before(Skip(p, Len(e[n])), bytes, rest \o post)
        BY <2>3, <4>4, BeforeNext, Zenon
      <4> QED
        BY <2>2, <4>4, <4>5
    <3>4. ReadField(f, q, garbage) = [value |-> v, packet |-> Skip(q, Len(bytes))]
      <4>1. PICK after \in Bytes : Before(q, bytes, after)
        BY <3>3
      <4> QED
        BY <2>3, <3>1, <3>2, <3>3, <4>1, FieldReadsBack, Zenon
    <3>5. w[n + 1] = [packet |-> Skip(q, Len(bytes)), fields |-> [got0 EXCEPT ![f.name] = v]]
      BY <2>3, <2>4, <2>7, <3>4 DEF ReadNext, got0, q
    <3>6. Skip(q, Len(bytes)) = Skip(p, Len(e[n + 1]))
      <4>1. Len(e[n]) \in Nat /\ Len(bytes) \in Nat /\ Len(e[n + 1]) = Len(e[n]) + Len(bytes)
        <5>1. e[n] \in Seq(Byte) /\ bytes \in Seq(Byte)
          BY <2>3 DEF Bytes
        <5>2. Len(e[n] \o bytes) = Len(e[n]) + Len(bytes)
          BY <5>1, ConcatProperties, Zenon
        <5>3. Len(e[n]) \in Nat /\ Len(bytes) \in Nat
          BY <5>1, LenProperties, Zenon
        <5> QED
          BY <2>3, <5>2, <5>3, Zenon
      <4>2. Skip(Skip(p, Len(e[n])), Len(bytes)) = Skip(p, Len(e[n]) + Len(bytes))
        BY <4>1, SkipTwice, Zenon
      <4> QED
        BY <2>2, <4>1, <4>2, Zenon
    <3> DEFINE got1 == [got0 EXCEPT ![f.name] = v]
    <3>7. /\ got1 \in [names -> Bytes] /\ got1[f.name] = v
          /\ \A x \in names : x # f.name => got1[x] = got0[x]
      BY <2>2, <2>3, <3>1
    <3> HIDE DEF got1
    <3>8. \A j \in 1..(n + 1) : got1[format[j].name] = fields[format[j].name]
      <4>1. \A j \in 1..(n + 1) : j \in 1..n \/ j = n + 1
        OBVIOUS
      <4>2. \A j \in 1..n : format[j].name \in names
        BY <1>1, <2>1
      <4>3. \A j \in 1..n : got1[format[j].name] = fields[format[j].name]
        BY <2>2, <3>7, <4>2 DEF v
      <4>4. got1[format[n + 1].name] = fields[format[n + 1].name]
        BY <3>7 DEF v, f
      <4> QED
        BY <4>1, <4>3, <4>4
    <3>9. /\ \A x \in names \ Names(format) : got1[x] = defaults[x]
          /\ \A x \in Names(format) : got1[x] = defaults[x] \/ got1[x] = fields[x]
      BY <2>2, <2>3, <3>7 DEF v
    <3>10. w[n + 1].packet = Skip(p, Len(e[n + 1])) /\ w[n + 1].fields = got1
      BY <3>5, <3>6 DEF got1
    <3> QED
      BY <3>7, <3>8, <3>9, <3>10 DEF P
  <2> QED
    BY <2>6, <2>7
<1>8. P(k)
  <2> HIDE DEF P
  <2>1. Nat \subseteq S
    BY <1>6, <1>7, SetInduction
  <2> QED
    BY <1>1, <2>1
<1>9. /\ w[k].packet = Skip(p, Len(e[k]))
      /\ \A x \in names \ Names(format) : w[k].fields[x] = defaults[x]
      /\ \A j \in 1..k : w[k].fields[format[j].name] = fields[format[j].name]
  BY <1>8
<1>10. \A x \in Names(format) : w[k].fields[x] = fields[x]
  BY <1>1, <1>9
<1> QED
  BY <1>5, <1>9, <1>10
-----------------------------------------------------------------------------
(* The flags of the formats. *)

\* The same behind fields of some names.
FlagsAfter(format, known) ==
    \A n \in 1..Len(format) :
        \/ format[n].on = "" \/ format[n].on \in known
        \/ \E m \in 1..(n - 1) : format[m].name = format[n].on
Plain(format) == IsForm(format) /\ \A n \in 1..Len(format) : format[n].on = ""
Flagged(format) == IsForm(format) /\ FlagsAfter(format, {})

LEMMA FlaggedAhead ==
    ASSUME NEW format, Flagged(format)
    PROVE  FlagsAhead(format)
BY DEF Flagged, FlagsAfter, FlagsAhead

LEMMA PlainPieces ==
    /\ \A name : \A size \in Nat : Plain(Number(name, size))
    /\ \A name : /\ Plain(Bc(name)) /\ Plain(Position(name)) /\ Plain(String(name))
                 /\ Plain(Vector(name))
    /\ \A names : \A size \in Nat : IsSequence(names) => Plain(Numbers(names, size))
<1>1. ASSUME NEW kind, NEW name, NEW size PROVE Field(kind, name, size).on = ""
  BY DEF Field
<1>2. ASSUME NEW f, f.on = "", IsForm(<<f>>) PROVE Plain(<<f>>)
  <2>1. \A n \in 1..Len(<<f>>) : <<f>>[n] = f
    OBVIOUS
  <2> QED
    BY <1>2, <2>1, Zenon DEF Plain
<1>3. ASSUME NEW names, NEW size \in Nat, IsSequence(names) PROVE Plain(Numbers(names, size))
  <2> DEFINE s == Numbers(names, size)
  <2>1. DOMAIN s = DOMAIN names /\ \A i \in DOMAIN names : s[i] = Field("number", names[i], size)
    BY DEF Numbers
  <2>2. IsForm(s)
    BY <1>3, ManyFields
  <2> HIDE DEF s
  <2>3. DOMAIN s = 1..Len(s)
    BY <2>2, SequenceDomain DEF IsForm
  <2>4. \A n \in 1..Len(s) : s[n].on = ""
    <3> SUFFICES ASSUME NEW n \in 1..Len(s) PROVE s[n].on = ""
      OBVIOUS
    <3>1. s[n] = Field("number", names[n], size)
      BY <2>1, <2>3
    <3>2. Field("number", names[n], size).on = ""
      BY <1>1, Zenon
    <3> QED
      BY <3>1, <3>2, Zenon
  <2>5. Plain(s)
    BY <2>2, <2>4, Zenon DEF Plain
  <2> QED
    BY <2>5 DEF s
<1>4. \A name : \A size \in Nat : Plain(Number(name, size))
  BY <1>1, <1>2, OneField DEF Number
<1>5. \A name : /\ Plain(Bc(name)) /\ Plain(Position(name)) /\ Plain(String(name))
               /\ Plain(Vector(name))
  <2>1. 0 \in Nat
    OBVIOUS
  <2>2. \A name : /\ IsForm(Bc(name)) /\ IsForm(Position(name)) /\ IsForm(String(name))
                  /\ IsForm(Vector(name))
    BY <2>1, OneField
  <2> QED
    BY <1>1, <1>2, <2>2 DEF Bc, Position, String, Vector
<1> QED
  BY <1>3, <1>4, <1>5

LEMMA FlagsJoined ==
    ASSUME NEW s, NEW t, IsForm(s), IsForm(t), NEW known,
           FlagsAfter(s, known), FlagsAfter(t, known \cup Names(s))
    PROVE  FlagsAfter(s \o t, known)
<1> DEFINE u == s \o t
           a == Len(s)
           b == Len(t)
<1>1. IsSequence(s) /\ IsSequence(t) /\ a \in Nat /\ b \in Nat
      /\ \A x \in Names(s) : \E n \in 1..a : s[n].name = x
  <2>1. IsSequence(s) /\ IsSequence(t) /\ a \in Nat /\ b \in Nat /\ DOMAIN s = 1..a
    BY SequenceDomain DEF IsForm
  <2> QED
    BY <2>1 DEF Names, Range
<1>2. /\ Len(u) = a + b
      /\ \A i \in 1..a : u[i] = s[i]
      /\ \A i \in a + 1 .. a + b : u[i] = t[i - a]
  BY <1>1, ConcatenatedSequence
<1>3. /\ \A n \in 1..a : \/ s[n].on = "" \/ s[n].on \in known
                         \/ \E m \in 1..(n - 1) : s[m].name = s[n].on
      /\ \A n \in 1..b : \/ t[n].on = "" \/ t[n].on \in known \/ t[n].on \in Names(s)
                         \/ \E m \in 1..(n - 1) : t[m].name = t[n].on
  BY DEF FlagsAfter
<1> HIDE DEF u, a, b
<1>4. ASSUME NEW n \in 1..(a + b)
      PROVE  \/ u[n].on = "" \/ u[n].on \in known
             \/ \E m \in 1..(n - 1) : u[m].name = u[n].on
  <2>1. CASE n \in 1..a
    <3>1. u[n] = s[n] /\ \A m \in 1..(n - 1) : u[m] = s[m]
      BY <1>1, <1>2, <2>1
    <3> QED
      BY <1>3, <2>1, <3>1
  <2>2. CASE n \in a + 1 .. a + b
    <3>1. u[n] = t[n - a] /\ n - a \in 1..b
      BY <1>1, <1>2, <2>2
    <3>2. \A m \in 1..(n - a - 1) : a + m \in 1..(n - 1) /\ u[a + m] = t[m]
      <4> SUFFICES ASSUME NEW m \in 1..(n - a - 1) PROVE a + m \in 1..(n - 1) /\ u[a + m] = t[m]
        OBVIOUS
      <4>1. a + m \in a + 1 .. a + b /\ a + m \in 1..(n - 1) /\ (a + m) - a = m
        BY <1>1, <2>2
      <4> QED
        BY <1>2, <4>1
    <3>3. \A m \in 1..a : m \in 1..(n - 1) /\ u[m] = s[m]
      BY <1>1, <1>2, <2>2
    <3>4. CASE t[n - a].on \in Names(s)
      BY <1>1, <3>1, <3>3, <3>4
    <3>5. CASE \E m \in 1..(n - a - 1) : t[m].name = t[n - a].on
      BY <3>1, <3>2, <3>5
    <3> QED
      BY <1>3, <3>1, <3>4, <3>5
  <2>3. n \in 1..a \/ n \in a + 1 .. a + b
    BY <1>1
  <2> QED
    BY <2>1, <2>2, <2>3, Zenon
<1> QED
  BY <1>2, <1>4 DEF FlagsAfter, u

LEMMA PlainJoined ==
    ASSUME NEW s, Flagged(s), NEW t, Plain(t)
    PROVE  Flagged(s \o t) /\ Names(s \o t) = Names(s) \cup Names(t)
<1>1. IsForm(s) /\ IsForm(t) /\ FlagsAfter(s, {})
  BY DEF Flagged, Plain
<1>2. FlagsAfter(t, {} \cup Names(s))
  BY DEF Plain, FlagsAfter
<1> QED
  BY <1>1, <1>2, JoinedFields, JoinedNames, FlagsJoined, Zenon DEF Flagged

LEMMA WhenJoined ==
    ASSUME NEW s, Flagged(s), NEW t, IsForm(t), NEW on \in Names(s), NEW flags
    PROVE  /\ Flagged(s \o When(on, flags, t))
           /\ Names(s \o When(on, flags, t)) = Names(s) \cup Names(t)
<1> DEFINE w == When(on, flags, t)
<1>1. IsForm(s) /\ FlagsAfter(s, {}) /\ IsForm(w) /\ Names(w) = Names(t)
  BY ConditionalFields, NamesOfPieces DEF Flagged
<1>2. \A n \in 1..Len(w) : w[n].on = on
  <2>1. Len(t) \in Nat /\ DOMAIN t = 1..Len(t)
    BY SequenceDomain DEF IsForm
  <2>2. DOMAIN w = 1..Len(t) /\ \A n \in 1..Len(t) : w[n] = [t[n] EXCEPT !.on = on, !.flags = flags]
    BY <2>1 DEF When
  <2>3. DOMAIN w = 1..Len(w)
    BY <1>1, SequenceDomain DEF IsForm
  <2> HIDE DEF w
  <2>4. \A n \in 1..Len(t) : IsField(t[n])
    BY DEF IsForm
  <2>5. ASSUME NEW f, IsField(f) PROVE [f EXCEPT !.on = on, !.flags = flags].on = on
    <3> DEFINE g == [f EXCEPT !.on = on]
    <3>1. DOMAIN f = {"kind", "name", "size", "on", "flags"}
      BY <2>5 DEF IsField
    <3>2. DOMAIN g = DOMAIN f /\ g.on = on
      BY <3>1
    <3> HIDE DEF g
    <3>3. [g EXCEPT !.flags = flags].on = on
      BY <3>1, <3>2
    <3> QED
      BY <3>3 DEF g
  <2>6. ASSUME NEW n \in 1..Len(t) PROVE w[n].on = on
    <3>1. PICK f : f = t[n]
      OBVIOUS
    <3>2. IsField(f) /\ w[n] = [f EXCEPT !.on = on, !.flags = flags]
      BY <2>2, <2>4, <3>1
    <3> QED
      BY <2>5, <3>2
  <2> QED
    BY <2>2, <2>3, <2>6
<1> HIDE DEF w
<1>3. FlagsAfter(w, {} \cup Names(s))
  BY <1>2 DEF FlagsAfter
<1>4. Flagged(s \o w) /\ Names(s \o w) = Names(s) \cup Names(w)
  BY <1>1, <1>3, JoinedFields, JoinedNames, FlagsJoined, Zenon DEF Flagged
<1> QED
  BY <1>1, <1>4 DEF w
LEMMA FlaggedJoined ==
    ASSUME NEW s, Flagged(s), NEW t, IsForm(t), FlagsAfter(t, Names(s))
    PROVE  Flagged(s \o t) /\ Names(s \o t) = Names(s) \cup Names(t)
<1>1. IsForm(s) /\ FlagsAfter(s, {}) /\ FlagsAfter(t, {} \cup Names(s))
  BY DEF Flagged
<1> QED
  BY <1>1, JoinedFields, JoinedNames, FlagsJoined, Zenon DEF Flagged

LEMMA PlainIsFlagged ==
    ASSUME NEW s, Plain(s)
    PROVE  Flagged(s)
BY DEF Plain, Flagged, FlagsAfter

\* What a unit's movement has read of the character.
LEMMA MovementDataFlagged == Flagged(ReadUnitMovementData)
<1> DEFINE pos == Position("Pos")
           vel == Numbers(<<"VelX", "VelY", "VelZ">>, 2)
           rot == Number("Rot", 3)
           delta == Number("DeltaMov", 3)
           state == Numbers(<<"Stance", "Alertness", "ActorFlags">>, 1)
           fall == Number("FallVel", 2)
           ground == Number("GcFlags", 1) \o Number("GcPartId", 2) \o Position("Pos2")
                     \o Number("Rot2", 3)
           gcId == Number("GcId", 4)
           climb == Number("ClimbData", 4)
           upTo1 == pos \o vel \o rot \o delta \o state
           upTo2 == upTo1 \o When("ActorFlags", HasBit({128}), fall)
           upTo3 == upTo2 \o When("ActorFlags", HasBit({32}), ground)
           upTo4 == upTo3 \o When("ActorFlags", HasBit({32, 64}), gcId)
<1>1. Plain(pos) /\ Plain(vel) /\ Plain(rot) /\ Plain(delta) /\ Plain(state)
  BY NameLists, PlainPieces
<1>2. IsForm(fall) /\ IsForm(ground) /\ IsForm(gcId) /\ IsForm(climb)
  BY OneField, JoinedFields
<1>3. "ActorFlags" \in Names(state)
  <2>1. <<"Stance", "Alertness", "ActorFlags">>[3] = "ActorFlags"
        /\ 3 \in DOMAIN <<"Stance", "Alertness", "ActorFlags">>
    OBVIOUS
  <2> QED
    BY <2>1, NamesOfPieces DEF Range
<1>4. ReadUnitMovementData = upTo4 \o When("ActorFlags", HasBit({64}), climb)
  BY Zenon DEF ReadUnitMovementData
<1> HIDE DEF pos, vel, rot, delta, state, fall, ground, gcId, climb
<1>5. Flagged(upTo1) /\ "ActorFlags" \in Names(upTo1)
  BY <1>1, <1>3, PlainIsFlagged, PlainJoined
<1> HIDE DEF upTo1
<1>6. Flagged(upTo2) /\ "ActorFlags" \in Names(upTo2)
  BY <1>2, <1>5, WhenJoined
<1> HIDE DEF upTo2
<1>7. Flagged(upTo3) /\ "ActorFlags" \in Names(upTo3)
  BY <1>2, <1>6, WhenJoined
<1> HIDE DEF upTo3
<1>8. Flagged(upTo4) /\ "ActorFlags" \in Names(upTo4)
  BY <1>2, <1>7, WhenJoined
<1> HIDE DEF upTo4
<1> QED
  BY <1>2, <1>4, <1>8, WhenJoined

LEMMA MovementFlagged ==
    ASSUME NEW body, Flagged(body)
    PROVE  Flagged(Movement(body))
<1> DEFINE inner == When("Type", {1}, body)
           s == [i \in DOMAIN body |-> IF body[i].on = "" THEN inner[i] ELSE body[i]]
           k == Len(body)
           id == Bc("objId")
           type == Number("Type", 1)
           times == Number("Time", 4) \o Number("Flags", 1)
           phases == Number("ScType", 4) \o Number("Phase", 1)
           head == id \o type \o MovementHead
<1>1. /\ IsForm(body) /\ IsForm(inner) /\ DOMAIN inner = DOMAIN body
      /\ \A i \in DOMAIN body : inner[i] = [body[i] EXCEPT !.on = "Type", !.flags = {1}]
  BY ConditionalFields DEF When, Flagged
<1>2. k \in Nat /\ DOMAIN body = 1..k
  BY <1>1, SequenceDomain DEF IsForm
<1>3. Len(inner) = k
  <2>1. DOMAIN inner = 1..k
    BY <1>1, <1>2
  <2> HIDE DEF inner, k
  <2>2. Len(inner) \in Nat /\ DOMAIN inner = 1..Len(inner)
    BY <1>1, SequenceDomain DEF IsForm
  <2> QED
    BY <1>2, <2>1, <2>2
<1>4. \A i \in 1..k : IsField(inner[i]) /\ IsField(body[i])
  BY <1>1, <1>3 DEF IsForm
<1>5. \A i \in 1..k : inner[i].on = "Type" /\ inner[i].name = body[i].name
  BY <1>1, <1>2, <1>4 DEF IsField
<1> HIDE DEF inner
<1>6. DOMAIN s = 1..k /\ s = [i \in 1..k |-> s[i]]
      /\ \A i \in 1..k : s[i] = inner[i] \/ s[i] = body[i]
  BY <1>2
<1> HIDE DEF s, k
<1>7. IsForm(s) /\ Len(s) = k
  <2>1. IsSequence(s) /\ Len(s) = k
    BY <1>2, <1>6, IntervalSequence
  <2> QED
    BY <1>4, <1>6, <2>1 DEF IsForm
<1>8. FlagsAfter(s, {"Type"})
  <2>1. \A i \in 1..k : s[i].name = body[i].name /\ (s[i].on = "Type" \/ s[i].on = body[i].on)
    BY <1>5, <1>6
  <2>2. \A n \in 1..k : body[n].on = "" \/ \E m \in 1..(n - 1) : body[m].name = body[n].on
    BY DEF Flagged, FlagsAfter, k
  <2>3. \A n \in 1..k : \A m \in 1..(n - 1) : m \in 1..k
    BY <1>2
  <2>4. \A n \in 1..k : \/ s[n].on = "" \/ s[n].on = "Type"
                        \/ \E m \in 1..(n - 1) : s[m].name = s[n].on
    BY <2>1, <2>2, <2>3
  <2> QED
    BY <1>7, <2>4 DEF FlagsAfter
<1>9. Movement(body) = head \o s
  BY DEF Movement, inner, s
<1>10. Flagged(head) /\ "Type" \in Names(head)
  <2>1. Plain(id) /\ Plain(type) /\ Plain(Number("Time", 4)) /\ Plain(Number("Flags", 1))
        /\ "Type" \in Names(type) /\ "Flags" \in Names(Number("Flags", 1))
    BY PlainPieces, NamesOfPieces
  <2>2. Flagged(times) /\ "Flags" \in Names(times)
    BY <2>1, PlainIsFlagged, PlainJoined
  <2>3. IsForm(phases)
    BY OneField, JoinedFields
  <2>4. MovementHead = times \o When("Flags", HasBit({16}), phases)
    BY Zenon DEF MovementHead
  <2> HIDE DEF id, type, times, phases
  <2>5. Flagged(MovementHead)
    BY <2>2, <2>3, <2>4, WhenJoined
  <2>6. Flagged(id \o type) /\ "Type" \in Names(id \o type)
    BY <2>1, PlainIsFlagged, PlainJoined
  <2>7. IsForm(MovementHead) /\ FlagsAfter(MovementHead, Names(id \o type))
    BY <2>5 DEF Flagged, FlagsAfter
  <2> QED
    BY <2>6, <2>7, FlaggedJoined
<1> HIDE DEF head
<1>11. FlagsAfter(s, Names(head))
  BY <1>8, <1>10 DEF FlagsAfter
<1> QED
  BY <1>7, <1>9, <1>10, <1>11, FlaggedJoined

LEMMA ModelFlagged ==
    ASSUME NEW decals, IsSequence(decals)
    PROVE  Flagged(UnitCustomModel(decals))
<1> DEFINE type == Number("ModelType", 1)
           hair == Number("HairColorId", 4)
           ids == Numbers(<<"SkinColorId", "ModelId">>, 4)
           face == FaceModel(decals)
           upTo1 == type \o When("ModelType", 1..255, hair)
           upTo2 == upTo1 \o When("ModelType", 2..255, ids)
<1>1. Plain(type) /\ "ModelType" \in Names(type)
  BY PlainPieces, NamesOfPieces
<1>2. IsForm(hair) /\ IsForm(ids) /\ IsForm(Numbers(decals, 8))
  BY OneField, NameLists, ManyFields
<1>3. IsForm(face)
  <2>1. /\ IsForm(Number("MoveableDecal", 20)) /\ IsForm(Number("MapsAndColours", 36))
        /\ IsForm(Vector("Modifier"))
    BY OneField
  <2> QED
    BY <1>2, <2>1, JoinedFields DEF FaceModel
<1>4. UnitCustomModel(decals) = upTo2 \o When("ModelType", 3..255, face)
  BY Zenon DEF UnitCustomModel
<1> HIDE DEF type, hair, ids, face
<1>5. Flagged(upTo1) /\ "ModelType" \in Names(upTo1)
  BY <1>1, <1>2, PlainIsFlagged, WhenJoined
<1> HIDE DEF upTo1
<1>6. Flagged(upTo2) /\ "ModelType" \in Names(upTo2)
  BY <1>2, <1>5, WhenJoined
<1> HIDE DEF upTo2
<1> QED
  BY <1>3, <1>4, <1>6, WhenJoined

LEMMA OptionsFlagged == Flagged(ReadOptions)
<1> DEFINE flag == Number("Flag", 1)
           stp == Number("Stp", 6)
           helmet == Number("Helmet", 1)
           back == Number("BackHoldable", 1)
           cosplay == Number("Cosplay", 1)
           backpack == Number("CosplayBackpack", 1)
           upTo1 == flag \o When("Flag", HasBit({1}), stp)
           upTo2 == upTo1 \o When("Flag", HasBit({2}), helmet)
           upTo3 == upTo2 \o When("Flag", HasBit({4}), back)
           upTo4 == upTo3 \o When("Flag", HasBit({8}), cosplay)
<1>1. Plain(flag) /\ "Flag" \in Names(flag)
  BY PlainPieces, NamesOfPieces
<1>2. IsForm(stp) /\ IsForm(helmet) /\ IsForm(back) /\ IsForm(cosplay) /\ IsForm(backpack)
  BY OneField
<1>3. ReadOptions = upTo4 \o When("Flag", HasBit({16}), backpack)
  BY Zenon DEF ReadOptions
<1> HIDE DEF flag, stp, helmet, back, cosplay, backpack
<1>4. Flagged(upTo1) /\ "Flag" \in Names(upTo1)
  BY <1>1, <1>2, PlainIsFlagged, WhenJoined
<1> HIDE DEF upTo1
<1>5. Flagged(upTo2) /\ "Flag" \in Names(upTo2)
  BY <1>2, <1>4, WhenJoined
<1> HIDE DEF upTo2
<1>6. Flagged(upTo3) /\ "Flag" \in Names(upTo3)
  BY <1>2, <1>5, WhenJoined
<1> HIDE DEF upTo3
<1>7. Flagged(upTo4) /\ "Flag" \in Names(upTo4)
  BY <1>2, <1>6, WhenJoined
<1> HIDE DEF upTo4
<1> QED
  BY <1>2, <1>3, <1>7, WhenJoined
\* The three handlers whose request shows a character.
Showing == {"CSCreateCharacter", "CSSpawnCharacter", "CSMoveUnit"}
CreationBody ==
    String("name") \o Numbers(<<"race", "gender">>, 1) \o Number("body", 28) \o ReadModel
    \o Numbers(<<"ability1", "ability2", "ability3", "charLevel">>, 1)

LEMMA ShowingFormats ==
    /\ FormatOf("CSCreateCharacter") = CreationBody
    /\ FormatOf("CSSpawnCharacter") = ReadOptions
    /\ FormatOf("CSMoveUnit") = Movement(ReadUnitMovementData)
    /\ \A h \in Showing : Flagged(FormatOf(h))
    /\ \A h \in Showing : FormatOf(h) \in Formats
<1>1. /\ {"CSCreateCharacter", "CSSpawnCharacter", "CSMoveUnit"} \subseteq DOMAIN WorldRequests
      /\ WorldRequests["CSCreateCharacter"] = CreationBody
      /\ WorldRequests["CSSpawnCharacter"] = ReadOptions
      /\ WorldRequests["CSMoveUnit"] = Movement(ReadUnitMovementData)
  BY DEF WorldRequests, CreationBody
<1>2. \A h \in Showing : h \in DOMAIN RequestFormat /\ RequestFormat[h] = WorldRequests[h]
  BY <1>1 DEF RequestFormat, Over, Showing
<1>3. \A h \in Showing : FormatOf(h) = WorldRequests[h] /\ FormatOf(h) \in Formats
  BY <1>2 DEF FormatOf, Formats
<1>4. Flagged(CreationBody)
  <2> DEFINE name == String("name")
             race == Numbers(<<"race", "gender">>, 1)
             body == Number("body", 28)
             skills == Numbers(<<"ability1", "ability2", "ability3", "charLevel">>, 1)
  <2>1. Plain(name) /\ Plain(race) /\ Plain(body) /\ Plain(skills)
    BY NameLists, PlainPieces
  <2>2. IsForm(ReadModel) /\ FlagsAfter(ReadModel, Names((name \o race) \o body))
    <3>1. Flagged(ReadModel)
      BY NameLists, ModelFlagged DEF ReadModel
    <3> QED
      BY <3>1 DEF Flagged, FlagsAfter
  <2>3. CreationBody = (((name \o race) \o body) \o ReadModel) \o skills
    BY DEF CreationBody
  <2> HIDE DEF name, race, body, skills
  <2>4. Flagged((name \o race) \o body)
    BY <2>1, PlainIsFlagged, PlainJoined
  <2>5. Flagged(((name \o race) \o body) \o ReadModel)
    BY <2>2, <2>4, FlaggedJoined
  <2> QED
    BY <2>1, <2>3, <2>5, PlainJoined
<1>5. Flagged(ReadOptions) /\ Flagged(Movement(ReadUnitMovementData))
  BY OptionsFlagged, MovementDataFlagged, MovementFlagged
<1> QED
  BY <1>1, <1>3, <1>4, <1>5 DEF Showing
-----------------------------------------------------------------------------
(* The header of a world packet. *)

HeaderField(name, size) == Field("number", name, size)
HeaderCheck(name) == [HeaderField(name, 1) EXCEPT !.on = "level", !.flags = {1}]

LEMMA HeaderSpelled ==
    WorldHeader = <<HeaderField("unk", 1), HeaderField("level", 1), HeaderCheck("crc"),
                    HeaderCheck("counter"), HeaderField("opCode", 2)>>
<1>1. ASSUME NEW a, NEW b
      PROVE  Numbers(<<a, b>>, 1) = <<HeaderField(a, 1), HeaderField(b, 1)>>
  <2> DEFINE f(n) == Field("number", n, 1)
  <2>1. Numbers(<<a, b>>, 1) = [i \in 1..2 |-> f(<<a, b>>[i])]
    BY DEF Numbers
  <2> HIDE DEF f
  <2>2. [i \in 1..2 |-> f(<<a, b>>[i])] = <<f(a), f(b)>>
    OBVIOUS
  <2> QED
    BY <2>1, <2>2 DEF f, HeaderField
<1>2. ASSUME NEW f, NEW g
      PROVE  When("level", {1}, <<f, g>>)
               = <<[f EXCEPT !.on = "level", !.flags = {1}],
                   [g EXCEPT !.on = "level", !.flags = {1}]>>
  <2> DEFINE w(x) == [x EXCEPT !.on = "level", !.flags = {1}]
  <2>1. When("level", {1}, <<f, g>>) = [i \in 1..2 |-> w(<<f, g>>[i])]
    BY DEF When
  <2> HIDE DEF w
  <2>2. [i \in 1..2 |-> w(<<f, g>>[i])] = <<w(f), w(g)>>
    OBVIOUS
  <2> QED
    BY <2>1, <2>2 DEF w
<1>3. ASSUME NEW a, NEW b, NEW c, NEW d, NEW e
      PROVE  (<<a, b>> \o <<c, d>>) \o <<e>> = <<a, b, c, d, e>>
  <2> DEFINE S == {a, b, c, d, e}
             u == <<a, b>> \o <<c, d>>
             v == u \o <<e>>
             all == <<a, b, c, d, e>>
  <2>1. <<a, b>> \in Seq(S) /\ <<c, d>> \in Seq(S) /\ <<e>> \in Seq(S) /\ all \in Seq(S)
    OBVIOUS
  <2>2. u \in Seq(S) /\ Len(u) = 4 /\ u[1] = a /\ u[2] = b /\ u[3] = c /\ u[4] = d
    BY <2>1, ConcatProperties
  <2> HIDE DEF u
  <2>3. v \in Seq(S) /\ Len(v) = 5 /\ v[1] = a /\ v[2] = b /\ v[3] = c /\ v[4] = d /\ v[5] = e
    <3>1. Len(<<e>>) = 1 /\ <<e>>[1] = e
      OBVIOUS
    <3> DEFINE w == <<e>>
    <3> HIDE DEF w, S
    <3>2. w \in Seq(S) /\ Len(w) = 1 /\ w[1] = e
      BY <2>1, <3>1 DEF w
    <3>3. u \o w \in Seq(S) /\ Len(u \o w) = 5 /\ (u \o w)[1] = a /\ (u \o w)[2] = b
          /\ (u \o w)[3] = c /\ (u \o w)[4] = d /\ (u \o w)[5] = e
      <4>1. u \o w \in Seq(S) /\ Len(u \o w) = Len(u) + Len(w)
        BY <2>2, <3>2, ConcatProperties
      <4>2. \A i \in 1 .. Len(u) + Len(w) :
               (u \o w)[i] = IF i <= Len(u) THEN u[i] ELSE w[i - Len(u)]
        BY <2>2, <3>2, ConcatProperties
      <4> DEFINE uw == u \o w
      <4> HIDE DEF uw
      <4>3. uw \in Seq(S) /\ Len(uw) = 5
            /\ \A i \in 1..5 : uw[i] = IF i <= 4 THEN u[i] ELSE w[i - 4]
        BY <2>2, <3>2, <4>1, <4>2 DEF uw
      <4>4. uw[1] = u[1] /\ uw[2] = u[2] /\ uw[3] = u[3] /\ uw[4] = u[4] /\ uw[5] = w[1]
        BY <4>3
      <4> QED
        BY <2>2, <3>2, <4>3, <4>4 DEF uw
    <3> QED
      BY <3>3 DEF w
  <2> HIDE DEF v, S
  <2>4. Len(all) = 5 /\ \A i \in 1..5 : v[i] = all[i]
    BY <2>3
  <2> HIDE DEF all
  <2>5. v = all
    BY <2>1, <2>3, <2>4, SeqEqual
  <2> QED
    BY <2>5 DEF v, u, all
<1>4. When("level", {1}, Numbers(<<"crc", "counter">>, 1)) = <<HeaderCheck("crc"), HeaderCheck("counter")>>
  BY <1>1, <1>2 DEF HeaderCheck
<1>5. Number("opCode", 2) = <<HeaderField("opCode", 2)>>
  BY DEF Number, HeaderField
<1>6. Numbers(<<"unk", "level">>, 1) = <<HeaderField("unk", 1), HeaderField("level", 1)>>
  BY <1>1, Zenon
<1> DEFINE first == <<HeaderField("unk", 1), HeaderField("level", 1)>>
           checks == <<HeaderCheck("crc"), HeaderCheck("counter")>>
           last == <<HeaderField("opCode", 2)>>
<1>7. WorldHeader = (first \o checks) \o last
  BY <1>4, <1>5, <1>6 DEF WorldHeader
<1> QED
  BY <1>3, <1>7, Zenon
LEMMA HeaderParts ==
    /\ Len(WorldHeader) = 5
    /\ WorldHeader[1].kind = "number" /\ WorldHeader[2].kind = "number"
    /\ WorldHeader[3].kind = "number" /\ WorldHeader[4].kind = "number"
    /\ WorldHeader[5].kind = "number"
    /\ WorldHeader[1].name = "unk" /\ WorldHeader[1].size = 1 /\ WorldHeader[1].on = ""
    /\ WorldHeader[2].name = "level" /\ WorldHeader[2].size = 1 /\ WorldHeader[2].on = ""
    /\ WorldHeader[3].name = "crc" /\ WorldHeader[3].size = 1
    /\ WorldHeader[3].on = "level" /\ WorldHeader[3].flags = {1}
    /\ WorldHeader[4].name = "counter" /\ WorldHeader[4].size = 1
    /\ WorldHeader[4].on = "level" /\ WorldHeader[4].flags = {1}
    /\ WorldHeader[5].name = "opCode" /\ WorldHeader[5].size = 2 /\ WorldHeader[5].on = ""
<1>1. \A name, size : /\ HeaderField(name, size).kind = "number" /\ HeaderField(name, size).name = name
                      /\ HeaderField(name, size).size = size /\ HeaderField(name, size).on = ""
                      /\ DOMAIN HeaderField(name, size) = {"kind", "name", "size", "on", "flags"}
  BY DEF HeaderField, Field
<1>2. ASSUME NEW name
      PROVE  /\ HeaderCheck(name).kind = "number" /\ HeaderCheck(name).name = name
             /\ HeaderCheck(name).size = 1
             /\ HeaderCheck(name).on = "level" /\ HeaderCheck(name).flags = {1}
  <2> DEFINE f == HeaderField(name, 1)
             g == [f EXCEPT !.on = "level"]
  <2>1. /\ f.kind = "number" /\ f.name = name /\ f.size = 1
        /\ DOMAIN f = {"kind", "name", "size", "on", "flags"}
    BY <1>1
  <2> HIDE DEF f
  <2>2. /\ g.kind = "number" /\ g.name = name /\ g.size = 1 /\ g.on = "level"
        /\ DOMAIN g = {"kind", "name", "size", "on", "flags"}
    BY <2>1
  <2>3. HeaderCheck(name) = [g EXCEPT !.flags = {1}]
    BY DEF HeaderCheck, f
  <2> HIDE DEF g
  <2> QED
    BY <2>2, <2>3
<1> DEFINE unk == HeaderField("unk", 1)
           level == HeaderField("level", 1)
           crc == HeaderCheck("crc")
           counter == HeaderCheck("counter")
           opCode == HeaderField("opCode", 2)
<1>3. WorldHeader = <<unk, level, crc, counter, opCode>>
  BY HeaderSpelled
<1> HIDE DEF unk, level, crc, counter, opCode
<1>4. /\ Len(WorldHeader) = 5 /\ WorldHeader[1] = unk /\ WorldHeader[2] = level
      /\ WorldHeader[3] = crc /\ WorldHeader[4] = counter /\ WorldHeader[5] = opCode
  BY <1>3
<1>5. /\ unk.kind = "number" /\ unk.name = "unk" /\ unk.size = 1 /\ unk.on = ""
      /\ level.kind = "number" /\ level.name = "level" /\ level.size = 1 /\ level.on = ""
      /\ opCode.kind = "number" /\ opCode.name = "opCode" /\ opCode.size = 2 /\ opCode.on = ""
  BY <1>1 DEF unk, level, opCode
<1>6. /\ crc.kind = "number" /\ crc.name = "crc" /\ crc.size = 1
      /\ crc.on = "level" /\ crc.flags = {1}
      /\ counter.kind = "number" /\ counter.name = "counter" /\ counter.size = 1
      /\ counter.on = "level" /\ counter.flags = {1}
  BY <1>2 DEF crc, counter
<1>7. /\ WorldHeader[1].kind = "number" /\ WorldHeader[1].name = "unk"
      /\ WorldHeader[1].size = 1 /\ WorldHeader[1].on = ""
  BY <1>4, <1>5, Zenon
<1>8. /\ WorldHeader[2].kind = "number" /\ WorldHeader[2].name = "level"
      /\ WorldHeader[2].size = 1 /\ WorldHeader[2].on = ""
  BY <1>4, <1>5, Zenon
<1>9. /\ WorldHeader[3].kind = "number" /\ WorldHeader[3].name = "crc"
      /\ WorldHeader[3].size = 1 /\ WorldHeader[3].on = "level" /\ WorldHeader[3].flags = {1}
  BY <1>4, <1>6, Zenon
<1>10. /\ WorldHeader[4].kind = "number" /\ WorldHeader[4].name = "counter"
       /\ WorldHeader[4].size = 1 /\ WorldHeader[4].on = "level" /\ WorldHeader[4].flags = {1}
  BY <1>4, <1>6, Zenon
<1>11. /\ WorldHeader[5].kind = "number" /\ WorldHeader[5].name = "opCode"
       /\ WorldHeader[5].size = 2 /\ WorldHeader[5].on = ""
  BY <1>4, <1>5, Zenon
<1> QED
  BY <1>4, <1>7, <1>8, <1>9, <1>10, <1>11

\* What the server reads of the header: a check that is not there stays as it was.
HeaderRead(r) ==
    LET check(name) == IF r.level = 1 THEN <<0>> ELSE Defaults[name]
    IN [unk |-> <<0>>, level |-> <<r.level>>, crc |-> check("crc"), counter |-> check("counter"),
        opCode |-> Bytes16(r.opCode)]

LEMMA HeaderLed ==
    ASSUME NEW r \in Requests
    PROVE  /\ \A n \in Names(WorldHeader) : HeaderRead(r)[n] \in Bytes
           /\ Encoding(WorldHeader, HeaderFields(r)) = Encoding(WorldHeader, HeaderRead(r))
           /\ TakenBy(WorldHeader, HeaderRead(r), Defaults)
           /\ FlagsAhead(WorldHeader)
<1> DEFINE h == WorldHeader
           F == HeaderFields(r)
           G == HeaderRead(r)
<1>1. /\ F.unk = <<0>> /\ F.level = <<r.level>> /\ F.crc = <<0>> /\ F.counter = <<0>>
      /\ F.opCode = Bytes16(r.opCode)
      /\ G.unk = <<0>> /\ G.level = <<r.level>> /\ G.opCode = Bytes16(r.opCode)
      /\ r.level = 1 => G.crc = <<0>> /\ G.counter = <<0>>
      /\ r.level # 1 => G.crc = Defaults["crc"] /\ G.counter = Defaults["counter"]
  BY DEF HeaderFields, HeaderRead
<1>2. /\ <<0>> \in Bytes /\ <<r.level>> \in Bytes /\ Bytes16(r.opCode) \in Bytes
      /\ Len(Bytes16(r.opCode)) = 2
  BY PacketsOfBytes, TwoBytes DEF Bytes, Byte
<1>3. Defaults["crc"] \in Bytes /\ Defaults["counter"] \in Bytes
  <2>1. WorldHeader \in Formats
    BY DEF Formats
  <2>2. Names(WorldHeader) \subseteq DOMAIN Defaults
    BY <2>1, DefaultsAreBytes
  <2> QED
    BY <2>2, HeaderNames, DefaultsAreBytes
<1> HIDE DEF F, G
<1>4. \A n \in Names(WorldHeader) : G[n] \in Bytes
  BY <1>1, <1>2, <1>3, HeaderNames
<1>5. r.level = F["level"][1] /\ r.level = G["level"][1]
  BY <1>1
<1> DEFINE Carries(f) ==
              /\ FieldBytes(f, F) = FieldBytes(f, G)
              /\ IF Present(f, G) THEN Takes(f, G[f.name]) ELSE G[f.name] = Defaults[f.name]
           Always(f, name, size) == /\ f.kind = "number" /\ f.name = name /\ f.size = size
                                    /\ f.on = ""
           Checked(f, name) == /\ f.kind = "number" /\ f.name = name /\ f.size = 1
                               /\ f.on = "level" /\ f.flags = {1}
<1>6. ASSUME NEW f, NEW v, f.kind = "number", F[f.name] = v, G[f.name] = v, v \in Bytes,
             Len(v) = f.size, Present(f, F), Present(f, G)
      PROVE  Carries(f)
  BY <1>6 DEF FieldBytes, Takes
<1>7. ASSUME NEW f, NEW name, NEW size, Always(f, name, size),
             F[name] = G[name], G[name] \in Bytes, Len(G[name]) = size
      PROVE  Carries(f)
  <2>1. Present(f, F) /\ Present(f, G)
    BY <1>7 DEF Present
  <2> QED
    BY <1>6, <1>7, <2>1
<1>8. ASSUME NEW f, NEW name, Checked(f, name), name \in {"crc", "counter"}
      PROVE  Carries(f)
  <2>1. (Present(f, F) <=> r.level = 1) /\ (Present(f, G) <=> r.level = 1)
    BY <1>5, <1>8 DEF Present
  <2>2. CASE r.level = 1
    <3>1. Present(f, F) /\ Present(f, G) /\ F[name] = <<0>> /\ G[name] = <<0>>
      BY <1>1, <1>8, <2>1, <2>2
    <3>2. Len(<<0>>) = 1
      OBVIOUS
    <3> QED
      BY <1>2, <1>6, <1>8, <3>1, <3>2
  <2>3. CASE r.level # 1
    <3>1. ~Present(f, F) /\ ~Present(f, G) /\ G[name] = Defaults[name]
      BY <1>1, <1>8, <2>1, <2>3
    <3> QED
      BY <1>8, <3>1 DEF FieldBytes
  <2> QED
    BY <2>2, <2>3
<1>9. /\ Always(h[1], "unk", 1) /\ Always(h[2], "level", 1) /\ Always(h[5], "opCode", 2)
      /\ Checked(h[3], "crc") /\ Checked(h[4], "counter") /\ Len(h) = 5
  BY HeaderParts
<1> HIDE DEF h, Carries
<1>10. \A n \in 1..5 : Carries(h[n])
  <2>1. Len(<<0>>) = 1 /\ Len(<<r.level>>) = 1
    OBVIOUS
  <2>2. Carries(h[1]) /\ Carries(h[2]) /\ Carries(h[5])
    <3> HIDE DEF Always
    <3>1. Carries(h[1])
      BY <1>1, <1>2, <1>7, <1>9, <2>1
    <3>2. Carries(h[2])
      BY <1>1, <1>2, <1>7, <1>9, <2>1
    <3>3. Carries(h[5])
      BY <1>1, <1>2, <1>7, <1>9
    <3> QED
      BY <3>1, <3>2, <3>3
  <2>3. Carries(h[3]) /\ Carries(h[4])
    <3> HIDE DEF Checked
    <3> QED
      BY <1>8, <1>9
  <2> SUFFICES ASSUME NEW n \in 1..5 PROVE Carries(h[n])
    OBVIOUS
  <2>4. n = 1 \/ n = 2 \/ n = 3 \/ n = 4 \/ n = 5
    OBVIOUS
  <2> QED
    BY <2>2, <2>3, <2>4, Zenon
<1>11. Encoding(h, F) = Encoding(h, G)
  <2>1. Len(h) \in Nat /\ \A n \in 1..Len(h) : FieldBytes(h[n], F) = FieldBytes(h[n], G)
    <3>1. \A n \in 1..5 : FieldBytes(h[n], F) = FieldBytes(h[n], G)
      BY <1>10, Zenon DEF Carries
    <3> DEFINE k == Len(h)
    <3>2. k = 5
      BY HeaderParts DEF h
    <3> HIDE DEF k
    <3> DEFINE Same(n) == FieldBytes(h[n], F) = FieldBytes(h[n], G)
    <3>3. \A n \in 1..5 : Same(n)
      BY <3>1
    <3> HIDE DEF Same
    <3>4. k \in Nat /\ \A n \in 1..k : Same(n)
      BY <3>2, <3>3
    <3> QED
      BY <3>4 DEF Same, k
  <2> QED
    BY <2>1, SameEncoding
<1>12. TakenBy(h, G, Defaults)
  <2>1. \A n \in 1..5 : IF Present(h[n], G) THEN Takes(h[n], G[h[n].name])
                        ELSE G[h[n].name] = Defaults[h[n].name]
    BY <1>10, Zenon DEF Carries
  <2>2. 1..Len(h) = 1..5
    BY <1>9
  <2> QED
    BY <2>1, <2>2, Zenon DEF TakenBy
<1>13. FlagsAhead(h)
  <2> SUFFICES ASSUME NEW n \in 1..5
               PROVE  h[n].on = "" \/ \E m \in 1..(n - 1) : h[m].name = h[n].on
    BY <1>9 DEF FlagsAhead
  <2>1. n = 1 \/ n = 2 \/ n = 3 \/ n = 4 \/ n = 5
    OBVIOUS
  <2>2. CASE n = 1 \/ n = 2 \/ n = 5
    <3>1. h[n].on = ""
      BY <1>9, <2>2
    <3> QED
      BY <3>1
  <2>3. CASE n = 3 \/ n = 4
    <3>1. h[n].on = "level" /\ h[2].name = "level"
      BY <1>9, <2>3
    <3>2. 2 \in 1..(n - 1)
      BY <2>3
    <3> QED
      BY <3>1, <3>2, Zenon
  <2> QED
    BY <2>1, <2>2, <2>3
<1> QED
  BY <1>4, <1>11, <1>12, <1>13 DEF h, F, G
\* The header of a packet that was not cut is read as it was sent, and the cursor stands
\* behind it.
LEMMA HeaderReadsBack ==
    ASSUME NEW r \in Requests, r.server = "world", r.cut = Uncut
    PROVE  LET p == Packet(Frame[r])
               read1 == ReadFormat(WorldHeader, p, Defaults, Zeros(3))
           IN  /\ read1.packet = Skip(p, Len(Lead(r)))
               /\ read1.fields["opCode"] = Bytes16(r.opCode)
               /\ read1.fields["level"] = <<r.level>>
<1> DEFINE lead == Lead(r)
           rest == Encoding(FormatOf(r.name), r.fields)
           p == Packet(Frame[r])
           read1 == ReadFormat(WorldHeader, p, Defaults, Zeros(3))
           G == HeaderRead(r)
<1>1. Frame[r] = lead \o rest /\ Frame[r] \in Bytes /\ lead \in Bytes /\ rest \in Bytes
  <2>1. r.cut >= Len(Whole(r)) /\ Frame[r] \in Bytes
    <3>1. Len(Whole(r)) < r.cut /\ Whole(r) \in Bytes
      BY PacketsOfBytes, WholeIsBytes
    <3> DEFINE w == Whole(r)
    <3>2. Len(w) \in Nat /\ Len(w) < r.cut /\ r.cut \in Nat
      BY <3>1, PacketsOfBytes, LenProperties DEF Bytes
    <3> HIDE DEF w
    <3>3. r.cut >= Len(w)
      BY <3>2
    <3> QED
      BY <3>3, FramesAreBytes DEF w
  <2> QED
    BY <2>1, FramesAreBytes, WholeIsBytes DEF Whole
<1>2. lead = Encoding(WorldHeader, G)
  BY HeaderLed DEF Lead
<1>3. p \in PacketSet /\ p.body = Frame[r] /\ p.rpos = 0
  BY <1>1 DEF Packet, PacketSet
<1> HIDE DEF lead, rest, p, G
<1>4. Before(p, lead, rest)
  <2>1. <<>> \in Bytes /\ Len(<<>>) = 0 /\ <<>> \o lead = lead
    BY <1>1, EmptySeq, NothingAppended DEF Bytes
  <2>2. p.body = (<<>> \o lead) \o rest /\ p.rpos = Len(<<>>)
    BY <1>1, <1>3, <2>1
  <2> QED
    BY <2>1, <2>2 DEF Before
<1>5. /\ \A n \in Names(WorldHeader) : G[n] \in Bytes
      /\ TakenBy(WorldHeader, G, Defaults) /\ FlagsAhead(WorldHeader)
  BY HeaderLed DEF G
<1>6. Names(WorldHeader) \subseteq DOMAIN Defaults /\ Defaults \in [DOMAIN Defaults -> Bytes]
  BY DefaultsAreBytes DEF Formats
<1>7. /\ read1.packet = Skip(p, Len(lead))
      /\ \A n \in Names(WorldHeader) : read1.fields[n] = G[n]
  BY <1>1, <1>2, <1>3, <1>4, <1>5, <1>6, HeaderForm, FormatReadsBack
<1> HIDE DEF read1
<1>8. read1.fields["opCode"] = G["opCode"] /\ read1.fields["level"] = G["level"]
  BY <1>7, HeaderNames
<1>9. G["opCode"] = Bytes16(r.opCode) /\ G["level"] = <<r.level>>
  BY DEF G, HeaderRead
<1> QED
  BY <1>7, <1>8, <1>9 DEF read1, p, lead

\* What the client means by an opcode is what the server finds, unless its key mistakes
\* the opcode.
Mistaken(level, opCode) ==
    \/ level = 1 /\ opCode >= 32768
    \/ level = 2 /\ (opCode = 0 \/ opCode > 32768)

LEMMA FoundAsMeant ==
    ASSUME NEW level \in Nat, NEW opCode \in Nat, opCode < 65536, ~Mistaken(level, opCode),
           NEW name \in Meant(level, opCode)
    PROVE  GetHandle(opCode, level) = name
<1> DEFINE early == {<<CS_OpCode[h], h>> : h \in DOMAIN CS_OpCode}
           late == {<<CS_LateOpCode[h], h>> : h \in DOMAIN CS_LateOpCode}
           proxies == {<<-ProxyOpCode[h], h>> : h \in DOMAIN ProxyOpCode}
           key == IF level = 1 THEN Key(opCode) ELSE Key(-opCode)
           found == {e \in BuildOpCodeMap : e[1] = key}
           named == {h \in DOMAIN CS_OpCode : level = 1 /\ CS_OpCode[h] = opCode}
                    \cup {h \in DOMAIN CS_LateOpCode : level = 1 /\ CS_LateOpCode[h] = opCode}
                    \cup {h \in DOMAIN ProxyOpCode : level = 2 /\ ProxyOpCode[h] = opCode}
<1>1. BuildOpCodeMap = (early \cup late) \cup proxies
  BY DEF BuildOpCodeMap
<1>2. /\ \A h \in DOMAIN CS_OpCode : CS_OpCode[h] \in 0..42
      /\ \A h \in DOMAIN CS_LateOpCode : CS_LateOpCode[h] \in 137..316
      /\ \A h \in DOMAIN ProxyOpCode : ProxyOpCode[h] \in 1..18
  BY DEF CS_OpCode, CS_LateOpCode, ProxyOpCode
<1>3. /\ \A g, h \in DOMAIN CS_OpCode : CS_OpCode[g] = CS_OpCode[h] => g = h
      /\ \A g, h \in DOMAIN CS_LateOpCode : CS_LateOpCode[g] = CS_LateOpCode[h] => g = h
      /\ \A g, h \in DOMAIN ProxyOpCode : ProxyOpCode[g] = ProxyOpCode[h] => g = h
  BY DEF CS_OpCode, CS_LateOpCode, ProxyOpCode
<1>4. Meant(level, opCode) = IF named = {} THEN {"none"} ELSE named
  BY DEF Meant
<1>5. GetHandle(opCode, level)
        = IF level \in {1, 2} /\ found # {} THEN (CHOOSE e \in found : TRUE)[2] ELSE "none"
  BY DEF GetHandle
<1>6. CASE level = 1
  <2>1. key = opCode
    BY <1>6 DEF Key, Mistaken
  <2>2. found = {<<opCode, h>> : h \in named}
    <3>1. found \subseteq {<<opCode, h>> : h \in named}
      BY <1>1, <1>2, <1>6, <2>1
    <3>2. {<<opCode, h>> : h \in named} \subseteq found
      BY <1>1, <1>6, <2>1
    <3> QED
      BY <3>1, <3>2
  <2>3. \A g, h \in named : g = h
    BY <1>2, <1>3, <1>6
  <2> HIDE DEF found, named
  <2> DEFINE x == CHOOSE e \in found : TRUE
  <2>4. CASE named = {}
    <3>1. found = {} /\ name = "none"
      BY <1>4, <2>2, <2>4
    <3> QED
      BY <1>5, <3>1
  <2>5. CASE named # {}
    <3>1. name \in named /\ <<opCode, name>> \in found
      BY <1>4, <2>2, <2>5
    <3>2. x \in found
      BY <3>1
    <3> HIDE DEF x
    <3>3. PICK h \in named : x = <<opCode, h>>
      BY <2>2, <3>2
    <3>4. x[2] = name
      BY <2>3, <3>1, <3>3
    <3>5. level \in {1, 2} /\ found # {}
      BY <1>6, <3>1
    <3> QED
      BY <1>5, <3>4, <3>5 DEF x
  <2> QED
    BY <2>4, <2>5
<1>7. CASE level = 2
  <2>1. key = -opCode
    BY <1>7 DEF Key, Mistaken
  <2>2. found = {<<-opCode, h>> : h \in named}
    <3>1. found \subseteq {<<-opCode, h>> : h \in named}
      BY <1>1, <1>2, <1>7, <2>1 DEF Mistaken
    <3>2. {<<-opCode, h>> : h \in named} \subseteq found
      BY <1>1, <1>7, <2>1
    <3> QED
      BY <3>1, <3>2
  <2>3. \A g, h \in named : g = h
    BY <1>2, <1>3, <1>7
  <2> HIDE DEF found, named
  <2> DEFINE x == CHOOSE e \in found : TRUE
  <2>4. CASE named = {}
    <3>1. found = {} /\ name = "none"
      BY <1>4, <2>2, <2>4
    <3> QED
      BY <1>5, <3>1
  <2>5. CASE named # {}
    <3>1. name \in named /\ <<-opCode, name>> \in found
      BY <1>4, <2>2, <2>5
    <3>2. x \in found
      BY <3>1
    <3> HIDE DEF x
    <3>3. PICK h \in named : x = <<-opCode, h>>
      BY <2>2, <3>2
    <3>4. x[2] = name
      BY <2>3, <3>1, <3>3
    <3>5. level \in {1, 2} /\ found # {}
      BY <1>7, <3>1
    <3> QED
      BY <1>5, <3>4, <3>5 DEF x
  <2> QED
    BY <2>4, <2>5
<1>8. CASE level \notin {1, 2}
  <2>1. named = {}
    BY <1>8
  <2> HIDE DEF named
  <2> QED
    BY <1>4, <1>5, <1>8, <2>1
<1> QED
  BY <1>6, <1>7, <1>8
-----------------------------------------------------------------------------
(* The way of a packet to its handler. *)

\* A packet arrives as it was sent; its handler is found by what the client put into the
\* header, and finds the cursor behind it.  Only the world server shows characters.
Routed ==
    /\ phase = "received" => packet = Packet(Frame[request])
    /\ phase \in {"dispatched", "answered"} =>
          /\ handler \in Showing => request.server = "world"
          /\ request.server = "world" /\ request.cut = Uncut =>
                handler = GetHandle(request.opCode, request.level)
    /\ phase = "dispatched" /\ request.server = "world" /\ request.cut = Uncut =>
          packet = Skip(Packet(Frame[request]), Len(Lead(request)))

LEMMA ProcessingRoutes ==
    ASSUME Kept, Routed, ProcessPacket
    PROVE  Routed'
<1> DEFINE p == resetReaderWriter(packet)
           world == ReadFormat(WorldHeader, p, Defaults, Zeros(3))
           stream == read(p, 2)
           opCode == world.fields["opCode"]
           level == world.fields["level"]
<1>1. /\ phase = "received" /\ phase' = "dispatched" /\ request' = request /\ request \in Requests
      /\ request.server \in {"world", "stream", "login"}
      /\ packet = Packet(Frame[request])
  BY PacketsOfBytes DEF ProcessPacket, Kept, Routed
<1>2. /\ request.server = "world" =>
            packet' = world.packet /\ handler' = GetHandle(Number16(opCode), level[1])
      /\ request.server = "stream" => handler' = StreamHandler(Number16(stream.value))
      /\ request.server = "login" => handler' = OnMessage(Number16(p.body))
  BY <1>1, Zenon DEF ProcessPacket
<1>3. p = Packet(Frame[request])
  <2>1. ASSUME NEW b PROVE resetReaderWriter(Packet(b)) = Packet(b)
    <3> DEFINE q == [body |-> b, rpos |-> 0, wpos |-> 2]
    <3>1. [q EXCEPT !.rpos = 0] = q /\ [q EXCEPT !.wpos = 2] = q
      OBVIOUS
    <3>2. [[q EXCEPT !.rpos = 0] EXCEPT !.wpos = 2] = q
      BY <3>1
    <3>3. Packet(b) = q
      BY DEF Packet
    <3> HIDE DEF q
    <3> QED
      BY <3>2, <3>3 DEF resetReaderWriter
  <2> QED
    BY <1>1, <2>1
<1>4. \A n : StreamHandler(n) \notin Showing /\ OnMessage(n) \notin Showing
  BY DEF StreamHandler, OnMessage, Showing
<1>5. request.server = "world" /\ request.cut = Uncut =>
        /\ world.packet = Skip(Packet(Frame[request]), Len(Lead(request)))
        /\ opCode = Bytes16(request.opCode) /\ level = <<request.level>>
  BY <1>1, <1>3, HeaderReadsBack
<1>6. Number16(Bytes16(request.opCode)) = request.opCode /\ <<request.level>>[1] = request.level
  BY <1>1, PacketsOfBytes, TwoBytes
<1> HIDE DEF world, stream, p, opCode, level
<1>7. request.server = "world" /\ request.cut = Uncut =>
        /\ packet' = Skip(Packet(Frame[request]), Len(Lead(request)))
        /\ handler' = GetHandle(request.opCode, request.level)
  BY <1>2, <1>5, <1>6
<1>8. handler' \in Showing => request.server = "world"
  BY <1>1, <1>2, <1>4
<1> QED
  BY <1>1, <1>7, <1>8 DEF Routed

LEMMA RoutedAlways ==
    ASSUME Kept, Routed, [Next]_vars
    PROVE  Routed'
<1>1. CASE Receive
  BY <1>1 DEF Receive, Routed
<1>2. CASE ProcessPacket
  BY <1>2, ProcessingRoutes
<1>3. CASE HandleUnknown
  BY <1>3 DEF HandleUnknown, Routed
<1>4. CASE HandleRequest
  <2>1. phase = "dispatched" /\ phase' = "answered" /\ request' = request /\ handler' = handler
    BY <1>4 DEF HandleRequest
  <2> QED
    BY <2>1 DEF Routed
<1>5. CASE CSCreateCharacter
  <2>1. /\ phase = "dispatched" /\ phase' \in {"answered", "ended"}
        /\ request' = request /\ handler' = handler
    BY <1>5 DEF CSCreateCharacter
  <2> QED
    BY <2>1 DEF Routed
<1>6. CASE CSSpawnCharacter
  <2>1. /\ phase = "dispatched" /\ phase' \in {"answered", "ended"}
        /\ request' = request /\ handler' = handler
    BY <1>6 DEF CSSpawnCharacter
  <2> QED
    BY <2>1 DEF Routed
<1>7. CASE CSMoveUnit
  <2>1. phase = "dispatched" /\ phase' = "answered" /\ request' = request /\ handler' = handler
    BY <1>7 DEF CSMoveUnit
  <2> QED
    BY <2>1 DEF Routed
<1>8. CASE Release
  BY <1>8 DEF Release, Routed
<1>9. CASE UNCHANGED vars
  BY <1>9 DEF vars, Routed
<1> QED
  BY <1>1, <1>2, <1>3, <1>4, <1>5, <1>6, <1>7, <1>8, <1>9, Zenon DEF Next

LEMMA RoutedMeansHandled ==
    Kept /\ Routed => ReachesItsHandler
<1> SUFFICES ASSUME Kept, Routed, Handled, request.cut = Uncut, request.server = "world",
                    ~Mistaken(request.level, request.opCode)
             PROVE  handler = request.name
  BY DEF ReachesItsHandler, Mistaken
<1>1. /\ request \in Requests /\ request.level \in Nat /\ request.opCode \in Nat
      /\ request.opCode < 65536 /\ request.name \in Meant(request.level, request.opCode)
  <2>1. request \in Requests
    BY DEF Kept, Handled
  <2>2. /\ request.level \in Byte /\ request.opCode \in Nat /\ request.opCode < 65536
        /\ request.name \in Meant(request.level, request.opCode)
    BY <2>1, PacketsOfBytes
  <2> QED
    BY <2>1, <2>2 DEF Byte
<1>2. handler = GetHandle(request.opCode, request.level)
  BY DEF Routed, Handled
<1> QED
  BY <1>1, <1>2, FoundAsMeant

LEMMA RoutedAtFirst == Init => Routed
BY DEF Init, Routed

\* A whole packet reaches the handler its client means by the level and the opcode; what
\* the 16 signed bits of a key mistake are opcodes above 32767 at level 1, and at level 2
\* zero and opcodes above 32768.
THEOREM AlwaysReachesItsHandler == Spec => []ReachesItsHandler
<1>1. Init => Kept /\ SentWellFormed /\ Routed
  BY KeptAtFirst, RoutedAtFirst
<1>2. Kept /\ SentWellFormed /\ Routed /\ [Next]_vars => Kept' /\ SentWellFormed' /\ Routed'
  BY KeptAlways, RoutedAlways
<1>3. Kept /\ Routed => ReachesItsHandler
  BY RoutedMeansHandled
<1> QED
  BY <1>1, <1>2, <1>3, PTL DEF Spec
-----------------------------------------------------------------------------
(* What a client put into a request is what the handler finds. *)

LEMMA CanonicalKeeps ==
    ASSUME NEW b \in Bytes, Len(b) = 9, NoNegativeZero(b)
    PROVE  Canonical(b) = b
<1> DEFINE unsigned(n, bit) == IF (n \div bit) % 2 = 1 THEN n - bit ELSE n
           noX == SubSeq(b, 1, 3) = Zeros(3)
           noY == SubSeq(b, 4, 6) = Zeros(3)
           x == IF noX THEN unsigned(b[9], 128) ELSE b[9]
           y == IF noY THEN unsigned(x, 64) ELSE x
<1>1. Canonical(b) = [b EXCEPT ![9] = y]
  BY DEF Canonical
<1>2. /\ noX => (b[9] \div 128) % 2 = 0
      /\ noY => (b[9] \div 64) % 2 = 0
  BY DEF NoNegativeZero
<1> HIDE DEF noX, noY
<1>3. x = b[9]
  BY <1>2
<1>4. y = b[9]
  BY <1>2, <1>3
<1>5. b \in Seq(Byte)
  BY DEF Bytes
<1> HIDE DEF y
<1> QED
  BY <1>1, <1>4, <1>5

LEMMA RequestTaken ==
    ASSUME NEW r \in Requests, Readable(r)
    PROVE  /\ TakenBy(FormatOf(r.name), r.fields, Defaults)
           /\ \A n \in Names(FormatOf(r.name)) : r.fields[n] \in Bytes
<1> DEFINE format == FormatOf(r.name)
           F == r.fields
<1>1. IsForm(format) /\ \A n \in 1..Len(format) : format[n] \in Range(format) /\ IsField(format[n])
  BY RequestForms, NamesOfForm
<1>2. /\ \A f \in Range(format) :
            /\ F[f.name] \in Seq(Byte)
            /\ ~Present(f, F) => F[f.name] = Defaults[f.name]
            /\ IF f.kind \in Counted THEN Len(F[f.name]) < 65536 ELSE Len(F[f.name]) = f.size
  BY PacketsOfBytes DEF Counted
<1>3. \A f \in Range(format) : Present(f, F) =>
        /\ f.kind = "string" => \A i \in DOMAIN F[f.name] : F[f.name][i] # 0
        /\ f.kind = "sized" => Len(F[f.name]) <= 255
        /\ f.kind = "position" => NoNegativeZero(F[f.name])
  BY DEF Readable
<1> HIDE DEF format, F
<1>4. ASSUME NEW f \in Range(format), IsField(f), Present(f, F)
      PROVE  Takes(f, F[f.name])
  <2> DEFINE v == F[f.name]
  <2>1. /\ v \in Seq(Byte) /\ DOMAIN v = 1..Len(v)
        /\ IF f.kind \in Counted THEN Len(v) < 65536 ELSE Len(v) = f.size
        /\ f.kind = "string" => \A i \in DOMAIN v : v[i] # 0
        /\ f.kind = "sized" => Len(v) <= 255
        /\ f.kind = "position" => NoNegativeZero(v)
    BY <1>2, <1>3, <1>4, LenProperties
  <2>2. /\ f.kind = "bc" => f.size = 3
        /\ f.kind = "position" => f.size = 9
    BY <1>4 DEF IsField
  <2> HIDE DEF v
  <2>3. f.kind = "position" => Len(v) = 9 /\ Canonical(v) = v
    <3> SUFFICES ASSUME f.kind = "position" PROVE Len(v) = 9 /\ Canonical(v) = v
      OBVIOUS
    <3>1. v \in Bytes /\ Len(v) = 9
      BY <2>1, <2>2 DEF Counted, Bytes
    <3>2. NoNegativeZero(v)
      BY <2>1
    <3> QED
      BY <3>1, <3>2, CanonicalKeeps
  <2>4. Takes(f, v)
    <3>1. v \in Bytes
      BY <2>1 DEF Bytes
    <3>2. /\ f.kind = "number" => Len(v) = f.size
          /\ f.kind = "bc" => Len(v) = 3
      BY <2>1, <2>2 DEF Counted
    <3>3. f.kind \in {"string", "vector"} => Short(v)
      BY <2>1 DEF Counted, Short
    <3>4. f.kind = "string" => \A i \in 1..Len(v) : v[i] # 0
      BY <2>1
    <3> QED
      BY <2>1, <2>3, <3>1, <3>2, <3>3, <3>4 DEF Takes
  <2> QED
    BY <2>4 DEF v
<1>5. TakenBy(format, F, Defaults)
  BY <1>1, <1>2, <1>4 DEF TakenBy
<1>6. \A n \in Names(format) : F[n] \in Bytes
  BY <1>2 DEF Names, Bytes
<1> QED
  BY <1>5, <1>6 DEF format, F

\* A whole frame is what leads the fields and the fields.
LEMMA WholeFrame ==
    ASSUME NEW r \in Requests, r.cut = Uncut
    PROVE  Frame[r] = Lead(r) \o Encoding(FormatOf(r.name), r.fields)
<1> DEFINE w == Whole(r)
<1>1. Len(w) < r.cut /\ w \in Seq(Byte) /\ r.cut \in Nat
  BY PacketsOfBytes, WholeIsBytes DEF Bytes
<1>2. Len(w) \in Nat
  BY <1>1, LenProperties
<1> HIDE DEF w
<1>3. r.cut >= Len(w)
  BY <1>1, <1>2
<1> QED
  BY <1>3, FramesAreBytes DEF w, Whole

\* The same fields stand for the same bytes.
LEMMA SameFields ==
    ASSUME NEW format, IsForm(format), FlagsAhead(format), NEW F, NEW G,
           \A n \in Names(format) : F[n] = G[n]
    PROVE  Encoding(format, F) = Encoding(format, G)
<1>1. Len(format) \in Nat /\ \A n \in 1..Len(format) : format[n].name \in Names(format)
  BY NamesOfForm
<1>2. ASSUME NEW n \in 1..Len(format)
      PROVE  FieldBytes(format[n], F) = FieldBytes(format[n], G)
  <2>1. F[format[n].name] = G[format[n].name]
    BY <1>1
  <2>2. format[n].on = "" \/ F[format[n].on] = G[format[n].on]
    <3>1. \A m \in 1..(n - 1) : m \in 1..Len(format)
      BY <1>1
    <3> QED
      BY <1>1, <3>1 DEF FlagsAhead
  <2> QED
    BY <2>1, <2>2 DEF FieldBytes, Present
<1> QED
  BY <1>1, <1>2, SameEncoding
\* What is behind the size and the header of an answer, and behind the lead of a request.
LEMMA TailOf ==
    ASSUME NEW a \in Bytes, NEW b \in Bytes, NEW e \in Bytes
    PROVE  LET s == a \o (b \o e)
           IN SubSeq(s, Len(a) + Len(b) + 1, Len(s)) = e
<1> DEFINE ab == a \o b
           s == a \o (b \o e)
<1>1. ab \in Seq(Byte) /\ Len(ab) = Len(a) + Len(b) /\ e \in Seq(Byte)
  BY ConcatProperties DEF Bytes
<1>2. s = ab \o e
  <2>1. \A x, y, z \in Seq(Byte) : x \o (y \o z) = (x \o y) \o z
    BY ConcatAssociative
  <2> QED
    BY <2>1 DEF Bytes
<1>3. <<>> \in Seq(Byte) /\ Len(s) = Len(ab) + Len(e)
  BY <1>1, <1>2, ConcatProperties, EmptySeq
<1> HIDE DEF ab, s
<1>4. (ab \o e) \o <<>> = ab \o e
  <2>1. ab \o e \in Seq(Byte)
    BY <1>1, ConcatProperties
  <2> QED
    BY <2>1, NothingAppended
<1>5. SubSeq(ab \o e, Len(ab) + 1, Len(ab) + Len(e)) = e
  <2> DEFINE w == (ab \o e) \o <<>>
             ae == ab \o e
  <2>1. SubSeq(w, Len(ab) + 1, Len(ab) + Len(e)) = e
    BY <1>1, <1>3, MiddleOf, Zenon
  <2>2. w = ae
    BY <1>4
  <2> HIDE DEF w, ae
  <2>3. SubSeq(ae, Len(ab) + 1, Len(ab) + Len(e)) = e
    BY <2>1, <2>2, Zenon
  <2> QED
    BY <2>3 DEF ae
<1>6. SubSeq(s, Len(ab) + 1, Len(s)) = e
  BY <1>2, <1>3, <1>5
<1>7. SubSeq(s, Len(a) + Len(b) + 1, Len(s)) = e
  BY <1>1, <1>6
<1> QED
  BY <1>7 DEF s

\* The header at level 1 is six bytes long.
LEMMA LeadOfLevelOne ==
    ASSUME NEW r \in Requests, r.server = "world", r.level = 1
    PROVE  Len(Lead(r)) = 6
<1> DEFINE h == WorldHeader
           F == HeaderFields(r)
           e == EncodingUpTo(h, F)
<1>1. /\ Len(h) = 5
      /\ h[1].kind = "number" /\ h[1].name = "unk" /\ h[1].on = ""
      /\ h[2].kind = "number" /\ h[2].name = "level" /\ h[2].on = ""
      /\ h[3].kind = "number" /\ h[3].name = "crc" /\ h[3].on = "level" /\ h[3].flags = {1}
      /\ h[4].kind = "number" /\ h[4].name = "counter" /\ h[4].on = "level" /\ h[4].flags = {1}
      /\ h[5].kind = "number" /\ h[5].name = "opCode" /\ h[5].on = ""
  BY HeaderParts
<1>2. /\ F["unk"] = <<0>> /\ F["level"] = <<1>> /\ F["crc"] = <<0>> /\ F["counter"] = <<0>>
      /\ F["opCode"] = Bytes16(r.opCode)
  BY DEF HeaderFields
<1>3. /\ <<0>> \in Seq(Byte) /\ <<1>> \in Seq(Byte) /\ Len(<<0>>) = 1 /\ Len(<<1>>) = 1
      /\ Bytes16(r.opCode) \in Seq(Byte) /\ Len(Bytes16(r.opCode)) = 2
  BY PacketsOfBytes, TwoBytes DEF Bytes, Byte
<1>4. <<1>>[1] = 1
  OBVIOUS
<1> DEFINE b(n) == FieldBytes(h[n], F)
           zero == <<0>>
           one == <<1>>
           op == Bytes16(r.opCode)
<1>5. /\ e[0] = <<>> /\ e[1] = e[0] \o b(1) /\ e[2] = e[1] \o b(2) /\ e[3] = e[2] \o b(3)
      /\ e[4] = e[3] \o b(4) /\ e[5] = e[4] \o b(5)
  <2> DEFINE k == Len(h)
  <2>1. k = 5
    BY <1>1
  <2>2. e[0] = <<>> /\ \A n \in 1..k : e[n] = e[n - 1] \o b(n)
    <3>1. Len(h) \in Nat
      BY <2>1
    <3> QED
      BY <3>1, EncodingUnrolls, Zenon
  <2>3. /\ 1 \in 1..k /\ 2 \in 1..k /\ 3 \in 1..k /\ 4 \in 1..k /\ 5 \in 1..k
        /\ 1 - 1 = 0 /\ 2 - 1 = 1 /\ 3 - 1 = 2 /\ 4 - 1 = 3 /\ 5 - 1 = 4
    BY <2>1
  <2> HIDE DEF e, k, b
  <2>4. e[1] = e[0] \o b(1)
    BY <2>2, <2>3
  <2>5. e[2] = e[1] \o b(2)
    BY <2>2, <2>3
  <2>6. e[3] = e[2] \o b(3)
    BY <2>2, <2>3
  <2>7. e[4] = e[3] \o b(4)
    BY <2>2, <2>3
  <2>8. e[5] = e[4] \o b(5)
    BY <2>2, <2>3
  <2> QED
    BY <2>2, <2>4, <2>5, <2>6, <2>7, <2>8
<1>6. Lead(r) = e[5]
  BY <1>1 DEF Lead, Encoding
<1>7. ASSUME NEW f, NEW v, f.kind = "number", F[f.name] = v,
             f.on = "" \/ (f.on = "level" /\ f.flags = {1})
      PROVE  FieldBytes(f, F) = v
  <2>1. F["level"][1] = 1
    BY <1>2, <1>4
  <2> HIDE DEF F
  <2> QED
    BY <1>7, <2>1 DEF FieldBytes, Present
<1> HIDE DEF h, F, e
<1>8. b(1) = zero /\ b(2) = one /\ b(3) = zero /\ b(4) = zero /\ b(5) = op
  <2>1. b(1) = zero
    BY <1>1, <1>2, <1>7
  <2>2. b(2) = one
    BY <1>1, <1>2, <1>7
  <2>3. b(3) = zero
    BY <1>1, <1>2, <1>7
  <2>4. b(4) = zero
    BY <1>1, <1>2, <1>7
  <2>5. b(5) = op
    BY <1>1, <1>2, <1>7
  <2> QED
    BY <2>1, <2>2, <2>3, <2>4, <2>5
<1>10. /\ zero \in Seq(Byte) /\ one \in Seq(Byte) /\ op \in Seq(Byte)
       /\ Len(zero) = 1 /\ Len(one) = 1 /\ Len(op) = 2
  BY <1>3
<1>11. e[0] \in Seq(Byte) /\ Len(e[0]) = 0
  BY <1>5, EmptySeq
<1> HIDE DEF zero, one, op, b
<1>13. e[1] \in Seq(Byte) /\ Len(e[1]) = 1
  <2>1. e[1] = e[0] \o zero
    BY <1>5, <1>8
  <2> DEFINE s == e[0]
             t == s \o zero
  <2>2. s \in Seq(Byte) /\ Len(s) = 0 /\ zero \in Seq(Byte) /\ Len(zero) = 1
    BY <1>10, <1>11
  <2> HIDE DEF s
  <2>3. t \in Seq(Byte) /\ Len(t) = Len(s) + Len(zero)
    BY <2>2, ConcatProperties
  <2>4. e[1] = t
    BY <2>1 DEF s
  <2> HIDE DEF t
  <2> QED
    BY <2>2, <2>3, <2>4
<1>14. e[2] \in Seq(Byte) /\ Len(e[2]) = 2
  <2>1. e[2] = e[1] \o one
    BY <1>5, <1>8
  <2> DEFINE s == e[1]
             t == s \o one
  <2>2. s \in Seq(Byte) /\ Len(s) = 1 /\ one \in Seq(Byte) /\ Len(one) = 1
    BY <1>10, <1>13
  <2> HIDE DEF s
  <2>3. t \in Seq(Byte) /\ Len(t) = Len(s) + Len(one)
    BY <2>2, ConcatProperties
  <2>4. e[2] = t
    BY <2>1 DEF s
  <2> HIDE DEF t
  <2> QED
    BY <2>2, <2>3, <2>4
<1>15. e[3] \in Seq(Byte) /\ Len(e[3]) = 3
  <2>1. e[3] = e[2] \o zero
    BY <1>5, <1>8
  <2> DEFINE s == e[2]
             t == s \o zero
  <2>2. s \in Seq(Byte) /\ Len(s) = 2 /\ zero \in Seq(Byte) /\ Len(zero) = 1
    BY <1>10, <1>14
  <2> HIDE DEF s
  <2>3. t \in Seq(Byte) /\ Len(t) = Len(s) + Len(zero)
    BY <2>2, ConcatProperties
  <2>4. e[3] = t
    BY <2>1 DEF s
  <2> HIDE DEF t
  <2> QED
    BY <2>2, <2>3, <2>4
<1>16. e[4] \in Seq(Byte) /\ Len(e[4]) = 4
  <2>1. e[4] = e[3] \o zero
    BY <1>5, <1>8
  <2> DEFINE s == e[3]
             t == s \o zero
  <2>2. s \in Seq(Byte) /\ Len(s) = 3 /\ zero \in Seq(Byte) /\ Len(zero) = 1
    BY <1>10, <1>15
  <2> HIDE DEF s
  <2>3. t \in Seq(Byte) /\ Len(t) = Len(s) + Len(zero)
    BY <2>2, ConcatProperties
  <2>4. e[4] = t
    BY <2>1 DEF s
  <2> HIDE DEF t
  <2> QED
    BY <2>2, <2>3, <2>4
<1>17. Len(e[5]) = 6
  <2>1. e[5] = e[4] \o op
    BY <1>5, <1>8
  <2> DEFINE s == e[4]
             t == s \o op
  <2>2. s \in Seq(Byte) /\ Len(s) = 4 /\ op \in Seq(Byte) /\ Len(op) = 2
    BY <1>10, <1>16
  <2> HIDE DEF s
  <2>3. t \in Seq(Byte) /\ Len(t) = Len(s) + Len(op)
    BY <2>2, ConcatProperties
  <2>4. e[5] = t
    BY <2>1 DEF s
  <2> HIDE DEF t
  <2> QED
    BY <2>2, <2>3, <2>4
<1> QED
  BY <1>6, <1>17

\* A request that shows a character is one of level 1.
LEMMA ShowingIsLevelOne ==
    ASSUME NEW r \in Requests, r.server = "world", r.name \in Showing
    PROVE  r.level = 1
<1>1. r.name \in Meant(r.level, r.opCode)
  BY PacketsOfBytes
<1>2. r.name \notin DOMAIN ProxyOpCode /\ r.name # "none"
  BY DEF Showing, ProxyOpCode
<1> QED
  BY <1>1, <1>2 DEF Meant

LEMMA HandlerFindsAsSent ==
    ASSUME Kept, Routed, phase = "dispatched", handler \in Showing, AsSent, NEW garbage
    PROVE  LET format == FormatOf(handler)
           IN  /\ request \in Requests /\ request.level = 1 /\ Len(Lead(request)) = 6
               /\ Frame[request] = Lead(request) \o Encoding(format, request.fields)
               /\ Lead(request) \in Bytes /\ Encoding(format, request.fields) \in Bytes
               /\ \A n \in Names(format) : Reads(garbage).fields[n] = request.fields[n]
               /\ \A n \in DOMAIN Defaults \ Names(format) :
                     Reads(garbage).fields[n] = Defaults[n]
<1> DEFINE format == FormatOf(handler)
           lead == Lead(request)
           rest == Encoding(format, request.fields)
           p == Packet(Frame[request])
<1>1. /\ request \in Requests /\ request.cut = Uncut /\ handler = request.name
      /\ Readable(request) /\ request.server = "world"
  BY DEF Kept, Routed, AsSent
<1>2. request.level = 1 /\ Len(lead) = 6
  BY <1>1, ShowingIsLevelOne, LeadOfLevelOne
<1>3. Frame[request] = lead \o rest /\ lead \in Bytes /\ rest \in Bytes /\ Frame[request] \in Bytes
  BY <1>1, WholeFrame, WholeIsBytes, FramesAreBytes
<1>4. packet = Skip(p, Len(lead))
  BY <1>1 DEF Routed
<1>5. /\ TakenBy(format, request.fields, Defaults)
      /\ \A n \in Names(format) : request.fields[n] \in Bytes
  BY <1>1, RequestTaken
<1>6. IsForm(format) /\ FlagsAhead(format) /\ Names(format) \subseteq DOMAIN Defaults
      /\ Defaults \in [DOMAIN Defaults -> Bytes]
  BY RequestForms, ShowingFormats, FlaggedAhead, DefaultsAreBytes
<1>7. p \in PacketSet /\ p.body = Frame[request] /\ p.rpos = 0
  BY <1>3 DEF Packet, PacketSet
<1>8. Reads(garbage) = ReadFormat(format, packet, Defaults, garbage)
  BY DEF Reads
<1> HIDE DEF format, lead, rest, p
<1>9. /\ Before(packet, rest, <<>>)
  <2>1. packet.body = p.body /\ packet.rpos = p.rpos + Len(lead)
    BY <1>3, <1>4, <1>7, LenProperties, SkipMoves DEF Bytes
  <2>2. packet.body = (lead \o rest) \o <<>>
    BY <1>3, <1>7, <2>1, NothingAppended DEF Bytes
  <2>3. packet.rpos = Len(lead)
    BY <1>2, <1>7, <2>1
  <2> QED
    BY <1>3, <2>2, <2>3 DEF Before
<1>10. packet \in PacketSet /\ <<>> \in Bytes /\ rest = Encoding(format, request.fields)
  BY EmptySeq DEF Kept, Bytes, rest
<1>11. /\ \A n \in Names(format) : Reads(garbage).fields[n] = request.fields[n]
       /\ \A n \in DOMAIN Defaults \ Names(format) : Reads(garbage).fields[n] = Defaults[n]
  BY <1>5, <1>6, <1>8, <1>9, <1>10, FormatReadsBack
<1> QED
  BY <1>1, <1>2, <1>3, <1>11 DEF format, lead, rest
-----------------------------------------------------------------------------
(* Movements. *)

\* The headers of the packets that show a character are six bytes long.
LEMMA ShownBehindHeader ==
    ASSUME NEW n \in Nat, NEW body, NEW e \in Bytes,
           body = Bytes16(Len(ServerHeader(1, n) \o e)) \o (ServerHeader(1, n) \o e)
    PROVE  SubSeq(body, 9, Len(body)) = e
<1> DEFINE h == ServerHeader(1, n)
           should == h \o e
           a == Bytes16(Len(should))
           low == Bytes16(n)
           front == <<221, 1, 0, 0>>
<1>1. h \in Bytes /\ Len(h) = 6
  <2>1. low \in Seq(Byte) /\ Len(low) = 2 /\ front \in Seq(Byte) /\ Len(front) = 4
    BY TwoBytes DEF Bytes, Byte
  <2>2. h = front \o low
    BY DEF ServerHeader
  <2> HIDE DEF low, front, h
  <2>3. front \o low \in Seq(Byte) /\ Len(front \o low) = Len(front) + Len(low)
    BY <2>1, ConcatProperties
  <2> QED
    BY <2>1, <2>2, <2>3 DEF Bytes
<1> HIDE DEF h
<1>2. should \in Bytes /\ Len(should) \in Nat
  BY <1>1, ConcatProperties, LenProperties DEF Bytes
<1>3. body = a \o (h \o e)
  BY DEF h
<1> HIDE DEF should
<1>4. a \in Bytes /\ Len(a) = 2
  BY <1>2, TwoBytes
<1> HIDE DEF a
<1>5. SubSeq(body, Len(a) + Len(h) + 1, Len(body)) = e
  <2> DEFINE s == a \o (h \o e)
  <2>1. SubSeq(s, Len(a) + Len(h) + 1, Len(s)) = e
    BY <1>1, <1>4, TailOf
  <2>2. body = s
    BY <1>3
  <2> HIDE DEF s
  <2> QED
    BY <2>1, <2>2
<1> QED
  BY <1>1, <1>4, <1>5

LEMMA MovementRelayed ==
    ASSUME Kept, Routed, CSMoveUnit
    PROVE  RelayedAsSent'
<1>1. PICK garbage \in Garbage :
        LET r == Reads(garbage)
            p == Written(OneUnitMovement, Packet(<<>>), r.fields)
        IN  out' = <<Sent(OneUnitMovement, p, r.fields),
                     Sent(OneUnitMovement, Send(p), r.fields)>>
  BY Zenon DEF CSMoveUnit
<1> DEFINE F == Reads(garbage).fields
           p == Written(OneUnitMovement, Packet(<<>>), F)
           e == Encoding(OneUnitMovement.format, F)
           frame == Frame[request]
<1>2. phase = "dispatched" /\ handler = "CSMoveUnit" /\ request' = request /\ handler' = handler
  BY DEF CSMoveUnit
<1> SUFFICES ASSUME AsSent,
                    NEW i \in DOMAIN out'
             PROVE  SubSeq(out'[i].body, 9, Len(out'[i].body)) = SubSeq(frame, 7, Len(frame))
  BY <1>2 DEF RelayedAsSent, AsSent
<1>3. handler \in Showing
  BY <1>2 DEF Showing
<1>4. OneUnitMovement.format = FormatOf(handler) /\ OneUnitMovement.header = ServerHeader(1, 108)
  <2>1. WriteUnitMovementData = ReadUnitMovementData
    BY DEF WriteUnitMovementData, ReadUnitMovementData
  <2>2. OneUnitMovement.format = Movement(ReadUnitMovementData)
        /\ OneUnitMovement.header = ServerHeader(1, 108)
    BY <2>1 DEF OneUnitMovement, Reply
  <2> QED
    BY <1>2, <2>2, ShowingFormats
<1>5. /\ Len(Lead(request)) = 6 /\ Lead(request) \in Bytes
      /\ frame = Lead(request) \o Encoding(FormatOf(handler), request.fields)
      /\ Encoding(FormatOf(handler), request.fields) \in Bytes
      /\ \A n \in Names(FormatOf(handler)) : F[n] = request.fields[n]
  BY <1>2, <1>3, HandlerFindsAsSent
<1> HIDE DEF F
<1>6. e = Encoding(FormatOf(handler), request.fields) /\ e \in Bytes
  <2>1. IsForm(FormatOf(handler)) /\ FlagsAhead(FormatOf(handler))
    BY <1>3, RequestForms, ShowingFormats, FlaggedAhead
  <2> QED
    BY <1>4, <1>5, <2>1, SameFields
<1>7. SubSeq(frame, 7, Len(frame)) = e
  <2> DEFINE lead == Lead(request)
  <2>1. lead \in Bytes /\ Len(lead) = 6 /\ frame = lead \o e
    BY <1>5, <1>6
  <2> HIDE DEF lead, e, frame
  <2>2. <<>> \in Bytes /\ Len(<<>>) = 0 /\ <<>> \o e = e
    BY <1>6, EmptySeq, NothingAppended DEF Bytes
  <2>3. SubSeq(lead \o (<<>> \o e), Len(lead) + Len(<<>>) + 1, Len(lead \o (<<>> \o e))) = e
    BY <1>6, <2>1, <2>2, TailOf
  <2>4. lead \o (<<>> \o e) = frame
    BY <2>1, <2>2
  <2>5. SubSeq(frame, Len(lead) + Len(<<>>) + 1, Len(frame)) = e
    BY <2>3, <2>4
  <2> QED
    BY <2>1, <2>2, <2>5
<1>8. out'[i].body = Bytes16(Len(ServerHeader(1, 108) \o e)) \o (ServerHeader(1, 108) \o e)
  <2> DEFINE once == Sent(OneUnitMovement, p, F)
             again == Sent(OneUnitMovement, Send(p), F)
  <2>1. out' = <<once, again>>
    BY <1>1 DEF F
  <2>2. \A q : Sent(OneUnitMovement, q, F).should = ServerHeader(1, 108) \o e
    BY <1>4 DEF Sent
  <2>3. once.should = ServerHeader(1, 108) \o e /\ again.should = ServerHeader(1, 108) \o e
    BY <2>2
  <2> HIDE DEF once, again, e
  <2>4. out'[i] = once \/ out'[i] = again
    BY <2>1
  <2>5. out'[i].body = Bytes16(Len(out'[i].should)) \o out'[i].should
    BY MovementKept DEF SentWellFormed
  <2> QED
    BY <2>3, <2>4, <2>5
<1>9. 108 \in Nat
  OBVIOUS
<1> HIDE DEF e, frame
<1>10. SubSeq(out'[i].body, 9, Len(out'[i].body)) = e
  <2> DEFINE body == out'[i].body
  <2>1. body = Bytes16(Len(ServerHeader(1, 108) \o e)) \o (ServerHeader(1, 108) \o e)
    BY <1>8
  <2> HIDE DEF body
  <2>2. SubSeq(body, 9, Len(body)) = e
    BY <1>6, <1>9, <2>1, ShownBehindHeader
  <2> QED
    BY <2>2 DEF body
<1> QED
  BY <1>7, <1>10

LEMMA RelayedAlways ==
    ASSUME Kept, Routed, RelayedAsSent, [Next]_vars
    PROVE  RelayedAsSent'
<1>1. CASE CSMoveUnit
  BY <1>1, MovementRelayed
<1>2. CASE Receive \/ ProcessPacket \/ Release
  BY <1>2 DEF Receive, ProcessPacket, Release, RelayedAsSent, Handled
<1>3. CASE HandleUnknown \/ HandleRequest \/ CSCreateCharacter \/ CSSpawnCharacter
  <2>1. handler # "CSMoveUnit" /\ handler' = handler
    BY <1>3 DEF HandleUnknown, HandleRequest, CSCreateCharacter, CSSpawnCharacter
  <2> QED
    BY <2>1 DEF RelayedAsSent
<1>4. CASE UNCHANGED vars
  BY <1>4 DEF vars, RelayedAsSent, Handled, AsSent
<1> QED
  BY <1>1, <1>2, <1>3, <1>4, Zenon DEF Next

\* A movement that arrives whole, and that has no negative zero in it, goes to the other
\* players with the very bytes that the mover sent behind the header.
THEOREM MovementsRelayedAsSent == Spec => []RelayedAsSent
<1>1. Init => Kept /\ SentWellFormed /\ Routed /\ RelayedAsSent
  <2>1. Init => RelayedAsSent
    BY DEF Init, RelayedAsSent, Handled
  <2> QED
    BY <2>1, KeptAtFirst, RoutedAtFirst
<1>2. Kept /\ SentWellFormed /\ Routed /\ RelayedAsSent /\ [Next]_vars
        => Kept' /\ SentWellFormed' /\ Routed' /\ RelayedAsSent'
  BY KeptAlways, RoutedAlways, RelayedAlways
<1> QED
  BY <1>1, <1>2, PTL DEF Spec
-----------------------------------------------------------------------------
(* Looks. *)

\* What no field of a format names stays as it was.
LEMMA UnreadStays ==
    ASSUME NEW format, IsForm(format), NEW p, NEW names,
           NEW defaults \in [names -> Bytes], NEW garbage, NEW x \in names \ Names(format)
    PROVE  ReadFormat(format, p, defaults, garbage).fields[x] = defaults[x]
<1> DEFINE w == ReadUpTo(format, p, defaults, garbage)
           P(n) == DOMAIN w[n].fields = names /\ w[n].fields[x] = defaults[x]
           S == {n \in Nat : n <= Len(format) => P(n)}
<1>0. Len(format) \in Nat /\ \A n \in 1..Len(format) : format[n].name \in Names(format)
  BY NamesOfForm
<1>1. /\ w[0] = [packet |-> p, fields |-> defaults]
      /\ \A n \in 1..Len(format) : w[n] = ReadNext(format[n], w[n - 1], garbage)
  BY <1>0, ReadingUnrolls
<1> HIDE DEF w
<1>2. 0 \in S
  <2>1. P(0)
    BY <1>1
  <2> HIDE DEF P
  <2> QED
    BY <2>1
<1> HIDE DEF P
<1>3. ASSUME NEW n \in Nat, n \in S
      PROVE  n + 1 \in S
  <2> SUFFICES ASSUME n + 1 <= Len(format) PROVE P(n + 1)
    OBVIOUS
  <2> DEFINE f == format[n + 1]
             before == w[n]
             g == before.fields
             v == ReadField(f, before.packet, garbage).value
  <2>1. P(n) /\ n + 1 \in 1..Len(format) /\ (n + 1) - 1 = n
    BY <1>0, <1>3
  <2>2. f.name # x
    BY <1>0, <2>1
  <2>3. w[n + 1] = ReadNext(f, before, garbage)
    BY <1>1, <2>1
  <2>4. DOMAIN g = names /\ g[x] = defaults[x]
    BY <2>1 DEF P
  <2>5. w[n + 1] = before \/ w[n + 1].fields = [g EXCEPT ![f.name] = v]
    BY <2>3 DEF ReadNext
  <2> HIDE DEF f, before, v
  <2>6. CASE w[n + 1] = before
    BY <2>4, <2>6 DEF P
  <2>7. CASE w[n + 1].fields = [g EXCEPT ![f.name] = v]
    <3> HIDE DEF g
    <3>1. DOMAIN [g EXCEPT ![f.name] = v] = names /\ [g EXCEPT ![f.name] = v][x] = defaults[x]
      BY <2>2, <2>4
    <3> QED
      BY <2>7, <3>1 DEF P
  <2> QED
    BY <2>5, <2>6, <2>7
<1>4. P(Len(format))
  <2>1. Nat \subseteq S
    BY <1>2, <1>3, SetInduction
  <2> QED
    BY <1>0, <2>1
<1> QED
  BY <1>4 DEF P, w, ReadFormat

LEMMA OverAt ==
    ASSUME NEW f, NEW g
    PROVE  /\ DOMAIN Over(f, g) = DOMAIN f \cup DOMAIN g
           /\ \A k \in DOMAIN f : Over(f, g)[k] = f[k]
           /\ \A k \in DOMAIN g \ DOMAIN f : Over(f, g)[k] = g[k]
BY DEF Over

LEMMA OnlyAt ==
    ASSUME NEW fields, NEW format
    PROVE  /\ DOMAIN Only(fields, format) = Names(format)
           /\ \A n \in Names(format) : Only(fields, format)[n] = fields[n]
BY DEF Only, Names

LEMMA NameListRanges ==
    /\ Range(<<"copy", "copy", "copy", "copy">>) = {"copy"}
    /\ Range(Decals) = {"decal1", "decal2", "decal3", "decal4"}
    /\ Range(Options) = {"Helmet", "BackHoldable", "Cosplay", "CosplayBackpack"}
    /\ Range(<<"SkinColorId", "ModelId">>) = {"SkinColorId", "ModelId"}
    /\ Range(<<"race", "gender">>) = {"race", "gender"}
    /\ Range(<<"ability1", "ability2", "ability3", "charLevel">>)
         = {"ability1", "ability2", "ability3", "charLevel"}
<1>1. ASSUME NEW a, NEW b PROVE Range(<<a, b>>) = {a, b}
  <2>1. DOMAIN <<a, b>> = {1, 2} /\ <<a, b>>[1] = a /\ <<a, b>>[2] = b
    OBVIOUS
  <2> DEFINE s == <<a, b>>
  <2> HIDE DEF s
  <2>2. DOMAIN s = {1, 2} /\ s[1] = a /\ s[2] = b
    BY <2>1 DEF s
  <2>3. Range(s) = {a, b}
    BY <2>2 DEF Range
  <2> QED
    BY <2>3 DEF s
<1>2. ASSUME NEW a, NEW b, NEW c, NEW d PROVE Range(<<a, b, c, d>>) = {a, b, c, d}
  <2> DEFINE s == <<a, b, c, d>>
  <2>1. DOMAIN s = {1, 2, 3, 4} /\ s[1] = a /\ s[2] = b /\ s[3] = c /\ s[4] = d
    OBVIOUS
  <2> HIDE DEF s
  <2>2. Range(s) = {a, b, c, d}
    BY <2>1 DEF Range
  <2> QED
    BY <2>2 DEF s
<1>3. {"copy", "copy", "copy", "copy"} = {"copy"}
  OBVIOUS
<1> QED
  BY <1>1, <1>2, <1>3 DEF Decals, Options

ModelNames == {"ModelType", "HairColorId", "SkinColorId", "ModelId", "MoveableDecal",
               "MapsAndColours", "Modifier"}

LEMMA NamesOfModel ==
    ASSUME NEW decals, IsSequence(decals)
    PROVE  Names(UnitCustomModel(decals)) = ModelNames \cup Range(decals)
<1> DEFINE type == Number("ModelType", 1)
           hair == Number("HairColorId", 4)
           ids == Numbers(<<"SkinColorId", "ModelId">>, 4)
           face == FaceModel(decals)
           whenHair == When("ModelType", 1..255, hair)
           whenIds == When("ModelType", 2..255, ids)
           whenFace == When("ModelType", 3..255, face)
           moveable == Number("MoveableDecal", 20)
           many == Numbers(decals, 8)
           maps == Number("MapsAndColours", 36)
           modifier == Vector("Modifier")
<1>1. /\ IsForm(type) /\ IsForm(hair) /\ IsForm(ids) /\ IsForm(many)
      /\ IsForm(moveable) /\ IsForm(maps) /\ IsForm(modifier)
  BY OneField, NameLists, ManyFields
<1>2. /\ Names(type) = {"ModelType"} /\ Names(hair) = {"HairColorId"}
      /\ Names(ids) = {"SkinColorId", "ModelId"} /\ Names(many) = Range(decals)
      /\ Names(moveable) = {"MoveableDecal"} /\ Names(maps) = {"MapsAndColours"}
      /\ Names(modifier) = {"Modifier"}
  BY NamesOfPieces, NameListRanges
<1>3. face = ((moveable \o many) \o maps) \o modifier
  BY DEF FaceModel
<1>4. UnitCustomModel(decals) = ((type \o whenHair) \o whenIds) \o whenFace
  BY DEF UnitCustomModel
<1> HIDE DEF type, hair, ids, face, moveable, many, maps, modifier
<1>5. IsForm(moveable \o many) /\ IsForm((moveable \o many) \o maps) /\ IsForm(face)
  BY <1>1, <1>3, JoinedFields
<1>6. Names(face) = Names(moveable) \cup Names(many) \cup Names(maps) \cup Names(modifier)
  BY <1>1, <1>3, <1>5, JoinedNames
<1>7. /\ IsForm(whenHair) /\ IsForm(whenIds) /\ IsForm(whenFace)
      /\ Names(whenHair) = Names(hair) /\ Names(whenIds) = Names(ids)
      /\ Names(whenFace) = Names(face)
  BY <1>1, <1>5, ConditionalFields, NamesOfPieces
<1> HIDE DEF whenHair, whenIds, whenFace
<1>8. IsForm(type \o whenHair) /\ IsForm((type \o whenHair) \o whenIds)
  BY <1>1, <1>7, JoinedFields
<1>9. Names(UnitCustomModel(decals))
        = Names(type) \cup Names(whenHair) \cup Names(whenIds) \cup Names(whenFace)
  BY <1>1, <1>4, <1>7, <1>8, JoinedNames
<1> QED
  BY <1>2, <1>6, <1>7, <1>9 DEF ModelNames

\* What is written of a character's creation, and what was chosen at it.
WrittenLooks == String("name") \o WriteModel
DecalNames == {"decal1", "decal2", "decal3", "decal4"}

LEMMA NamesOfLooks ==
    /\ Names(WrittenLooks) = {"name"} \cup ModelNames \cup DecalNames
    /\ Names(WriteModel) = ModelNames \cup DecalNames
    /\ ChosenNames = {"name"} \cup ModelNames \cup {"copy"}
    /\ Names(String("name") \o ReadModel) = ChosenNames
    /\ Names(CreationBody) = ChosenNames
          \cup {"race", "gender", "body", "ability1", "ability2", "ability3", "charLevel"}
    /\ Names(WriteOptions) = {"Stp", "Helmet", "BackHoldable", "Cosplay", "CosplayBackpack"}
    /\ DecalNames = Range(Decals)
<1> DEFINE name == String("name")
           race == Numbers(<<"race", "gender">>, 1)
           body == Number("body", 28)
           skills == Numbers(<<"ability1", "ability2", "ability3", "charLevel">>, 1)
           stp == Number("Stp", 6)
           options == Numbers(Options, 1)
<1>1. /\ IsForm(name) /\ IsForm(race) /\ IsForm(body) /\ IsForm(skills) /\ IsForm(stp)
      /\ IsForm(options) /\ IsForm(ReadModel) /\ IsForm(WriteModel)
  BY OneField, NameLists, ManyFields, ModelForm DEF ReadModel, WriteModel
<1>2. /\ Names(name) = {"name"} /\ Names(race) = {"race", "gender"} /\ Names(body) = {"body"}
      /\ Names(skills) = {"ability1", "ability2", "ability3", "charLevel"}
      /\ Names(stp) = {"Stp"}
      /\ Names(options) = {"Helmet", "BackHoldable", "Cosplay", "CosplayBackpack"}
  BY NamesOfPieces, NameListRanges
<1>3. Names(ReadModel) = ModelNames \cup {"copy"} /\ Names(WriteModel) = ModelNames \cup DecalNames
  BY NameLists, NamesOfModel, NameListRanges DEF ReadModel, WriteModel, DecalNames
<1>4. /\ WrittenLooks = name \o WriteModel /\ WriteOptions = stp \o options
      /\ CreationBody = (((name \o race) \o body) \o ReadModel) \o skills
      /\ ChosenNames = Names(name \o ReadModel)
  BY DEF WrittenLooks, WriteOptions, CreationBody, ChosenNames, Names
<1> HIDE DEF name, race, body, skills, stp, options
<1>5. IsForm(name \o race) /\ IsForm((name \o race) \o body)
      /\ IsForm(((name \o race) \o body) \o ReadModel)
  BY <1>1, JoinedFields
<1>6. /\ Names(WrittenLooks) = Names(name) \cup Names(WriteModel)
      /\ Names(WriteOptions) = Names(stp) \cup Names(options)
      /\ ChosenNames = Names(name) \cup Names(ReadModel)
      /\ Names(CreationBody) = Names(name) \cup Names(race) \cup Names(body)
                               \cup Names(ReadModel) \cup Names(skills)
  BY <1>1, <1>4, <1>5, JoinedNames
<1>7. DecalNames = Range(Decals)
  BY NameListRanges DEF DecalNames
<1>8. Names(String("name") \o ReadModel) = ChosenNames
  BY <1>4 DEF name
<1> QED
  BY <1>2, <1>3, <1>6, <1>7, <1>8
\* What is stored of a character's looks is what its creation chose, and its decals are
\* as in a new character.
AsCreated ==
    /\ DOMAIN chosen = ChosenNames
    /\ \A n \in {"name"} \cup ModelNames : stored[n] = chosen[n]
    /\ \A n \in DecalNames : stored[n] = Defaults[n]

LEMMA CreatedAtFirst == Init => AsCreated
<1> SUFFICES ASSUME Init PROVE AsCreated
  OBVIOUS
<1>1. /\ stored = [name \in StoredNames |-> Defaults[name]]
      /\ chosen = [name \in ChosenNames |-> Defaults[name]]
  BY DEF Init
<1>2. Names(WrittenLooks) \subseteq StoredNames
  BY NamesShown DEF WrittenLooks
<1>3. /\ \A n \in {"name"} \cup ModelNames : n \in StoredNames /\ n \in ChosenNames
      /\ \A n \in DecalNames : n \in StoredNames
  BY <1>2, NamesOfLooks
<1> QED
  BY <1>1, <1>3 DEF AsCreated

\* Storing anything else leaves the looks.
LEMMA StoredBeside ==
    ASSUME Kept, AsCreated, NEW fields, NEW format,
           Names(format) \cap Names(WrittenLooks) = {},
           stored' = Update(Only(fields, format)) \/ stored' = stored, chosen' = chosen
    PROVE  AsCreated'
<1>1. CASE stored' = stored
  BY <1>1 DEF AsCreated
<1>2. CASE stored' = Update(Only(fields, format))
  <2> DEFINE some == Only(fields, format)
  <2>1. DOMAIN some = Names(format)
    BY OnlyAt
  <2>2. DOMAIN stored = StoredNames /\ Names(WrittenLooks) \subseteq StoredNames
    BY NamesShown DEF Kept, WrittenLooks
  <2>3. \A n \in Names(WrittenLooks) : n \in DOMAIN stored \ DOMAIN some
    BY <2>1, <2>2
  <2>4. stored' = Over(some, stored)
    BY <1>2 DEF Update
  <2> HIDE DEF some
  <2>5. \A n \in Names(WrittenLooks) : stored'[n] = stored[n]
    <3>1. \A k \in DOMAIN stored \ DOMAIN some : Over(some, stored)[k] = stored[k]
      BY OverAt, Zenon
    <3> QED
      BY <2>3, <2>4, <3>1
  <2>6. \A n \in {"name"} \cup ModelNames \cup DecalNames : stored'[n] = stored[n]
    BY <2>5, NamesOfLooks
  <2> QED
    BY <2>6 DEF AsCreated
<1> QED
  BY <1>1, <1>2

LEMMA CreationChooses ==
    ASSUME Kept, Routed, AsCreated, CSCreateCharacter
    PROVE  AsCreated'
<1> DEFINE r == Reads(Zeros(3))
           F == r.fields
           G == IF AsSent THEN request.fields ELSE r.fields
           valid == F["name"] \in ValidNames
           some == Only(F, WrittenLooks)
           picked == Only(G, String("name") \o ReadModel)
<1>1. /\ phase = "dispatched" /\ handler = "CSCreateCharacter"
      /\ stored' = IF valid THEN Update(some) ELSE stored
      /\ chosen' = IF ~valid THEN chosen ELSE Over(picked, chosen)
  BY DEF CSCreateCharacter, WrittenLooks
<1>2. CASE ~valid
  BY <1>1, <1>2 DEF AsCreated
<1>3. CASE valid
  <2>1. stored' = Over(some, stored) /\ chosen' = Over(picked, chosen)
    BY <1>1, <1>3 DEF Update
  <2>2. handler \in Showing /\ FormatOf(handler) = CreationBody
    BY <1>1, ShowingFormats DEF Showing
  <2>3. \A n \in ChosenNames : F[n] = G[n]
    <3>1. CASE AsSent
      <4>1. \A n \in Names(CreationBody) : F[n] = request.fields[n]
        BY <1>1, <2>2, <3>1, HandlerFindsAsSent
      <4>2. ChosenNames \subseteq Names(CreationBody)
        BY NamesOfLooks
      <4> QED
        BY <3>1, <4>1, <4>2
    <3>2. CASE ~AsSent
      BY <3>2
    <3> QED
      BY <3>1, <3>2
  <2>4. \A n \in DecalNames : F[n] = Defaults[n]
    <3>1. /\ IsForm(CreationBody) /\ Defaults \in [DOMAIN Defaults -> Bytes]
      BY <2>2, RequestForms, DefaultsAreBytes
    <3>2. DecalNames \subseteq DOMAIN Defaults
      <4>1. Names(WrittenLooks) \subseteq StoredNames /\ StoredNames \subseteq DOMAIN Defaults
        BY NamesShown DEF WrittenLooks
      <4> QED
        BY <4>1, NamesOfLooks
    <3>3. \A n \in DecalNames : n \in DOMAIN Defaults \ Names(CreationBody)
      BY <3>2, NamesOfLooks DEF DecalNames, ModelNames
    <3>4. F = ReadFormat(CreationBody, packet, Defaults, Zeros(3)).fields
      BY <2>2 DEF Reads
    <3> HIDE DEF F
    <3> QED
      BY <3>1, <3>3, <3>4, UnreadStays
  <2>5. /\ DOMAIN some = Names(WrittenLooks) /\ \A n \in Names(WrittenLooks) : some[n] = F[n]
        /\ DOMAIN picked = ChosenNames /\ \A n \in ChosenNames : picked[n] = G[n]
    BY OnlyAt, NamesOfLooks
  <2> HIDE DEF some, picked, F, G
  <2>6. /\ \A n \in Names(WrittenLooks) : stored'[n] = F[n]
        /\ DOMAIN chosen' = ChosenNames /\ \A n \in ChosenNames : chosen'[n] = G[n]
    <3>1. \A k \in DOMAIN some : Over(some, stored)[k] = some[k]
      BY OverAt, Zenon
    <3>2. /\ \A k \in DOMAIN picked : Over(picked, chosen)[k] = picked[k]
          /\ DOMAIN Over(picked, chosen) = DOMAIN picked \cup DOMAIN chosen
      BY OverAt, Zenon
    <3>3. \A n \in Names(WrittenLooks) : stored'[n] = F[n]
      BY <2>1, <2>5, <3>1
    <3>4. DOMAIN chosen = ChosenNames
      BY DEF AsCreated
    <3>5. DOMAIN chosen' = ChosenNames /\ \A n \in ChosenNames : chosen'[n] = G[n]
      BY <2>1, <2>5, <3>2, <3>4
    <3> QED
      BY <3>3, <3>5
  <2>7. /\ \A n \in {"name"} \cup ModelNames : n \in Names(WrittenLooks) /\ n \in ChosenNames
        /\ \A n \in DecalNames : n \in Names(WrittenLooks)
    BY NamesOfLooks
  <2>8. /\ \A n \in {"name"} \cup ModelNames : stored'[n] = chosen'[n]
        /\ \A n \in DecalNames : stored'[n] = Defaults[n]
    BY <2>3, <2>4, <2>6, <2>7
  <2> QED
    BY <2>6, <2>8 DEF AsCreated
<1> QED
  BY <1>2, <1>3

LEMMA CreatedAlways ==
    ASSUME Kept, Routed, AsCreated, [Next]_vars
    PROVE  AsCreated'
<1>1. CASE CSCreateCharacter
  BY <1>1, CreationChooses
<1>2. CASE CSSpawnCharacter
  <2>1. \E fields : /\ stored' = Update(Only(fields, WriteOptions)) \/ stored' = stored
                    /\ chosen' = chosen
    BY <1>2 DEF CSSpawnCharacter
  <2>2. Names(WriteOptions) \cap Names(WrittenLooks) = {}
    BY NamesOfLooks DEF ModelNames, DecalNames
  <2> QED
    BY <2>1, <2>2, StoredBeside
<1>3. CASE CSMoveUnit
  <2>1. \E fields : /\ stored' = Update(Only(fields, Position("Pos"))) \/ stored' = stored
                    /\ chosen' = chosen
    BY <1>3 DEF CSMoveUnit
  <2>2. Names(Position("Pos")) \cap Names(WrittenLooks) = {}
    BY NamesOfLooks, NamesOfPieces DEF ModelNames, DecalNames
  <2> QED
    BY <2>1, <2>2, StoredBeside
<1>4. CASE Receive \/ ProcessPacket \/ HandleUnknown \/ HandleRequest \/ Release
  <2>1. stored' = stored /\ chosen' = chosen
    BY <1>4 DEF Receive, ProcessPacket, HandleUnknown, HandleRequest, Release
  <2> QED
    BY <2>1 DEF AsCreated
<1>5. CASE UNCHANGED vars
  BY <1>5 DEF vars, AsCreated
<1> QED
  BY <1>1, <1>2, <1>3, <1>4, <1>5, Zenon DEF Next

-----------------------------------------------------------------------------
(* The options, which are read under flags and written without. *)

\* An option is one more field.
OneMore(s, longer, name) ==
    /\ IsForm(longer) /\ Len(longer) = Len(s) + 1
    /\ \A i \in 1..Len(s) : longer[i] = s[i]
    /\ longer[Len(s) + 1].kind = "number" /\ longer[Len(s) + 1].name = name
LEMMA OneOption ==
    ASSUME NEW s, IsForm(s), NEW flags, NEW name, NEW size, size \in Nat
    PROVE  OneMore(s, s \o When("Flag", flags, Number(name, size)), name)
<1> DEFINE f == Field("number", name, size)
           g == [f EXCEPT !.on = "Flag", !.flags = flags]
           t == When("Flag", flags, Number(name, size))
           u == s \o t
           k == Len(s)
<1>1. IsForm(t) /\ IsForm(u)
  BY OneField, ConditionalFields, JoinedFields
<1>2. g.kind = "number" /\ g.name = name
  <2> DEFINE b == [f EXCEPT !.on = "Flag"]
  <2>1. f.kind = "number" /\ f.name = name /\ DOMAIN f = {"kind", "name", "size", "on", "flags"}
    BY DEF Field
  <2> HIDE DEF f
  <2>2. b.kind = "number" /\ b.name = name /\ DOMAIN b = {"kind", "name", "size", "on", "flags"}
    BY <2>1
  <2> HIDE DEF b
  <2>3. [b EXCEPT !.flags = flags].kind = "number" /\ [b EXCEPT !.flags = flags].name = name
    BY <2>2
  <2> QED
    BY <2>3 DEF b
<1>3. Len(t) = 1 /\ t[1] = g
  <2>1. Number(name, size) = <<f>>
    BY DEF Number
  <2> DEFINE v(x) == [x EXCEPT !.on = "Flag", !.flags = flags]
  <2>2. t = [i \in DOMAIN <<f>> |-> v(<<f>>[i])]
    BY <2>1 DEF When
  <2>3. g = v(f)
    OBVIOUS
  <2> HIDE DEF v, f, g, t
  <2>4. DOMAIN t = 1..1 /\ t[1] = g
    BY <2>2, <2>3
  <2>5. Len(t) \in Nat /\ DOMAIN t = 1..Len(t)
    BY <1>1, SequenceDomain DEF IsForm, t
  <2> QED
    BY <2>4, <2>5
<1>4. IsSequence(s) /\ IsSequence(t) /\ k \in Nat
  BY <1>1, SequenceDomain DEF IsForm
<1> HIDE DEF f, g, t, k
<1>5. /\ Len(s \o t) = Len(s) + Len(t)
      /\ \A i \in 1..Len(s) : (s \o t)[i] = s[i]
      /\ \A i \in Len(s) + 1 .. Len(s) + Len(t) : (s \o t)[i] = t[i - Len(s)]
  BY <1>4, ConcatenatedSequence
<1> HIDE DEF u
<1>6. /\ Len(u) = k + 1
      /\ \A i \in 1..k : u[i] = s[i]
      /\ \A i \in k + 1 .. k + 1 : u[i] = t[i - k]
  BY <1>3, <1>5 DEF u, k
<1>7. u[k + 1] = g
  <2>1. k + 1 \in k + 1 .. k + 1 /\ (k + 1) - k = 1
    BY <1>4
  <2> QED
    BY <1>3, <1>6, <2>1
<1> QED
  <2>1. OneMore(s, u, name)
    BY <1>1, <1>2, <1>6, <1>7 DEF k, OneMore
  <2> QED
    BY <2>1 DEF u, t

LEMMA OptionsAlike ==
    /\ Len(WriteOptions) = 5 /\ Len(ReadOptions) = 6
    /\ \A n \in 1..5 :
          /\ WriteOptions[n].kind = "number" /\ WriteOptions[n].on = ""
          /\ ReadOptions[n + 1].kind = "number" /\ ReadOptions[n + 1].name = WriteOptions[n].name
<1> DEFINE up1 == Number("Flag", 1)
           up2 == up1 \o When("Flag", HasBit({1}), Number("Stp", 6))
           up3 == up2 \o When("Flag", HasBit({2}), Number("Helmet", 1))
           up4 == up3 \o When("Flag", HasBit({4}), Number("BackHoldable", 1))
           up5 == up4 \o When("Flag", HasBit({8}), Number("Cosplay", 1))
           up6 == up5 \o When("Flag", HasBit({16}), Number("CosplayBackpack", 1))
           Reads1(f, name) == f.kind = "number" /\ f.name = name
           Writes1(f, name) == f.kind = "number" /\ f.name = name /\ f.on = ""
<1>1. ReadOptions = up6
  BY Zenon DEF ReadOptions
<1>2. IsForm(up1) /\ Len(up1) = 1
  <2>1. Len(up1) = 1
    BY DEF Number
  <2> QED
    BY <2>1, OneField
<1> HIDE DEF up1
<1>3. IsForm(up2) /\ Len(up2) = 2 /\ Reads1(up2[2], "Stp")
  <2>1. 6 \in Nat
    OBVIOUS
  <2>2. /\ IsForm(up2) /\ Len(up2) = Len(up1) + 1
        /\ \A i \in 1..Len(up1) : up2[i] = up1[i]
        /\ Reads1(up2[Len(up1) + 1], "Stp")
    <3>1. IsForm(up1)
      BY <1>2
    <3>2. \A flags : OneMore(up1, up1 \o When("Flag", flags, Number("Stp", 6)), "Stp")
      BY <2>1, <3>1, OneOption
    <3>3. OneMore(up1, up2, "Stp")
      BY <3>2
    <3> QED
      BY <3>3 DEF OneMore
  <2> HIDE DEF up2, Reads1
  <2> QED
    BY <1>2, <2>2
<1> HIDE DEF up2
<1>4. IsForm(up3) /\ Len(up3) = 3 /\ up3[2] = up2[2] /\ Reads1(up3[3], "Helmet")
  <2>1. 1 \in Nat
    OBVIOUS
  <2>2. /\ IsForm(up3) /\ Len(up3) = Len(up2) + 1
        /\ \A i \in 1..Len(up2) : up3[i] = up2[i]
        /\ Reads1(up3[Len(up2) + 1], "Helmet")
    <3>1. IsForm(up2)
      BY <1>3
    <3>2. \A flags : OneMore(up2, up2 \o When("Flag", flags, Number("Helmet", 1)), "Helmet")
      BY <2>1, <3>1, OneOption
    <3>3. OneMore(up2, up3, "Helmet")
      BY <3>2
    <3> QED
      BY <3>3 DEF OneMore
  <2> HIDE DEF up3, Reads1
  <2> QED
    BY <1>3, <2>2
<1> HIDE DEF up3
<1>5. IsForm(up4) /\ Len(up4) = 4 /\ up4[2] = up3[2] /\ up4[3] = up3[3] /\ Reads1(up4[4], "BackHoldable")
  <2>1. 1 \in Nat
    OBVIOUS
  <2>2. /\ IsForm(up4) /\ Len(up4) = Len(up3) + 1
        /\ \A i \in 1..Len(up3) : up4[i] = up3[i]
        /\ Reads1(up4[Len(up3) + 1], "BackHoldable")
    <3>1. IsForm(up3)
      BY <1>4
    <3>2. \A flags : OneMore(up3, up3 \o When("Flag", flags, Number("BackHoldable", 1)), "BackHoldable")
      BY <2>1, <3>1, OneOption
    <3>3. OneMore(up3, up4, "BackHoldable")
      BY <3>2
    <3> QED
      BY <3>3 DEF OneMore
  <2> HIDE DEF up4, Reads1
  <2> QED
    BY <1>4, <2>2
<1> HIDE DEF up4
<1>6. /\ IsForm(up5) /\ Len(up5) = 5 /\ up5[2] = up4[2] /\ up5[3] = up4[3] /\ up5[4] = up4[4]
      /\ Reads1(up5[5], "Cosplay")
  <2>1. 1 \in Nat
    OBVIOUS
  <2>2. /\ IsForm(up5) /\ Len(up5) = Len(up4) + 1
        /\ \A i \in 1..Len(up4) : up5[i] = up4[i]
        /\ Reads1(up5[Len(up4) + 1], "Cosplay")
    <3>1. IsForm(up4)
      BY <1>5
    <3>2. \A flags : OneMore(up4, up4 \o When("Flag", flags, Number("Cosplay", 1)), "Cosplay")
      BY <2>1, <3>1, OneOption
    <3>3. OneMore(up4, up5, "Cosplay")
      BY <3>2
    <3> QED
      BY <3>3 DEF OneMore
  <2> HIDE DEF up5, Reads1
  <2> QED
    BY <1>5, <2>2
<1> HIDE DEF up5
<1>7. /\ IsForm(up6) /\ Len(up6) = 6 /\ up6[2] = up5[2] /\ up6[3] = up5[3] /\ up6[4] = up5[4]
      /\ up6[5] = up5[5] /\ Reads1(up6[6], "CosplayBackpack")
  <2>1. 1 \in Nat
    OBVIOUS
  <2>2. /\ IsForm(up6) /\ Len(up6) = Len(up5) + 1
        /\ \A i \in 1..Len(up5) : up6[i] = up5[i]
        /\ Reads1(up6[Len(up5) + 1], "CosplayBackpack")
    <3>1. IsForm(up5)
      BY <1>6
    <3>2. \A flags : OneMore(up5, up5 \o When("Flag", flags, Number("CosplayBackpack", 1)), "CosplayBackpack")
      BY <2>1, <3>1, OneOption
    <3>3. OneMore(up5, up6, "CosplayBackpack")
      BY <3>2
    <3> QED
      BY <3>3 DEF OneMore
  <2> HIDE DEF up6, Reads1
  <2> QED
    BY <1>6, <2>2
<1> HIDE DEF up6
<1>8. /\ Reads1(up6[2], "Stp") /\ Reads1(up6[3], "Helmet") /\ Reads1(up6[4], "BackHoldable")
      /\ Reads1(up6[5], "Cosplay") /\ Reads1(up6[6], "CosplayBackpack")
  <2> HIDE DEF Reads1
  <2> QED
    BY <1>3, <1>4, <1>5, <1>6, <1>7
<1> DEFINE s == Number("Stp", 6)
           t == Numbers(Options, 1)
           w == s \o t
           F(name, size) == Field("number", name, size)
<1>9. s[1] = F("Stp", 6) /\ Len(s) = 1 /\ IsForm(s)
  BY OneField DEF Number
<1>10. /\ IsForm(t) /\ DOMAIN t = 1..4
       /\ t[1] = F("Helmet", 1) /\ t[2] = F("BackHoldable", 1)
       /\ t[3] = F("Cosplay", 1) /\ t[4] = F("CosplayBackpack", 1)
  <2>1. IsForm(t)
    BY NameLists, ManyFields
  <2> HIDE DEF F
  <2>2. t = [i \in DOMAIN Options |-> F(Options[i], 1)]
    BY DEF Numbers, F
  <2>3. /\ DOMAIN Options = 1..4 /\ Options[1] = "Helmet" /\ Options[2] = "BackHoldable"
        /\ Options[3] = "Cosplay" /\ Options[4] = "CosplayBackpack"
    BY DEF Options
  <2> QED
    BY <2>1, <2>2, <2>3
<1>11. IsSequence(s) /\ IsSequence(t) /\ Len(t) = 4
  <2>1. Len(t) \in Nat /\ DOMAIN t = 1..Len(t)
    BY <1>10, SequenceDomain DEF IsForm
  <2> HIDE DEF t, s
  <2> QED
    BY <1>9, <1>10, <2>1 DEF IsForm
<1> HIDE DEF s, t
<1>12. /\ Len(w) = 5 /\ w[1] = s[1]
       /\ w[2] = t[1] /\ w[3] = t[2] /\ w[4] = t[3] /\ w[5] = t[4]
  <2>1. /\ Len(w) = Len(s) + Len(t)
        /\ \A i \in 1..Len(s) : w[i] = s[i]
        /\ \A i \in Len(s) + 1 .. Len(s) + Len(t) : w[i] = t[i - Len(s)]
    BY <1>11, ConcatenatedSequence
  <2> HIDE DEF w
  <2>2. /\ \A i \in 1..1 : w[i] = s[i]
        /\ \A i \in 2..5 : w[i] = t[i - 1]
    BY <1>9, <1>11, <2>1
  <2>3. w[1] = s[1] /\ w[2] = t[2 - 1] /\ w[3] = t[3 - 1] /\ w[4] = t[4 - 1] /\ w[5] = t[5 - 1]
    BY <2>2
  <2> QED
    BY <1>9, <1>11, <2>1, <2>3
<1> HIDE DEF w
<1>13. \A name, size : Writes1(F(name, size), name)
  BY DEF Field
<1>14. /\ Writes1(w[1], "Stp") /\ Writes1(w[2], "Helmet") /\ Writes1(w[3], "BackHoldable")
       /\ Writes1(w[4], "Cosplay") /\ Writes1(w[5], "CosplayBackpack")
  <2> HIDE DEF Writes1, F
  <2> QED
    BY <1>9, <1>10, <1>12, <1>13
<1>15. WriteOptions = w
  BY DEF WriteOptions, w, s, t
<1> DEFINE Alike(n) == \E name : Writes1(w[n], name) /\ Reads1(up6[n + 1], name)
<1>16. \A n \in 1..5 : Alike(n)
  <2>1. /\ 1 + 1 = 2 /\ 2 + 1 = 3 /\ 3 + 1 = 4 /\ 4 + 1 = 5 /\ 5 + 1 = 6
    OBVIOUS
  <2>2. Alike(1) /\ Alike(2) /\ Alike(3) /\ Alike(4) /\ Alike(5)
    <3> HIDE DEF Writes1, Reads1
    <3> QED
      BY <1>8, <1>14, <2>1
  <2>3. \A n \in 1..5 : n = 1 \/ n = 2 \/ n = 3 \/ n = 4 \/ n = 5
    OBVIOUS
  <2> HIDE DEF Alike
  <2> QED
    BY <2>2, <2>3, Zenon
<1> QED
  BY <1>1, <1>7, <1>12, <1>15, <1>16
-----------------------------------------------------------------------------
\* A field that is always there and neither counted nor a vector is its bytes.
LEMMA PlainBytes ==
    ASSUME NEW f, f.on = "", f.kind \notin Counted, NEW fields
    PROVE  FieldBytes(f, fields) = fields[f.name]
BY DEF FieldBytes, Present, Counted

\* The options as SCUnitState writes them, under the flags they were read with.
Unflagged ==
    LET options == [i \in 2..6 |-> [ReadOptions[i] EXCEPT !.on = ""]]
    IN [i \in 1..5 |-> options[i + 1]]

LEMMA UnflaggedParts ==
    /\ Len(Unflagged) = 5
    /\ \A n \in 1..5 : /\ Unflagged[n].kind = "number" /\ Unflagged[n].on = ""
                       /\ Unflagged[n].name = WriteOptions[n].name
<1> DEFINE bare(f) == [f EXCEPT !.on = ""]
           u == [i \in 1..5 |-> bare(ReadOptions[i + 1])]
<1>1. Unflagged = u
  <2> DEFINE options == [i \in 2..6 |-> bare(ReadOptions[i])]
  <2>1. \A i \in 1..5 : i + 1 \in 2..6
    OBVIOUS
  <2>2. \A j \in 2..6 : options[j] = bare(ReadOptions[j])
    OBVIOUS
  <2>3. Unflagged = [i \in 1..5 |-> options[i + 1]]
    BY DEF Unflagged
  <2> HIDE DEF options, bare
  <2>4. \A i \in 1..5 : options[i + 1] = bare(ReadOptions[i + 1])
    BY <2>1, <2>2
  <2> QED
    BY <2>3, <2>4
<1>2. Len(u) = 5
  <2> HIDE DEF bare
  <2> QED
    OBVIOUS
<1>3. ASSUME NEW n \in 1..5
      PROVE  /\ u[n].kind = "number" /\ u[n].on = "" /\ u[n].name = WriteOptions[n].name
  <2> DEFINE f == ReadOptions[n + 1]
  <2>1. IsField(f)
    <3>1. n + 1 \in 1..6
      OBVIOUS
    <3>2. IsForm(ReadOptions) /\ Len(ReadOptions) = 6
      BY OptionsForm, OptionsAlike
    <3> HIDE DEF f
    <3> QED
      BY <3>1, <3>2 DEF IsForm, f
  <2>2. f.kind = "number" /\ f.name = WriteOptions[n].name
    BY OptionsAlike
  <2>3. u[n] = bare(f)
    OBVIOUS
  <2> HIDE DEF f, u
  <2>4. bare(f).kind = f.kind /\ bare(f).name = f.name /\ bare(f).on = ""
    BY <2>1 DEF IsField
  <2> HIDE DEF bare
  <2> QED
    BY <2>2, <2>3, <2>4
<1> HIDE DEF u
<1> QED
  BY <1>1, <1>2, <1>3

LEMMA OptionsShown ==
    ASSUME NEW c, NEW fields, \A n \in Names(WriteOptions) : c[n] = fields[n]
    PROVE  Encoding(WriteOptions, c) = Encoding(Unflagged, fields)
<1>1. ASSUME NEW n \in 1..5
      PROVE  FieldBytes(WriteOptions[n], c) = FieldBytes(Unflagged[n], fields)
  <2> DEFINE f == WriteOptions[n]
             g == Unflagged[n]
  <2>1. /\ f.kind = "number" /\ f.on = "" /\ g.kind = "number" /\ g.on = "" /\ g.name = f.name
    BY OptionsAlike, UnflaggedParts
  <2>2. f.name \in Names(WriteOptions)
    BY OptionsForm, OptionsAlike, NamesOfForm
  <2> HIDE DEF f, g
  <2>3. FieldBytes(f, c) = c[f.name] /\ FieldBytes(g, fields) = fields[g.name]
    BY <2>1, PlainBytes DEF Counted
  <2>4. FieldBytes(f, c) = FieldBytes(g, fields)
    BY <2>1, <2>2, <2>3
  <2> QED
    BY <2>4 DEF f, g
<1>2. Len(WriteOptions) = 5 /\ Len(Unflagged) = 5
  BY OptionsAlike, UnflaggedParts
<1>3. Len(WriteOptions) \in Nat /\ Len(Unflagged) = Len(WriteOptions)
  BY <1>2
<1>4. \A n \in 1..Len(WriteOptions) :
         FieldBytes(WriteOptions[n], c) = FieldBytes(Unflagged[n], fields)
  BY <1>1, <1>2
<1> DEFINE s == WriteOptions
           t == Unflagged
<1>5. /\ Len(s) \in Nat /\ Len(t) = Len(s)
      /\ \A n \in 1..Len(s) : FieldBytes(s[n], c) = FieldBytes(t[n], fields)
  BY <1>3, <1>4
<1> HIDE DEF s, t
<1>6. Encoding(s, c) = Encoding(t, fields)
  BY <1>5, SameEncoding
<1> QED
  BY <1>6 DEF s, t

LEMMA PositionShown ==
    ASSUME NEW c, c["Pos"] \in Bytes
    PROVE  Encoding(Position("Pos"), c) = c["Pos"]
<1> DEFINE format == Position("Pos")
           e == EncodingUpTo(format, c)
           b(n) == FieldBytes(format[n], c)
<1>1. Len(format) = 1 /\ format[1].kind = "position" /\ format[1].on = "" /\ format[1].name = "Pos"
  BY DEF Position, Field
<1> HIDE DEF format
<1>3. e[1] = <<>> \o b(1)
  <2> DEFINE k == Len(format)
  <2>1. k = 1
    BY <1>1
  <2>2. e[0] = <<>> /\ \A n \in 1..k : e[n] = e[n - 1] \o b(n)
    <3>1. Len(format) \in Nat
      BY <2>1
    <3> QED
      BY <3>1, EncodingUnrolls, Zenon
  <2>3. 1 \in 1..k /\ 1 - 1 = 0
    BY <2>1
  <2> HIDE DEF e, k, b
  <2> QED
    BY <2>2, <2>3
<1>4. FieldBytes(format[1], c) = c["Pos"]
  BY <1>1, PlainBytes DEF Counted
<1>5. <<>> \o c["Pos"] = c["Pos"]
  BY NothingAppended DEF Bytes
<1>6. Encoding(format, c) = e[1]
  BY <1>1 DEF Encoding
<1> QED
  BY <1>3, <1>4, <1>5, <1>6 DEF format

\* What SCUnitState writes of a character whose looks are those picked, and whose decals
\* are as in a new character.
ShownOf(picks, place, fields) ==
    ((Encoding(String("name"), picks) \o place)
     \o Encoding(WriteModel, Over(picks, [d \in Range(Decals) |-> Defaults[d]])))
    \o Encoding(Unflagged, fields)
LooksAs(c, picks) ==
    /\ DOMAIN picks = ChosenNames
    /\ \A n \in {"name"} \cup ModelNames : c[n] = picks[n]
    /\ \A n \in DecalNames : c[n] = Defaults[n]
OptionsAs(c, fields) == \A n \in Names(WriteOptions) : c[n] = fields[n]

LEMMA LooksShown ==
    ASSUME NEW c \in [StoredNames -> Bytes], NEW picks, LooksAs(c, picks),
           NEW fields, OptionsAs(c, fields)
    PROVE  Encoding(UnitState.format, c) = ShownOf(picks, c["Pos"], fields)
<1> DEFINE name == String("name")
           place == Position("Pos")
           model == WriteModel
           options == WriteOptions
           plain == [d \in Range(Decals) |-> Defaults[d]]
           looks == Over(picks, plain)
<1>0. /\ DOMAIN picks = ChosenNames
      /\ \A n \in {"name"} \cup ModelNames : c[n] = picks[n]
      /\ \A n \in DecalNames : c[n] = Defaults[n]
      /\ \A n \in Names(options) : c[n] = fields[n]
  BY DEF LooksAs, OptionsAs
<1>1. IsForm(name) /\ IsForm(place) /\ IsForm(model) /\ IsForm(options)
  BY OneField, NameLists, ModelForm, OptionsForm DEF WriteModel
<1>2. Names(name) = {"name"} /\ Names(place) = {"Pos"}
  BY NamesOfPieces
<1>3. UnitState.format = ((name \o place) \o model) \o options
  BY DEF UnitState, Reply
<1>4. Names(model) = ModelNames \cup DecalNames
  BY NamesOfLooks
<1>5. FlagsAhead(name) /\ FlagsAhead(model)
  BY NameLists, ModelFlagged, PlainPieces, PlainIsFlagged, FlaggedAhead DEF WriteModel
<1>6. Encoding(name, c) = Encoding(name, picks)
  <2> HIDE DEF name
  <2>1. \A n \in Names(name) : c[n] = picks[n]
    BY <1>0, <1>2
  <2> QED
    BY <1>1, <1>5, <2>1, SameFields
<1>7. Encoding(model, c) = Encoding(model, looks)
  <2>1. \A n \in ModelNames : looks[n] = picks[n]
    <3>1. ModelNames \subseteq DOMAIN picks
      BY <1>0, NamesOfLooks
    <3>2. \A n \in DOMAIN picks : looks[n] = picks[n]
      BY OverAt, Zenon
    <3> QED
      BY <3>1, <3>2
  <2>2. \A n \in DecalNames : looks[n] = Defaults[n]
    <3>1. DOMAIN plain = DecalNames /\ \A n \in DecalNames : plain[n] = Defaults[n]
      BY NamesOfLooks
    <3>2. \A n \in DOMAIN plain \ DOMAIN picks : looks[n] = plain[n]
      BY OverAt, Zenon
    <3>3. DecalNames \cap DOMAIN picks = {}
      BY <1>0, NamesOfLooks DEF DecalNames, ModelNames
    <3> HIDE DEF looks, plain
    <3> QED
      BY <3>1, <3>2, <3>3
  <2> HIDE DEF looks, model
  <2>3. \A n \in Names(model) : c[n] = looks[n]
    BY <1>0, <1>4, <2>1, <2>2
  <2> QED
    BY <1>1, <1>5, <2>3, SameFields
<1>8. \A n \in Names(name) \cup Names(place) \cup Names(model) \cup Names(options) : c[n] \in Bytes
  <2>1. Names(name) \subseteq StoredNames /\ Names(model) \subseteq StoredNames
    <3>1. Names(WrittenLooks) \subseteq StoredNames
      BY NamesShown DEF WrittenLooks
    <3> QED
      BY <1>2, <1>4, <3>1, NamesOfLooks
  <2>2. Names(place) \subseteq StoredNames /\ Names(options) \subseteq StoredNames
    BY NamesShown
  <2> HIDE DEF name, place, model, options
  <2> QED
    BY <2>1, <2>2
<1>9. Encoding(place, c) = c["Pos"]
  BY <1>2, <1>8, PositionShown
<1>10. Encoding(options, c) = Encoding(Unflagged, fields)
  BY <1>0, OptionsShown
<1> HIDE DEF name, place, model, options, looks
<1>11. IsForm(name \o place) /\ IsForm((name \o place) \o model)
       /\ Names(name \o place) = Names(name) \cup Names(place)
       /\ Names((name \o place) \o model) = Names(name) \cup Names(place) \cup Names(model)
  BY <1>1, JoinedFields, JoinedNames
<1>12. Encoding(name \o place, c) = Encoding(name, c) \o Encoding(place, c)
  BY <1>1, <1>8, EncodingJoined
<1>13. Encoding((name \o place) \o model, c) = Encoding(name \o place, c) \o Encoding(model, c)
  BY <1>1, <1>8, <1>11, EncodingJoined
<1>14. Encoding(((name \o place) \o model) \o options, c)
         = Encoding((name \o place) \o model, c) \o Encoding(options, c)
  BY <1>1, <1>8, <1>11, EncodingJoined
<1>15. Encoding(UnitState.format, c)
         = ((Encoding(name, picks) \o c["Pos"]) \o Encoding(model, looks))
           \o Encoding(Unflagged, fields)
  BY <1>3, <1>6, <1>7, <1>9, <1>10, <1>12, <1>13, <1>14
<1> QED
  BY <1>15 DEF ShownOf, name, model, looks

LEMMA SpawningShows ==
    ASSUME Kept, Routed, AsCreated, SentWellFormed, CSSpawnCharacter
    PROVE  ShownAsChosen'
<1> SUFFICES ASSUME phase' = "answered", AsSent'
             PROVE  SubSeq(out'[1].body, 9, Len(out'[1].body)) = Shown'
  BY DEF ShownAsChosen, Handled
<1> DEFINE F == Reads(Zeros(3)).fields
           c == Update(Only(F, WriteOptions))
           p == Written(UnitState, Packet(<<>>), c)
           e == Encoding(UnitState.format, c)
           body == out'[1].body
<1>1. /\ phase = "dispatched" /\ handler = "CSSpawnCharacter"
      /\ request' = request /\ handler' = handler /\ chosen' = chosen
      /\ stored' = c /\ out' = <<Sent(UnitState, p, c)>>
  BY DEF CSSpawnCharacter
<1>2. AsSent
  BY <1>1 DEF AsSent
<1>3. handler \in Showing /\ FormatOf(handler) = ReadOptions
  BY <1>1, ShowingFormats DEF Showing
<1>4. \A n \in Names(ReadOptions) : F[n] = request.fields[n]
  BY <1>1, <1>2, <1>3, HandlerFindsAsSent
<1>5. Names(WriteOptions) \subseteq Names(ReadOptions)
  <2>1. IsForm(WriteOptions) /\ IsForm(ReadOptions)
    BY OptionsForm
  <2>2. \A n \in 1..5 : WriteOptions[n].name \in Names(ReadOptions)
    <3>1. \A n \in 1..5 : n + 1 \in 1..6
      OBVIOUS
    <3>2. \A n \in 1..6 : ReadOptions[n].name \in Names(ReadOptions)
      BY <2>1, OptionsAlike, NamesOfForm
    <3>3. \A n \in 1..5 : ReadOptions[n + 1].name = WriteOptions[n].name
      BY OptionsAlike
    <3> QED
      BY <3>1, <3>2, <3>3
  <2>3. DOMAIN WriteOptions = 1..5
    BY <2>1, OptionsAlike, SequenceDomain DEF IsForm
  <2> QED
    BY <2>2, <2>3 DEF Names, Range
<1>6. F \in [DOMAIN Defaults -> Bytes]
  BY ZerosAreBytes, HandlerReads
<1> HIDE DEF F
<1>7. c \in [StoredNames -> Bytes]
  BY <1>6, NamesShown, Updated
<1>8. OptionsAs(c, request.fields)
  <2> DEFINE some == Only(F, WriteOptions)
  <2>1. DOMAIN some = Names(WriteOptions) /\ \A n \in Names(WriteOptions) : some[n] = F[n]
    BY OnlyAt
  <2> HIDE DEF some
  <2>2. \A k \in DOMAIN some : Over(some, stored)[k] = some[k]
    BY OverAt, Zenon
  <2>3. c = Over(some, stored)
    BY DEF Update, some
  <2> HIDE DEF c
  <2> QED
    BY <1>4, <1>5, <2>1, <2>2, <2>3 DEF OptionsAs
<1>9. AsCreated'
  <2>1. CSSpawnCharacter => [Next]_vars
    BY DEF Next
  <2> QED
    BY <2>1, CreatedAlways
<1> HIDE DEF c
<1>10. LooksAs(c, chosen)
  BY <1>1, <1>9 DEF AsCreated, LooksAs
<1>11. e = ShownOf(chosen, c["Pos"], request.fields)
  BY <1>7, <1>8, <1>10, LooksShown
<1>12. e = Shown'
  <2>1. Shown' = ShownOf(chosen', stored'["Pos"], request'.fields)
    BY DEF Shown, ShownOf, Unflagged
  <2> QED
    BY <1>1, <1>11, <2>1
<1>13. body = Bytes16(Len(ServerHeader(1, 105) \o e)) \o (ServerHeader(1, 105) \o e)
  <2>1. UnitState.header = ServerHeader(1, 105)
    BY DEF UnitState, Reply
  <2> DEFINE shown == Sent(UnitState, p, c)
  <2>2. shown.should = ServerHeader(1, 105) \o e
    BY <2>1 DEF Sent
  <2>3. out' = <<shown>>
    BY <1>1
  <2> HIDE DEF shown, e
  <2>4. 1 \in DOMAIN out' /\ out'[1] = shown
    BY <2>3
  <2>5. out'[1].body = Bytes16(Len(out'[1].should)) \o out'[1].should
    BY <2>4, SpawningKept DEF SentWellFormed
  <2> QED
    BY <2>2, <2>4, <2>5
<1>14. e \in Bytes
  <2>1. IsForm(UnitState.format) /\ Names(UnitState.format) \subseteq StoredNames
    BY ShowingForms, NamesShown
  <2>2. \A n \in Names(UnitState.format) : c[n] \in Bytes
    BY <1>7, <2>1
  <2> QED
    BY <2>1, <2>2, EncodingIsBytes
<1>15. 105 \in Nat
  OBVIOUS
<1> HIDE DEF e, body
<1>16. SubSeq(body, 9, Len(body)) = e
  BY <1>13, <1>14, <1>15, ShownBehindHeader
<1> QED
  BY <1>12, <1>16 DEF body

LEMMA ShownAlways ==
    ASSUME Kept, Routed, AsCreated, SentWellFormed, ShownAsChosen, [Next]_vars
    PROVE  ShownAsChosen'
<1>1. CASE CSSpawnCharacter
  BY <1>1, SpawningShows
<1>2. CASE Receive \/ ProcessPacket \/ Release
  <2>1. phase' # "answered"
    BY <1>2 DEF Receive, ProcessPacket, Release
  <2> QED
    BY <2>1 DEF ShownAsChosen, Handled
<1>3. CASE HandleUnknown \/ HandleRequest \/ CSCreateCharacter \/ CSMoveUnit
  <2>1. handler' # "CSSpawnCharacter"
    BY <1>3 DEF HandleUnknown, HandleRequest, CSCreateCharacter, CSMoveUnit
  <2> QED
    BY <2>1 DEF ShownAsChosen
<1>4. CASE UNCHANGED vars
  BY <1>4 DEF vars, ShownAsChosen, Handled, AsSent, Shown
<1> QED
  BY <1>1, <1>2, <1>3, <1>4, Zenon DEF Next

\* The bytes that show a player to the others are the name and the looks its creation sent,
\* whatever packets came between, its place, and the options its spawning sent: none of
\* the server's defaults shows through but the decals', which no request carries over.
THEOREM PlayersShownAsChosen == Spec => []ShownAsChosen
<1>1. Init => Kept /\ SentWellFormed /\ Routed /\ AsCreated /\ ShownAsChosen
  <2>1. Init => ShownAsChosen
    BY DEF Init, ShownAsChosen, Handled
  <2> QED
    BY <2>1, KeptAtFirst, RoutedAtFirst, CreatedAtFirst
<1>2. Kept /\ SentWellFormed /\ Routed /\ AsCreated /\ ShownAsChosen /\ [Next]_vars
        => Kept' /\ SentWellFormed' /\ Routed' /\ AsCreated' /\ ShownAsChosen'
  BY KeptAlways, RoutedAlways, CreatedAlways, ShownAlways
<1> QED
  BY <1>1, <1>2, PTL DEF Spec

=============================================================================

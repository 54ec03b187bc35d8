---------------------------- MODULE CommonLemmas ----------------------------
(***************************************************************************)
(* Facts that the proofs of several components need: sequences used as     *)
(* queues, where s is what was taken out and t what is still inside, and   *)
(* induction, stated with sets.                                            *)
(***************************************************************************)
EXTENDS Integers, Sequences, Functions, SequenceTheorems, WellFoundedInduction, TLAPS

\* What is appended to the queue is appended to the whole.
LEMMA PushIsGive ==
    ASSUME NEW S, NEW s \in Seq(S), NEW t \in Seq(S), NEW x \in S
    PROVE  s \o Append(t, x) = Append(s \o t, x)
<1>1. Append(t, x) = t \o <<x>> /\ Append(s \o t, x) = (s \o t) \o <<x>>
  BY AppendIsConcat, ConcatProperties
<1>2. <<x>> \in Seq(S)
  OBVIOUS
<1> QED
  BY <1>1, <1>2, ConcatAssociative

\* Taking the head leaves the whole as it is, and takes its next element.
LEMMA PopMovesHead ==
    ASSUME NEW S, NEW s \in Seq(S), NEW t \in Seq(S), t # <<>>
    PROVE  /\ Append(s, Head(t)) \o Tail(t) = s \o t
           /\ Len(s) < Len(s \o t)
           /\ (s \o t)[Len(s) + 1] = Head(t)
<1>1. Head(t) \in S /\ Tail(t) \in Seq(S) /\ Len(t) \in Nat \ {0} /\ Len(s) \in Nat
  BY HeadTailProperties, EmptySeq, LenProperties
<1>2. t = <<Head(t)>> \o Tail(t)
  <2> DEFINE u == <<Head(t)>> \o Tail(t)
  <2>1. <<Head(t)>> \in Seq(S) /\ Len(<<Head(t)>>) = 1 /\ <<Head(t)>>[1] = Head(t)
    BY <1>1
  <2>2. u \in Seq(S) /\ Len(u) = Len(t)
    BY <1>1, <2>1, HeadTailProperties, ConcatProperties
  <2>3. t[1] = Head(t) /\ \A i \in 1 .. Len(t) - 1 : Tail(t)[i] = t[i + 1]
    BY HeadTailProperties
  <2>4. ASSUME NEW i \in 1 .. Len(t)
        PROVE  u[i] = t[i]
    <3>1. Len(<<Head(t)>>) + Len(Tail(t)) = Len(t)
      BY <2>1, HeadTailProperties, <1>1
    <3>2. u[i] = IF i <= 1 THEN <<Head(t)>>[i] ELSE Tail(t)[i - 1]
      BY <1>1, <2>1, <3>1, ConcatProperties
    <3>3. CASE i = 1
      BY <2>1, <2>3, <3>2, <3>3
    <3>4. CASE i # 1
      <4>1. i - 1 \in 1 .. Len(t) - 1 /\ (i - 1) + 1 = i /\ ~(i <= 1)
        BY <1>1, <3>4
      <4> QED
        BY <2>3, <3>2, <4>1
    <3> QED
      BY <3>3, <3>4
  <2> QED
    BY <2>2, <2>4, SeqEqual
<1>3. Append(s, Head(t)) = s \o <<Head(t)>>
  BY <1>1, AppendIsConcat
<1>4. <<Head(t)>> \in Seq(S)
  BY <1>1
<1>5. Append(s, Head(t)) \o Tail(t) = s \o t
  BY <1>1, <1>2, <1>3, <1>4, ConcatAssociative
<1>6. Len(s \o t) = Len(s) + Len(t)
  BY ConcatProperties
<1>7. (s \o t)[Len(s) + 1] = t[1]
  BY <1>1, ConcatProperties
<1>8. t[1] = Head(t)
  OBVIOUS
<1> QED
  BY <1>1, <1>5, <1>6, <1>7, <1>8
-----------------------------------------------------------------------------
\* Induction over the natural numbers, for the set of those with a property.
LEMMA SetInduction ==
    ASSUME NEW S, 0 \in S, \A n \in Nat : n \in S => n + 1 \in S
    PROVE  Nat \subseteq S
<1> DEFINE T == Nat \ S
<1> SUFFICES ASSUME T # {} PROVE FALSE
  OBVIOUS
<1>1. PICK n \in T : \A m \in T : <<m, n>> \notin OpToRel(<, Nat)
  BY NatLessThanWellFounded, WFMin, T \subseteq Nat
<1>2. n # 0 /\ n - 1 \in Nat /\ (n - 1) + 1 = n
  OBVIOUS
<1>3. n - 1 \in T
  BY <1>2
<1>4. <<n - 1, n>> \in OpToRel(<, Nat)
  BY <1>2 DEF OpToRel
<1> QED
  BY <1>1, <1>3, <1>4

\* A set of natural numbers has a least one, and a bounded set a greatest.
LEMMA LeastOf ==
    ASSUME NEW S, S \subseteq Nat, S # {}
    PROVE  \E m \in S : \A n \in S : m <= n
<1>1. PICK m \in S : \A n \in S : <<n, m>> \notin OpToRel(<, Nat)
  BY NatLessThanWellFounded, WFMin
<1>2. ASSUME NEW n \in S
      PROVE  m <= n
  <2>1. n < m => <<n, m>> \in OpToRel(<, Nat)
    BY DEF OpToRel
  <2>2. m \in Nat /\ n \in Nat
    OBVIOUS
  <2>3. ~(n < m)
    BY <1>1, <2>1
  <2> QED
    BY <2>2, <2>3
<1> QED
  BY <1>2

LEMMA GreatestOf ==
    ASSUME NEW k \in Nat, NEW S, S \subseteq 0..k, S # {}
    PROVE  \E m \in S : \A n \in S : n <= m
<1> DEFINE T == {k - n : n \in S}
<1>1. T \subseteq Nat /\ T # {}
  <2>1. \A n \in S : n \in 0..k /\ k - n \in Nat
    OBVIOUS
  <2>2. \E n \in S : k - n \in T
    OBVIOUS
  <2> QED
    BY <2>1, <2>2
<1>2. PICK t \in T : \A u \in T : t <= u
  BY <1>1, LeastOf
<1>3. PICK m \in S : t = k - m
  OBVIOUS
<1>4. ASSUME NEW n \in S
      PROVE  n <= m
  <2>1. k - m <= k - n
    BY <1>2, <1>3
  <2> QED
    BY <2>1
<1> QED
  BY <1>4

\* Sequences whose elements are of no particular set.
IsSequence(s) == s \in Seq(Range(s))

LEMMA SequenceDomain ==
    ASSUME NEW s, IsSequence(s)
    PROVE  Len(s) \in Nat /\ DOMAIN s = 1..Len(s)
<1>1. PICK R : s \in Seq(R)
  BY DEF IsSequence
<1> QED
  BY <1>1

\* A function on an initial interval is one.
LEMMA IntervalSequence ==
    ASSUME NEW n \in Nat, NEW s, DOMAIN s = 1..n, s = [i \in 1..n |-> s[i]]
    PROVE  IsSequence(s) /\ Len(s) = n
<1> DEFINE R == Range(s)
<1>1. \A i \in 1..n : s[i] \in R
  BY DEF Range
<1> HIDE DEF R
<1>2. s \in Seq(R) /\ Len(s) = n
  BY <1>1
<1> QED
  BY <1>2 DEF IsSequence, R

LEMMA SubrangeSequence ==
    ASSUME NEW S, NEW s \in Seq(S)
    PROVE  IsSequence(s)
<1>1. Len(s) \in Nat /\ DOMAIN s = 1..Len(s) /\ s = [i \in 1..Len(s) |-> s[i]]
  OBVIOUS
<1> QED
  BY <1>1, IntervalSequence

LEMMA AppendedSequence ==
    ASSUME NEW s, IsSequence(s), NEW x
    PROVE  /\ IsSequence(Append(s, x))
           /\ Len(Append(s, x)) = Len(s) + 1
           /\ DOMAIN Append(s, x) = 1..(Len(s) + 1)
           /\ \A i \in 1..Len(s) : Append(s, x)[i] = s[i]
           /\ Append(s, x)[Len(s) + 1] = x
<1> DEFINE t == Append(s, x)
<1>1. PICK S : s \in Seq(S) /\ x \in S
  <2>1. PICK R : s \in Seq(R)
    BY DEF IsSequence
  <2>2. s \in Seq(R \cup {x})
    BY <2>1
  <2> QED
    BY <2>2
<1>2. /\ t \in Seq(S) /\ Len(t) = Len(s) + 1
      /\ \A i \in 1..Len(s) : t[i] = s[i]
      /\ t[Len(s) + 1] = x
  BY <1>1
<1>3. DOMAIN t = 1..(Len(s) + 1) /\ Len(s) \in Nat
  BY <1>1, <1>2
<1>5. IsSequence(t)
  BY <1>2, SubrangeSequence
<1> QED
  BY <1>2, <1>3, <1>5

LEMMA ConcatenatedSequence ==
    ASSUME NEW s, IsSequence(s), NEW t, IsSequence(t)
    PROVE  /\ IsSequence(s \o t)
           /\ Len(s \o t) = Len(s) + Len(t)
           /\ \A i \in 1..Len(s) : (s \o t)[i] = s[i]
           /\ \A i \in Len(s) + 1 .. Len(s) + Len(t) : (s \o t)[i] = t[i - Len(s)]
<1>1. PICK A, B : s \in Seq(A) /\ t \in Seq(B)
  BY DEF IsSequence
<1>2. s \in Seq(A \cup B) /\ t \in Seq(A \cup B)
  BY <1>1
<1>3. /\ s \o t \in Seq(A \cup B)
      /\ Len(s \o t) = Len(s) + Len(t)
      /\ \A i \in 1 .. Len(s) + Len(t) :
            (s \o t)[i] = IF i <= Len(s) THEN s[i] ELSE t[i - Len(s)]
  BY <1>2, ConcatProperties
<1>4. Len(s) \in Nat /\ Len(t) \in Nat
  BY <1>1
<1>5. IsSequence(s \o t)
  BY <1>3, SubrangeSequence
<1> QED
  BY <1>3, <1>4, <1>5
=============================================================================

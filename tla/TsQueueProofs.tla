---------------------------- MODULE TsQueueProofs ----------------------------
(***************************************************************************)
(* The message queue for any number of producers and items.                *)
(***************************************************************************)
EXTENDS TsQueue, CommonLemmas

\* The consumer holds muxBlocking exactly from LockBlocking to Sleep.
HoldsBlocking == consumerAt = "enter" <=> muxBlocking = Consumer

\* A consumer on its way to sleep over a non-empty queue missed a notification or
\* is about to be notified.
SleepsInv ==
    consumerAt \in {"lock", "enter", "asleep"} /\ deqQueue # <<>> =>
        missed \/ \E p \in Producers : producerAt[p] = "notify"

QueueInv == TypeOK /\ HoldsBlocking /\ NeverPopsEmpty /\ SleepsInv

LEMMA QueueInvInit == Init => QueueInv
<1> SUFFICES ASSUME Init PROVE QueueInv
  OBVIOUS
<1>1. <<>> \in Seq(Items)
  OBVIOUS
<1>2. TypeOK
  <2>1. pushed \in [Producers -> 0..MaxItems]
    BY ThreadsDiffer DEF Init
  <2>2. producerAt \in [Producers -> {"outside", "notify"}]
    BY DEF Init
  <2>3. consumerAt \in ConsumerPlaces
    BY ThreadsDiffer DEF Init, ConsumerPlaces, UpdateStarts
  <2>4. deqQueue \in Seq(Items) /\ handled \in Seq(Items)
    BY <1>1 DEF Init
  <2> QED
    BY <2>1, <2>2, <2>3, <2>4 DEF Init, TypeOK
<1>3. HoldsBlocking /\ NeverPopsEmpty /\ SleepsInv
  BY ThreadsDiffer DEF Init, UpdateStarts, HoldsBlocking, NeverPopsEmpty, SleepsInv
<1> QED
  BY <1>2, <1>3 DEF QueueInv

LEMMA QueueInvNext ==
    ASSUME QueueInv, [Next]_vars
    PROVE  QueueInv'
<1> USE ThreadsDiffer DEF QueueInv, ConsumerPlaces
<1>1. ASSUME NEW p \in Producers, Emplace(p)
      PROVE  QueueInv'
  <2>1. Item(p, pushed[p] + 1) \in Items /\ pushed[p] + 1 \in 0..MaxItems
    BY <1>1 DEF Emplace, TypeOK, Item, Items
  <2>2. deqQueue' \in Seq(Items) /\ deqQueue' # <<>>
    BY <1>1, <2>1 DEF Emplace, TypeOK
  <2>3. producerAt'[p] = "notify"
    BY <1>1 DEF Emplace, TypeOK
  <2>4. pushed' \in [Producers -> 0..MaxItems]
    BY <1>1, <2>1 DEF Emplace, TypeOK
  <2>5. TypeOK'
    BY <1>1, <2>2, <2>4 DEF Emplace, TypeOK
  <2>6. HoldsBlocking' /\ NeverPopsEmpty' /\ SleepsInv'
    BY <1>1, <2>2, <2>3 DEF Emplace, HoldsBlocking, NeverPopsEmpty, SleepsInv
  <2> QED
    BY <2>5, <2>6
<1>2. ASSUME NEW p \in Producers, Notify(p)
      PROVE  QueueInv'
  <2>1. TypeOK'
    BY <1>2 DEF Notify, TypeOK
  <2>2. HoldsBlocking' /\ NeverPopsEmpty'
    BY <1>2 DEF Notify, HoldsBlocking, NeverPopsEmpty
  <2>3. SleepsInv'
    BY <1>2 DEF Notify, HoldsBlocking, SleepsInv
  <2> QED
    BY <2>1, <2>2, <2>3
<1>3. CASE WaitTest
  BY <1>3 DEF WaitTest, TypeOK, HoldsBlocking, NeverPopsEmpty, SleepsInv
<1>4. CASE LockBlocking
  BY <1>4 DEF LockBlocking, TypeOK, HoldsBlocking, NeverPopsEmpty, SleepsInv
<1>5. CASE Sleep
  BY <1>5 DEF Sleep, TypeOK, HoldsBlocking, NeverPopsEmpty, SleepsInv
<1>6. CASE Wake \/ WakeSpuriously
  BY <1>6 DEF Wake, WakeSpuriously, TypeOK, HoldsBlocking, NeverPopsEmpty, SleepsInv
<1>7. CASE LoopTest
  BY <1>7 DEF LoopTest, UpdateStarts, TypeOK, HoldsBlocking, NeverPopsEmpty, SleepsInv
<1>8. CASE PopFront
  <2>1. Head(deqQueue) \in Items /\ Tail(deqQueue) \in Seq(Items)
    BY <1>8, HeadTailProperties DEF PopFront, TypeOK
  <2>2. handled' \in Seq(Items)
    BY <1>8, <2>1 DEF PopFront, TypeOK
  <2> QED
    BY <1>8, <2>1, <2>2 DEF PopFront, TypeOK, HoldsBlocking, NeverPopsEmpty, SleepsInv
<1>9. CASE UNCHANGED vars
  BY <1>9 DEF vars, TypeOK, HoldsBlocking, NeverPopsEmpty, SleepsInv
<1> QED
  BY <1>1, <1>2, <1>3, <1>4, <1>5, <1>6, <1>7, <1>8, <1>9 DEF Next, Update

\* The types of the queue, and the invariant the others follow from.
THEOREM QueueInvariant == Spec => []QueueInv
<1>1. QueueInv /\ [Next]_vars => QueueInv'
  BY QueueInvNext
<1> QED
  BY <1>1, QueueInvInit, PTL DEF Spec

\* The queue, its mutexes and the threads' places keep their types.
THEOREM QueueTypeOK == Spec => []TypeOK
<1>1. QueueInv => TypeOK
  BY DEF QueueInv
<1> QED
  BY <1>1, QueueInvariant, PTL

\* Update never calls front() on an empty queue (server_base.h), although its
\* test and its pop are two critical sections.
THEOREM QueueNeverPopsEmpty == Spec => []NeverPopsEmpty
<1>1. QueueInv => NeverPopsEmpty
  BY DEF QueueInv
<1> QED
  BY <1>1, QueueInvariant, PTL

\* The one way to sleep over a non-empty queue is a notification between empty()
\* and the lock in wait() (net_tsqueue.h).
THEOREM QueueSleepsOnlyByWindow == Spec => []SleepsOnlyByWindow
<1>1. QueueInv => SleepsOnlyByWindow
  BY DEF QueueInv, SleepsInv, SleepsOnlyByWindow
<1> QED
  BY <1>1, QueueInvariant, PTL

-----------------------------------------------------------------------------
(* The queue implements FifoQueue. *)

\* Every item comes out once, in the order of the pushes: what Emplace appends
\* and PopFront takes is one sequence, whatever the threads do in between.
THEOREM QueueFifoOrder == Spec => FifoOrder
<1>1. Init => Fifo!Init
  BY DEF Init, Fifo!Init
<1>2. ASSUME QueueInv, [Next]_vars
      PROVE  [Fifo!Next]_(Fifo!vars)
  <2>1. deqQueue \in Seq(Items) /\ handled \in Seq(Items)
    BY <1>2 DEF QueueInv, TypeOK
  <2>2. ASSUME NEW p \in Producers, Emplace(p)
        PROVE  Fifo!Give
    <3>1. Item(p, pushed[p] + 1) \in Items
      BY <1>2, <2>2, ThreadsDiffer DEF Emplace, QueueInv, TypeOK, Item, Items
    <3>2. handled' \o deqQueue' = Append(handled \o deqQueue, Item(p, pushed[p] + 1))
      BY <2>1, <2>2, <3>1, PushIsGive DEF Emplace
    <3> QED
      BY <2>2, <3>1, <3>2 DEF Fifo!Give, Emplace
  <2>3. CASE PopFront
    <3>1. deqQueue # <<>>
      BY <2>3 DEF PopFront
    <3>2. handled' \o deqQueue' = handled \o deqQueue
      BY <2>1, <2>3, <3>1, PopMovesHead DEF PopFront
    <3>3. /\ Len(handled) < Len(handled \o deqQueue)
          /\ handled' = Append(handled, (handled \o deqQueue)[Len(handled) + 1])
      BY <2>1, <2>3, <3>1, PopMovesHead DEF PopFront
    <3> QED
      BY <3>2, <3>3 DEF Fifo!Take, Fifo!Next
  <2>4. CASE UNCHANGED <<deqQueue, handled>>
    BY <2>4 DEF Fifo!vars
  <2> QED
    BY <1>2, <2>2, <2>3, <2>4
       DEF Next, Update, Notify, WaitTest, LockBlocking, Sleep, Wake,
           WakeSpuriously, LoopTest, vars, Fifo!Next
<1> QED
  BY <1>1, <1>2, QueueInvariant, PTL DEF Spec, FifoOrder, Fifo!Spec
=============================================================================

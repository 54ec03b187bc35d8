------------------------------- MODULE TsQueue -------------------------------
(***************************************************************************)
(* tsqueue<T> as the servers use it (net_tsqueue.h): io threads push       *)
(* received packets, the main thread takes them out in Update.  One action *)
(* per critical section, so every interleaving of the two mutexes and the  *)
(* condition variable is explored.                                         *)
(*                                                                         *)
(* push_back takes muxQueue, appends, and takes muxBlocking to notify      *)
(* before it lets go of either.  wait() tests empty() under muxQueue and   *)
(* sleeps under muxBlocking: the two are not one step.                     *)
(***************************************************************************)
EXTENDS Naturals, Sequences

CONSTANTS
    Producers,    \* the threads that push
    Consumer,     \* the thread that calls Update
    NoThread,     \* the owner of a free mutex
    WaitArguments,  \* the bWait of Update: TRUE in the login server's loop, FALSE
                    \* in the world server's
    MaxItems      \* bound on what one producer pushes

ASSUME ThreadsDiffer ==
    /\ Consumer \notin Producers
    /\ NoThread \notin Producers \cup {Consumer}
    /\ WaitArguments \in SUBSET BOOLEAN \ {{}}
    /\ MaxItems \in Nat

VARIABLES
    deqQueue,     \* the queue
    muxQueue,     \* the thread that holds muxQueue
    muxBlocking,  \* the thread that holds muxBlocking
    producerAt,   \* where each producer is: "outside", or at "notify"
    consumerAt,   \* where the consumer is in Update and wait()
    pushed,       \* how many items each producer has pushed
    handled,      \* the items passed to OnMessage
    missed        \* auxiliary: since the last test of empty(), a notification
                  \* came when the consumer did not yet hold muxBlocking

vars == <<deqQueue, muxQueue, muxBlocking, producerAt, consumerAt, pushed,
          handled, missed>>

ConsumerPlaces == {"wait", "lock", "enter", "asleep", "woken", "loop", "pop"}

\* Where a call of Update begins.
UpdateStarts == {IF bWait THEN "wait" ELSE "loop" : bWait \in WaitArguments}

Item(p, n) == [from |-> p, number |-> n]
Items == [from : Producers, number : 1..MaxItems]

Init ==
    /\ deqQueue = <<>>
    /\ muxQueue = NoThread
    /\ muxBlocking = NoThread
    /\ producerAt = [p \in Producers |-> "outside"]
    /\ consumerAt \in UpdateStarts
    /\ pushed = [p \in Producers |-> 0]
    /\ handled = <<>>
    /\ missed = FALSE

-----------------------------------------------------------------------------
(* push_back *)

EmplaceFront(p) ==
    /\ producerAt[p] = "outside"
    /\ pushed[p] < MaxItems
    /\ muxQueue = NoThread
    /\ muxQueue' = p
    /\ deqQueue' = <<Item(p, pushed[p] + 1)>> \o deqQueue
    /\ pushed' = [pushed EXCEPT ![p] = @ + 1]
    /\ producerAt' = [producerAt EXCEPT ![p] = "notify"]
    /\ UNCHANGED <<muxBlocking, consumerAt, handled, missed>>

Emplace(p) ==
    /\ producerAt[p] = "outside"
    /\ pushed[p] < MaxItems
    /\ muxQueue = NoThread
    /\ muxQueue' = p
    /\ deqQueue' = Append(deqQueue, Item(p, pushed[p] + 1))
    /\ pushed' = [pushed EXCEPT ![p] = @ + 1]
    /\ producerAt' = [producerAt EXCEPT ![p] = "notify"]
    /\ UNCHANGED <<muxBlocking, consumerAt, handled, missed>>

NotifyWithoutLock(p) ==
    /\ producerAt[p] = "notify"
    /\ consumerAt' = IF consumerAt = "asleep" THEN "woken" ELSE consumerAt
    /\ missed' = (missed \/ consumerAt = "lock")
    /\ muxQueue' = NoThread
    /\ producerAt' = [producerAt EXCEPT ![p] = "outside"]
    /\ UNCHANGED <<deqQueue, muxBlocking, pushed, handled>>

\* Takes muxBlocking, notifies, and lets go of both mutexes.
Notify(p) ==
    /\ producerAt[p] = "notify"
    /\ muxBlocking = NoThread
    /\ consumerAt' = IF consumerAt = "asleep" THEN "woken" ELSE consumerAt
    /\ missed' = (missed \/ consumerAt = "lock")
    /\ muxQueue' = NoThread
    /\ producerAt' = [producerAt EXCEPT ![p] = "outside"]
    /\ UNCHANGED <<deqQueue, muxBlocking, pushed, handled>>

-----------------------------------------------------------------------------
(* wait *)

\* while (empty())
WaitTest ==
    /\ consumerAt = "wait"
    /\ muxQueue = NoThread
    /\ consumerAt' = IF deqQueue = <<>> THEN "lock" ELSE "loop"
    /\ missed' = FALSE
    /\ UNCHANGED <<deqQueue, muxQueue, muxBlocking, producerAt, pushed, handled>>

LockBlocking ==
    /\ consumerAt = "lock"
    /\ muxBlocking = NoThread
    /\ muxBlocking' = Consumer
    /\ consumerAt' = "enter"
    /\ UNCHANGED <<deqQueue, muxQueue, producerAt, pushed, handled, missed>>

\* cvBlocking.wait releases muxBlocking and sleeps in one step.
Sleep ==
    /\ consumerAt = "enter"
    /\ muxBlocking' = NoThread
    /\ consumerAt' = "asleep"
    /\ UNCHANGED <<deqQueue, muxQueue, producerAt, pushed, handled, missed>>

\* A condition variable may wake on its own.
WakeSpuriously ==
    /\ consumerAt = "asleep"
    /\ consumerAt' = "woken"
    /\ UNCHANGED <<deqQueue, muxQueue, muxBlocking, producerAt, pushed, handled,
                   missed>>

\* cvBlocking.wait takes muxBlocking again, the end of the body drops it.
Wake ==
    /\ consumerAt = "woken"
    /\ muxBlocking = NoThread
    /\ consumerAt' = "wait"
    /\ UNCHANGED <<deqQueue, muxQueue, muxBlocking, producerAt, pushed, handled,
                   missed>>

-----------------------------------------------------------------------------
(* The loop of Update, with nMaxMessages = -1, and the next call of Update. *)

LoopTestTwice ==
    /\ consumerAt = "loop"
    /\ muxQueue = NoThread
    /\ consumerAt' \in IF deqQueue # <<>> \/ handled # <<>> THEN {"pop"} ELSE UpdateStarts
    /\ UNCHANGED <<deqQueue, muxQueue, muxBlocking, producerAt, pushed, handled,
                   missed>>

LoopTestOffByOne ==
    /\ consumerAt = "loop"
    /\ muxQueue = NoThread
    /\ consumerAt' \in IF Len(deqQueue) > 1 THEN {"pop"} ELSE UpdateStarts
    /\ UNCHANGED <<deqQueue, muxQueue, muxBlocking, producerAt, pushed, handled,
                   missed>>

LoopTest ==
    /\ consumerAt = "loop"
    /\ muxQueue = NoThread
    /\ consumerAt' \in IF deqQueue # <<>> THEN {"pop"} ELSE UpdateStarts
    /\ UNCHANGED <<deqQueue, muxQueue, muxBlocking, producerAt, pushed, handled,
                   missed>>

\* pop_front, then OnMessage or ProcessPacket.
PopFront ==
    /\ consumerAt = "pop"
    /\ muxQueue = NoThread
    /\ deqQueue # <<>>
    /\ handled' = Append(handled, Head(deqQueue))
    /\ deqQueue' = Tail(deqQueue)
    /\ consumerAt' = "loop"
    /\ UNCHANGED <<muxQueue, muxBlocking, producerAt, pushed, missed>>

-----------------------------------------------------------------------------
Update ==
    WaitTest \/ LockBlocking \/ Sleep \/ Wake \/ LoopTest \/ PopFront

Next ==
    \/ \E p \in Producers : Emplace(p) \/ Notify(p)
    \/ Update
    \/ WakeSpuriously

Spec == Init /\ [][Next]_vars

\* Threads that are inside push_back or Update go on; nobody has to push, and a
\* spurious wake-up need never come.
Fairness ==
    /\ \A p \in Producers : WF_vars(Notify(p))
    /\ WF_vars(Update)

FairSpec == Spec /\ Fairness

-----------------------------------------------------------------------------
(* Properties. *)

\* The queue, the mutexes and the threads' places keep their types.
TypeOK ==
    /\ deqQueue \in Seq(Items)
    /\ muxQueue \in Producers \cup {NoThread}
    /\ muxBlocking \in {Consumer, NoThread}
    /\ producerAt \in [Producers -> {"outside", "notify"}]
    /\ consumerAt \in ConsumerPlaces
    /\ pushed \in [Producers -> 0..MaxItems]
    /\ handled \in Seq(Items)
    /\ missed \in BOOLEAN

\* empty() and pop_front() are two critical sections; the queue is never empty at
\* the second, where front() would be undefined.
NeverPopsEmpty == consumerAt = "pop" => deqQueue # <<>>

\* The consumer sleeps over a non-empty queue only if a notification fell between
\* its test of empty() and its taking muxBlocking: notifying under muxBlocking
\* closes every other way to lose one.
SleepsOnlyByWindow ==
    consumerAt = "asleep" /\ deqQueue # <<>> =>
        missed \/ \E p \in Producers : producerAt[p] = "notify"

\* The queue hands over every item once, in the order of the pushes.
Fifo == INSTANCE FifoQueue WITH
    given <- handled \o deqQueue,
    taken <- handled
FifoOrder == Fifo!Spec

\* Every item is handled in the end, unless wait() missed its notification; a
\* consumer that polls cannot miss one.
HandledUnlessMissed ==
    \A item \in Items :
        pushed[item.from] >= item.number
            ~> \/ \E i \in DOMAIN handled : handled[i] = item
               \/ consumerAt = "asleep" /\ missed

\* Claims of the comments that the code does not keep.

\* "Thread safe queue for incoming packet packets": every item that is pushed is
\* handled in the end.
EveryItemHandled == Fifo!FairSpec
=============================================================================

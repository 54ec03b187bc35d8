------------------------------- MODULE GameLoop -------------------------------
(***************************************************************************)
(* The loop of ArcheCore.WorldServer's main(): a fixed time step with an   *)
(* accumulator, which drains the queues of the two servers in every update *)
(* and sleeps for what is left of the step.  Time is counted in hundredths *)
(* of a second and kept relative to the clock's last reading, so that the  *)
(* loop can run for ever.  The tick numbers, which are only logged, are    *)
(* left out.                                                               *)
(***************************************************************************)
EXTENDS Integers, FiniteSets

CONSTANTS
    Dt,          \* 10: one update, 1 / FPS of a second
    MinFps,      \* 25: the longest frame that is made up for, a quarter second
    StartUps,    \* how long Start() of both servers may take
    Costs,       \* how long the handling of a packet may take
    Overruns,    \* how much longer than asked for sleep_for may take
    MaxArrivals  \* bound on the packets of a pass

ASSUME TimesOK ==
    /\ Dt \in Nat /\ MinFps \in Nat /\ MaxArrivals \in Nat
    /\ 2 < Dt /\ Dt <= MinFps
    /\ StartUps \subseteq Nat /\ Costs \subseteq Nat /\ Overruns \subseteq Nat

VARIABLES
    pc,          \* where main() is
    since,       \* the time gone since currentTime
    accumulator,
    updates,     \* the updates of this pass of the loop
    queues,      \* the length of m_qMessagesIn of each server
    arrivals,    \* what may still arrive in this pass
    debt,        \* ghost: the time gone less the updates made and the time dropped
    cost         \* ghost: what the last pass that updated took, and its overrun

vars == <<pc, since, accumulator, updates, queues, arrivals, debt, cost>>

Servers == {"world", "stream"}
Places == {"start", "pass", "ticks", "returned"} \cup Servers
Running == pc \notin {"start", "returned"}

Init ==
    /\ pc = "start"
    /\ since = 0
    /\ accumulator = 0
    /\ updates = 0
    /\ queues = [s \in Servers |-> 0]
    /\ arrivals = MaxArrivals
    /\ debt = 0
    /\ cost = 0

\* Time goes by while the clock is not read.
Elapse(d) ==
    /\ since' = since + d
    /\ debt' = debt + d

-----------------------------------------------------------------------------

\* currentTime is read before the servers start, so the start is part of the first
\* frame.
Start ==
    /\ pc = "start"
    /\ \E d \in StartUps :
          /\ Elapse(d)
          /\ cost' = d
    /\ pc' = "pass"
    /\ UNCHANGED <<accumulator, updates, queues, arrivals>>

\* Start() of either server returns false, and main() returns.
StartFails ==
    /\ pc = "start"
    /\ pc' = "returned"
    /\ UNCHANGED <<since, accumulator, updates, queues, arrivals, debt, cost>>

\* An io thread puts a packet into its server's queue.
Arrive(s) ==
    /\ Running
    /\ arrivals > 0
    /\ arrivals' = arrivals - 1
    /\ queues' = [queues EXCEPT ![s] = @ + 1]
    /\ UNCHANGED <<pc, since, accumulator, updates, debt, cost>>

Unclamped(frameTime) == frameTime
Clamped(frameTime) == IF frameTime > MinFps THEN MinFps ELSE frameTime

MeasureForgetsTime ==
    /\ pc = "pass"
    /\ accumulator' = accumulator + Clamped(since)
    /\ debt' = debt - (since - Clamped(since))
    /\ updates' = 0
    /\ arrivals' = MaxArrivals
    /\ pc' = "ticks"
    /\ UNCHANGED <<since, queues, cost>>

Measure ==
    /\ pc = "pass"
    /\ accumulator' = accumulator + Clamped(since)
    /\ debt' = debt - (since - Clamped(since))
    /\ since' = 0
    /\ updates' = 0
    /\ arrivals' = MaxArrivals
    /\ pc' = "ticks"
    /\ UNCHANGED <<queues, cost>>

\* The inner loop begins an update: worldServer.Update.
Tick ==
    /\ pc = "ticks"
    /\ accumulator >= Dt
    /\ updates' = updates + 1
    /\ cost' = IF updates = 0 THEN 0 ELSE cost
    /\ pc' = "world"
    /\ UNCHANGED <<since, accumulator, queues, arrivals, debt>>

\* bWait, with which Update would first wait for a packet.
WaitsFirst(s) == queues[s] = 0 /\ updates = 1
Waits(s) == FALSE

\* Update takes packets until it finds the queue empty, however many come.
Handle(s) ==
    /\ pc = s
    /\ queues[s] > 0
    /\ queues' = [queues EXCEPT ![s] = @ - 1]
    /\ \E d \in Costs :
          /\ Elapse(d)
          /\ cost' = cost + d
    /\ UNCHANGED <<pc, accumulator, updates, arrivals>>

WorldDone ==
    /\ pc = "world"
    /\ queues["world"] = 0
    /\ ~Waits("world")
    /\ pc' = "stream"
    /\ UNCHANGED <<since, accumulator, updates, queues, arrivals, debt, cost>>

\* streamServer.Update ends; worldManager.Update does nothing.
StreamDone ==
    /\ pc = "stream"
    /\ queues["stream"] = 0
    /\ ~Waits("stream")
    /\ accumulator' = accumulator - Dt
    /\ debt' = debt - Dt
    /\ pc' = "ticks"
    /\ UNCHANGED <<since, updates, queues, arrivals, cost>>

\* The rest of the step is slept but for its last hundredth; when at most two are
\* left the loop spins, here for one hundredth at a time.
SleepTimeLong(timeLeft) == timeLeft + 1
SleepTime(timeLeft) == timeLeft - 1
Rest ==
    /\ pc = "ticks"
    /\ accumulator < Dt
    /\ LET timeLeft == Dt - accumulator
       IN  IF timeLeft > 2
           THEN \E over \in Overruns :
                   /\ Elapse(SleepTime(timeLeft) + over)
                   /\ cost' = (IF updates = 0 THEN 0 ELSE cost) + over
           ELSE /\ Elapse(1)
                /\ cost' = IF updates = 0 THEN 0 ELSE cost
    /\ pc' = "pass"
    /\ UNCHANGED <<accumulator, updates, queues, arrivals>>

Main ==
    \/ Start
    \/ Measure
    \/ Tick
    \/ \E s \in Servers : Handle(s)
    \/ WorldDone
    \/ StreamDone
    \/ Rest

Next == Main \/ StartFails \/ \E s \in Servers : Arrive(s)

\* The main thread goes on; no packet need ever come.
Spec == Init /\ [][Next]_vars /\ WF_vars(Main)

-----------------------------------------------------------------------------
(* Properties. *)

TypeOK ==
    /\ pc \in Places
    /\ since \in Nat
    /\ accumulator \in 0..(Dt + MinFps - 1)
    /\ updates \in Nat
    /\ queues \in [Servers -> Nat]
    /\ arrivals \in 0..MaxArrivals
    /\ debt \in Int
    /\ cost \in Nat

\* The fixed time step of the README: the game is neither ahead of real time nor
\* behind it by more than the clock's reading and what the accumulator holds, but
\* for frames longer than a quarter second, whose rest is dropped.
KeepsRealTime == debt = accumulator + since

\* After a stall the loop catches up with a few updates, never with a long burst.
CatchesUpBriefly == updates * Dt < Dt + MinFps

\* The sleep is computed from a clock read before the updates.  Still an update is
\* late by no more than the packets of the pass before and the sleep's own overrun
\* took.
LatenessExplained ==
    pc = "ticks" /\ updates = 0 /\ accumulator > Dt => accumulator - Dt <= cost

\* A server with no packets does not keep the loop from the other one: whatever is
\* queued is handled, as long as packets do not come faster than they are handled.
QueuesDrained ==
    \A s \in Servers : queues[s] > 0 ~> queues[s] = 0
=============================================================================

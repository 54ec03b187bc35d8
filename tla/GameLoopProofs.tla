--------------------------- MODULE GameLoopProofs ---------------------------
(***************************************************************************)
(* The main loop for every time step, every longest frame and whatever the *)
(* start, the packets and the sleeps take.                                 *)
(***************************************************************************)
EXTENDS GameLoop, TLAPS

\* What is left in the accumulator fits the place main() is at: a whole step while
\* an update runs, less than one when the loop comes round.
AccumulatorFits ==
    /\ pc = "start" => accumulator = 0 /\ since = 0
    /\ pc = "pass" => accumulator < Dt
    /\ pc \in Servers => Dt <= accumulator

\* The updates made and the updates due came from one clamped frame and less than
\* a step left over; an update that runs is counted among both.
UpdatesFit ==
    /\ pc \notin Servers => updates * Dt + accumulator < Dt + MinFps
    /\ pc \in Servers => updates * Dt + accumulator < Dt + Dt + MinFps

\* Time passes in a pass that updates only by handling packets, and what the
\* clock shows on the way back is the step, its overrun and that time.
TimeAccounted ==
    /\ pc = "pass" => accumulator + since <= Dt + cost
    /\ pc = "ticks" /\ updates = 0 => since = 0 /\ accumulator <= Dt + cost
    /\ pc = "ticks" /\ updates > 0 => since <= cost
    /\ pc \in Servers => updates > 0 /\ since <= cost

LoopInv ==
    TypeOK /\ KeepsRealTime /\ AccumulatorFits /\ UpdatesFit /\ TimeAccounted

LEMMA LoopInvInit == Init => LoopInv
<1> SUFFICES ASSUME Init PROVE LoopInv
  OBVIOUS
<1>1. TypeOK
  BY TimesOK DEF Init, TypeOK, Places, Servers
<1>2. KeepsRealTime /\ AccumulatorFits /\ UpdatesFit /\ TimeAccounted
  BY TimesOK DEF Init, KeepsRealTime, AccumulatorFits, UpdatesFit, TimeAccounted, Servers
<1> QED
  BY <1>1, <1>2 DEF LoopInv

\* A frame counts for what it took, or for the longest that is made up for.
LEMMA ClampedFits ==
    ASSUME NEW frameTime \in Nat
    PROVE  Clamped(frameTime) \in 0..MinFps /\ Clamped(frameTime) <= frameTime
  BY TimesOK DEF Clamped

LEMMA LoopInvNext ==
    ASSUME LoopInv, [Next]_vars
    PROVE  LoopInv'
<1> USE TimesOK DEF LoopInv
<1>1. CASE Start
  <2>1. PICK d \in StartUps : Elapse(d) /\ cost' = d
    BY <1>1 DEF Start
  <2>2. d \in Nat
    OBVIOUS
  <2>3. TypeOK' /\ KeepsRealTime'
    BY <1>1, <2>1, <2>2 DEF Start, Elapse, TypeOK, KeepsRealTime, Places
  <2>4. since = 0
    BY <1>1 DEF Start, AccumulatorFits
  <2>5. AccumulatorFits' /\ UpdatesFit' /\ TimeAccounted'
    BY <1>1, <2>1, <2>2, <2>4
    DEF Start, Elapse, TypeOK, Servers, AccumulatorFits, UpdatesFit, TimeAccounted
  <2> QED
    BY <2>3, <2>5
<1>2. CASE StartFails
  BY <1>2
  DEF StartFails, TypeOK, Places, Servers, KeepsRealTime, AccumulatorFits, UpdatesFit,
      TimeAccounted
<1>3. ASSUME NEW s \in Servers, Arrive(s)
      PROVE  LoopInv'
  <2>1. queues' \in [Servers -> Nat] /\ arrivals' \in 0..MaxArrivals
    BY <1>3 DEF Arrive, TypeOK
  <2> QED
    BY <1>3, <2>1
    DEF Arrive, TypeOK, KeepsRealTime, AccumulatorFits, UpdatesFit, TimeAccounted
<1>4. CASE Measure
  <2>1. Clamped(since) \in 0..MinFps /\ Clamped(since) <= since
    BY ClampedFits DEF TypeOK
  <2>2. accumulator' = accumulator + Clamped(since) /\ accumulator < Dt
    BY <1>4 DEF Measure, AccumulatorFits
  <2>3. TypeOK' /\ KeepsRealTime'
    BY <1>4, <2>1, <2>2 DEF Measure, TypeOK, KeepsRealTime, Places
  <2>4. AccumulatorFits' /\ UpdatesFit' /\ TimeAccounted'
    BY <1>4, <2>1, <2>2
    DEF Measure, TypeOK, Servers, AccumulatorFits, UpdatesFit, TimeAccounted
  <2> QED
    BY <2>3, <2>4
<1>5. CASE Tick
  <2>1. updates' * Dt = updates * Dt + Dt
    BY <1>5 DEF Tick, TypeOK
  <2>2. TypeOK' /\ KeepsRealTime' /\ AccumulatorFits' /\ TimeAccounted'
    BY <1>5
    DEF Tick, TypeOK, KeepsRealTime, Places, Servers, AccumulatorFits, TimeAccounted
  <2>3. UpdatesFit'
    <3>1. updates * Dt \in Nat /\ updates * Dt + accumulator < Dt + MinFps
      BY <1>5 DEF Tick, TypeOK, Servers, UpdatesFit
    <3> QED
      BY <1>5, <2>1, <3>1 DEF Tick, TypeOK, UpdatesFit, Servers
  <2> QED
    BY <2>2, <2>3
<1>6. ASSUME NEW s \in Servers, Handle(s)
      PROVE  LoopInv'
  <2>1. PICK d \in Costs : Elapse(d) /\ cost' = cost + d
    BY <1>6 DEF Handle
  <2>2. d \in Nat
    OBVIOUS
  <2>3. queues' \in [Servers -> Nat]
    BY <1>6 DEF Handle, TypeOK
  <2>4. TypeOK' /\ KeepsRealTime'
    BY <1>6, <2>1, <2>2, <2>3 DEF Handle, Elapse, TypeOK, KeepsRealTime
  <2>5. AccumulatorFits' /\ UpdatesFit' /\ TimeAccounted'
    BY <1>6, <2>1, <2>2
    DEF Handle, Elapse, TypeOK, Servers, AccumulatorFits, UpdatesFit, TimeAccounted
  <2> QED
    BY <2>4, <2>5
<1>7. CASE WorldDone
  BY <1>7
  DEF WorldDone, TypeOK, Places, Servers, KeepsRealTime, AccumulatorFits, UpdatesFit,
      TimeAccounted
<1>8. CASE StreamDone
  <2>1. TypeOK' /\ KeepsRealTime'
    BY <1>8 DEF StreamDone, TypeOK, KeepsRealTime, AccumulatorFits, Places, Servers
  <2>2. UpdatesFit'
    <3>1. updates * Dt \in Nat /\ updates * Dt + accumulator < Dt + Dt + MinFps
      BY <1>8 DEF StreamDone, TypeOK, UpdatesFit, Servers
    <3> QED
      BY <1>8, <3>1 DEF StreamDone, TypeOK, UpdatesFit, Servers
  <2>3. AccumulatorFits' /\ TimeAccounted'
    BY <1>8 DEF StreamDone, TypeOK, Servers, AccumulatorFits, TimeAccounted
  <2> QED
    BY <2>1, <2>2, <2>3
<1>9. CASE Rest
  <2>1. /\ since <= cost \/ (updates = 0 /\ since = 0)
        /\ accumulator \in Nat /\ accumulator < Dt
    BY <1>9 DEF Rest, TypeOK, TimeAccounted
  <2>2. CASE Dt - accumulator > 2
    <3>1. PICK over \in Overruns :
             /\ Elapse(SleepTime(Dt - accumulator) + over)
             /\ cost' = (IF updates = 0 THEN 0 ELSE cost) + over
      BY <1>9, <2>2 DEF Rest
    <3>2. over \in Nat
      OBVIOUS
    <3>3. since' = since + (Dt - accumulator - 1) + over
      BY <2>1, <3>1, <3>2 DEF Elapse, SleepTime, TypeOK
    <3>4. TypeOK' /\ KeepsRealTime'
      BY <1>9, <2>1, <2>2, <3>1, <3>2
      DEF Rest, Elapse, SleepTime, TypeOK, KeepsRealTime, Places
    <3>5. TimeAccounted'
      BY <1>9, <2>1, <3>1, <3>2, <3>3 DEF Rest, TypeOK, Servers, TimeAccounted
    <3>6. AccumulatorFits' /\ UpdatesFit'
      BY <1>9 DEF Rest, Servers, AccumulatorFits, UpdatesFit
    <3> QED
      BY <3>4, <3>5, <3>6
  <2>3. CASE ~(Dt - accumulator > 2)
    <3>1. Elapse(1) /\ cost' = IF updates = 0 THEN 0 ELSE cost
      BY <1>9, <2>3 DEF Rest
    <3>2. TypeOK' /\ KeepsRealTime'
      BY <1>9, <3>1 DEF Rest, Elapse, TypeOK, KeepsRealTime, Places
    <3>3. TimeAccounted'
      BY <1>9, <2>1, <3>1 DEF Rest, Elapse, TypeOK, Servers, TimeAccounted
    <3>4. AccumulatorFits' /\ UpdatesFit'
      BY <1>9 DEF Rest, Servers, AccumulatorFits, UpdatesFit
    <3> QED
      BY <3>2, <3>3, <3>4
  <2> QED
    BY <2>2, <2>3
<1>10. CASE UNCHANGED vars
  BY <1>10
  DEF vars, TypeOK, KeepsRealTime, AccumulatorFits, UpdatesFit, TimeAccounted
<1> QED
  BY <1>1, <1>2, <1>3, <1>4, <1>5, <1>6, <1>7, <1>8, <1>9, <1>10 DEF Next, Main

\* The four parts of the invariant hold in every state of the loop.
LEMMA LoopInvAlways == Spec => []LoopInv
  BY LoopInvInit, LoopInvNext, PTL DEF Spec

\* The members of main() keep their types; the accumulator stays below a step and a
\* clamped frame, so that a stall is never remembered for longer than a quarter second.
THEOREM LoopTypes == Spec => []TypeOK
<1>1. LoopInv => TypeOK
  BY DEF LoopInv
<1> QED
  BY <1>1, LoopInvAlways, PTL

\* The game is behind the clock by exactly what the accumulator and the unread time
\* hold, but for what long frames dropped: no step is counted twice or lost between
\* the frames (currentTime, accumulator and dt of main()).
THEOREM LoopKeepsRealTime == Spec => []KeepsRealTime
<1>1. LoopInv => KeepsRealTime
  BY DEF LoopInv
<1> QED
  BY <1>1, LoopInvAlways, PTL

\* A pass of the loop makes at most as many updates as a quarter second has steps,
\* and one for what was left over, however long the frame before it took.
THEOREM LoopCatchesUpBriefly == Spec => []CatchesUpBriefly
<1>1. LoopInv => CatchesUpBriefly
  BY TimesOK
  DEF LoopInv, TypeOK, Servers, AccumulatorFits, UpdatesFit, CatchesUpBriefly
<1> QED
  BY <1>1, LoopInvAlways, PTL

\* An update comes late only by what the packets of the last pass and the overrun of
\* its sleep took, although timeLeft is computed from a clock read before the updates.
THEOREM LoopLatenessExplained == Spec => []LatenessExplained
<1>1. LoopInv => LatenessExplained
  BY TimesOK DEF LoopInv, TypeOK, TimeAccounted, LatenessExplained
<1> QED
  BY <1>1, LoopInvAlways, PTL
=============================================================================

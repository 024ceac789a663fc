--------------------------- MODULE HeartbeatProofs ---------------------------
(***************************************************************************)
(* Proofs about Heartbeat, for every interval, timeout, lag, delay and      *)
(* number of lost exchanges that HeartbeatAssumption allows: a server that  *)
(* is down is declared dead in time and, when the timeout tolerates what is *)
(* lost, one that is up never is.                                           *)
(***************************************************************************)
EXTENDS Heartbeat, TLAPS

\* A tick is handled in its time, and before the next Ping is due its predecessor
\* was answered or lost: the exchanges of a stream do not overlap.
TicksInOrder ==
  /\ pingDue \/ awaiting => sincePing \in 0..Delay
  /\ awaiting => ~pingDue
  /\ checkDue => sinceCheck \in 0..Lag

\* While the server is up the silence is explained by the exchanges lost, by the one
\* that is due or under way, and by the tickers' start after the first stamp.
SilenceExplained ==
  server = "up" =>
    IF pingDue \/ awaiting THEN silence <= (lost + 1) * Interval + sincePing + Lag
    ELSE silence <= lost * Interval + sincePing + Lag

\* What the monitor has not acted upon is bounded by what passed since its check.
SilenceChecked ==
  stream = "open" =>
    IF checkDue THEN silence <= Timeout + Interval + sinceCheck
    ELSE silence <= Timeout + sinceCheck

\* A server that went down answered nothing later than the exchange under way.
DeathIsSilent ==
  /\ server = "up" => down = 0
  /\ down <= silence + Delay
  /\ awaiting => down <= sincePing

\* The inductive invariant: NoFalseAlarm needs SilenceExplained, DetectionBound
\* needs SilenceChecked and DeathIsSilent, and they all need TicksInOrder.
IInv ==
  /\ TypeOK /\ TicksInOrder /\ NoFalseAlarm
  /\ SilenceExplained /\ SilenceChecked /\ DeathIsSilent

-----------------------------------------------------------------------------
(* Arithmetic of the one product in the model                               *)

\* One more exchange allows one more interval of silence.
LEMMA AllowedStep ==
  ASSUME NEW n \in Nat
  PROVE  /\ n * Interval \in Nat
         /\ (n + 1) * Interval = n * Interval + Interval
BY HeartbeatAssumption

\* No number of exchanges up to MaxLost + 1 allows more than what is tolerated.
LEMMA AllowedBelowTimeout ==
  ASSUME Tolerates, NEW n \in Nat, n <= MaxLost + 1
  PROVE  n * Interval + Delay + Lag <= Timeout
<1>1. PICK d \in Nat : MaxLost + 1 = n + d
  <2> DEFINE rest == MaxLost + 1 - n
  <2>1. rest \in Nat /\ MaxLost + 1 = n + rest
    BY HeartbeatAssumption
  <2> QED
    BY <2>1
<1>2. (n + d) * Interval = n * Interval + d * Interval
  BY HeartbeatAssumption
<1>3. d * Interval \in Nat /\ n * Interval \in Nat
  BY HeartbeatAssumption
<1> QED
  BY <1>1, <1>2, <1>3, HeartbeatAssumption DEF Tolerates

-----------------------------------------------------------------------------
\* The initial state satisfies the inductive invariant.
LEMMA InitIInv == Init => IInv
<1> SUFFICES ASSUME Init PROVE IInv
  OBVIOUS
<1>1. Clocks /\ TicksInOrder /\ NoFalseAlarm /\ SilenceChecked /\ DeathIsSilent
  BY HeartbeatAssumption
     DEF Init, Clocks, TicksInOrder, NoFalseAlarm, SilenceChecked, DeathIsSilent
<1>2. SilenceExplained
  BY HeartbeatAssumption, AllowedStep, 0 \in Nat DEF Init, SilenceExplained
<1>3. Flags
  BY DEF Init, Flags
<1> QED
  BY <1>1, <1>2, <1>3 DEF IInv, TypeOK

\* Every step preserves the inductive invariant.
LEMMA NextIInv == IInv /\ [Next]_vars => IInv'
<1> SUFFICES ASSUME IInv, [Next]_vars PROVE IInv'
  OBVIOUS
<1> USE HeartbeatAssumption
<1>0. /\ lost * Interval \in Nat
      /\ (lost + 1) * Interval = lost * Interval + Interval
  BY AllowedStep DEF IInv, TypeOK, Clocks
<1>1. CASE Tick
  <2>0. Flags'
    BY <1>1 DEF Tick, Elapse, IInv, TypeOK, Flags
  <2> USE DEF Advance
  <2>1. Clocks'
    BY <1>1 DEF Tick, Elapse, DownCap, IInv, TypeOK, Clocks
  <2> HIDE DEF Advance
  <2>2. /\ pingDue' <=> pingDue \/ sincePing + 1 = Interval
        /\ checkDue' <=> checkDue \/ sinceCheck + 1 = Interval
        /\ awaiting' <=> awaiting
    BY <1>1 DEF Tick, Elapse
  <2>3. /\ pingDue \/ awaiting => sincePing < Delay
        /\ checkDue => sinceCheck < Lag
        /\ silence' = silence + 1 /\ lost' = lost /\ server' = server /\ stream' = stream
        /\ down' = IF server = "down" /\ down < DownCap THEN down + 1 ELSE down
    BY <1>1 DEF Tick, Elapse
  <2>4. /\ sincePing' = IF sincePing + 1 = Interval THEN 0 ELSE sincePing + 1
        /\ sinceCheck' = IF sinceCheck + 1 = Interval THEN 0 ELSE sinceCheck + 1
    BY <1>1 DEF Tick, Elapse, Advance
  <2>5. TicksInOrder'
    BY <2>2, <2>3, <2>4 DEF IInv, TypeOK, Clocks, TicksInOrder
  <2>6. NoFalseAlarm'
    BY <1>1 DEF Tick, Elapse, IInv, NoFalseAlarm, Tolerates
  <2>7. SilenceExplained'
    BY <1>0, <2>2, <2>3, <2>4 DEF IInv, TypeOK, Clocks, TicksInOrder, SilenceExplained
  <2>8. SilenceChecked'
    BY <2>2, <2>3, <2>4 DEF IInv, TypeOK, Clocks, TicksInOrder, SilenceChecked
  <2>9. DeathIsSilent'
    BY <2>2, <2>3, <2>4 DEF IInv, TypeOK, Clocks, TicksInOrder, DeathIsSilent
  <2> QED
    BY <2>0, <2>1, <2>5, <2>6, <2>7, <2>8, <2>9 DEF IInv, TypeOK
<1>2. CASE PingLoop
  <2>0. Flags'
    BY <1>2 DEF PingLoop, WritePing, IInv, TypeOK, Flags
  <2>1. Clocks' /\ TicksInOrder' /\ NoFalseAlarm'
    BY <1>2 DEF PingLoop, WritePing, IInv, TypeOK, Clocks, TicksInOrder, NoFalseAlarm
  <2>2. SilenceExplained'
    BY <1>0, <1>2 DEF PingLoop, WritePing, IInv, TypeOK, Clocks, SilenceExplained
  <2>3. SilenceChecked'
    BY <1>2 DEF PingLoop, WritePing, IInv, TypeOK, Clocks, SilenceChecked
  <2>4. DeathIsSilent'
    <3>1. awaiting' => server = "up"
      BY <1>2 DEF PingLoop, WritePing
    <3> QED
      BY <1>2, <3>1 DEF PingLoop, WritePing, IInv, TypeOK, Clocks, TicksInOrder, DeathIsSilent
  <2> QED
    BY <2>0, <2>1, <2>2, <2>3, <2>4 DEF IInv, TypeOK
<1>3. CASE ProcessPong
  <2>0. Flags'
    BY <1>3 DEF ProcessPong, IInv, TypeOK, Flags
  <2>1. Clocks' /\ TicksInOrder' /\ NoFalseAlarm'
    BY <1>3 DEF ProcessPong, IInv, TypeOK, Clocks, TicksInOrder, NoFalseAlarm
  <2>2. SilenceExplained'
    BY <1>3, AllowedStep, 0 \in Nat DEF ProcessPong, IInv, TypeOK, Clocks, TicksInOrder, SilenceExplained
  <2>3. SilenceChecked'
    BY <1>3 DEF ProcessPong, IInv, TypeOK, Clocks, SilenceChecked
  <2>4. DeathIsSilent'
    BY <1>3 DEF ProcessPong, IInv, TypeOK, Clocks, TicksInOrder, DeathIsSilent
  <2> QED
    BY <2>0, <2>1, <2>2, <2>3, <2>4 DEF IInv, TypeOK
<1>4. CASE Lose
  <2>0. Flags'
    BY <1>4 DEF Lose, IInv, TypeOK, Flags
  <2>1. Clocks' /\ TicksInOrder' /\ NoFalseAlarm'
    BY <1>4 DEF Lose, IInv, TypeOK, Clocks, TicksInOrder, NoFalseAlarm
  <2>2. SilenceExplained'
    BY <1>0, <1>4 DEF Lose, IInv, TypeOK, Clocks, TicksInOrder, SilenceExplained
  <2>3. SilenceChecked' /\ DeathIsSilent'
    BY <1>4 DEF Lose, IInv, TypeOK, Clocks, SilenceChecked, DeathIsSilent
  <2> QED
    BY <2>0, <2>1, <2>2, <2>3 DEF IInv, TypeOK
<1>5. CASE ServerDies
  <2>0. Flags'
    BY <1>5 DEF ServerDies, IInv, TypeOK, Flags
  <2>1. Clocks' /\ TicksInOrder' /\ NoFalseAlarm'
    <3>1. awaiting' => awaiting
      BY <1>5 DEF ServerDies
    <3> QED
      BY <1>5, <3>1 DEF ServerDies, IInv, TypeOK, Clocks, TicksInOrder, NoFalseAlarm
  <2>2. SilenceExplained' /\ SilenceChecked'
    BY <1>5 DEF ServerDies, IInv, TypeOK, Clocks, SilenceExplained, SilenceChecked
  <2>3. DeathIsSilent'
    <3>1. awaiting' => awaiting
      BY <1>5 DEF ServerDies
    <3>2. server' = "down" /\ server = "up" /\ down' = down /\ silence' = silence /\ sincePing' = sincePing
      BY <1>5 DEF ServerDies
    <3> QED
      BY <3>1, <3>2 DEF IInv, DeathIsSilent
  <2> QED
    BY <2>0, <2>1, <2>2, <2>3 DEF IInv, TypeOK
<1>6. CASE PongMonitor
  <2>1. Tolerates /\ server = "up" => silence <= Timeout
    <3> SUFFICES ASSUME Tolerates, server = "up" PROVE silence <= Timeout
      OBVIOUS
    <3>1. (lost + 1) * Interval + Delay + Lag <= Timeout
      BY AllowedBelowTimeout DEF IInv, TypeOK, Clocks
    <3> QED
      BY <1>0, <1>6, <3>1
         DEF PongMonitor, MonitorCheck, IInv, TypeOK, Clocks, TicksInOrder, SilenceExplained
  <2>0. Flags'
    BY <1>6 DEF PongMonitor, MonitorCheck, IInv, TypeOK, Flags
  <2>2. Clocks' /\ TicksInOrder'
    BY <1>6 DEF PongMonitor, MonitorCheck, IInv, TypeOK, Clocks, TicksInOrder
  <2>3. NoFalseAlarm'
    BY <1>6, <2>1 DEF PongMonitor, MonitorCheck, IInv, TypeOK, Clocks, NoFalseAlarm
  <2>4. SilenceExplained' /\ DeathIsSilent'
    BY <1>6 DEF PongMonitor, MonitorCheck, IInv, SilenceExplained, DeathIsSilent
  <2>5. SilenceChecked'
    BY <1>6 DEF PongMonitor, MonitorCheck, IInv, TypeOK, Clocks, TicksInOrder, SilenceChecked
  <2> QED
    BY <2>0, <2>2, <2>3, <2>4, <2>5 DEF IInv, TypeOK
<1>7. CASE UNCHANGED vars
  BY <1>7 DEF vars, IInv, TypeOK, Flags, Clocks, TicksInOrder, NoFalseAlarm, SilenceExplained, SilenceChecked,
              DeathIsSilent
<1> QED
  BY <1>1, <1>2, <1>3, <1>4, <1>5, <1>6, <1>7 DEF Next

\* The invariant holds in every reachable state of the heartbeat.
THEOREM Invariant == Spec => []IInv
BY InitIInv, NextIInv, PTL DEF Spec

-----------------------------------------------------------------------------
\* Every variable keeps its type, for every interval and timeout.
THEOREM TypeCorrect == Spec => []TypeOK
<1>1. IInv => TypeOK
  BY DEF IInv
<1> QED
  BY <1>1, Invariant, PTL

\* pongMonitor never closes the stream of a server that is up: up to MaxLost
\* exchanges in a row may be lost, whenever the timeout spans MaxLost + 1 intervals,
\* a Pong's delay and the lag of the tickers behind the first stamp.
THEOREM NeverFalseAlarm == Spec => []NoFalseAlarm
<1>1. IInv => NoFalseAlarm
  BY DEF IInv
<1> QED
  BY <1>1, Invariant, PTL

\* A dead server is detected within the timeout, one interval, the monitor's lag and
\* one Pong's delay.
THEOREM DetectedInTime == Spec => []DetectionBound
<1>1. IInv => DetectionBound
  BY HeartbeatAssumption
     DEF IInv, TypeOK, Clocks, TicksInOrder, SilenceChecked, DeathIsSilent, DetectionBound
<1> QED
  BY <1>1, Invariant, PTL
=============================================================================

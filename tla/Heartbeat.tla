------------------------------ MODULE Heartbeat ------------------------------
(***************************************************************************)
(* The timing of the heartbeat of one stream (pkg/rpc/client.go): the       *)
(* stream stamps lastPongTime when it is made, pingLoop and pongMonitor     *)
(* create a ticker each some time later, processPong stamps lastPongTime    *)
(* again, and the monitor closes the stream when, as it handles one of its  *)
(* ticks, more than pongTimeout has passed since the last stamp.            *)
(*                                                                          *)
(* Time is discrete.  What the code does not control is bounded by three    *)
(* constants: how late a ticker is created or its tick handled, the time    *)
(* from a Ping's tick to its Pong being processed, and how many exchanges   *)
(* in a row may be lost while the server is up.                             *)
(***************************************************************************)
EXTENDS Integers

CONSTANTS
  Interval,  \* pingInterval
  Timeout,   \* pongTimeout
  Lag,       \* bound: from the first stamp to a ticker's creation, and from
             \* pongMonitor's tick to its handling
  Delay,     \* bound: from pingLoop's tick to the Pong in processPong
  MaxLost    \* bound: exchanges lost in a row while the server is up

ASSUME HeartbeatAssumption ==
  /\ Interval \in Nat \ {0} /\ Timeout \in Nat
  /\ Lag \in Nat /\ Delay \in Nat /\ MaxLost \in Nat
  /\ Delay < Interval /\ Lag < Interval /\ Lag <= Timeout

\* The timeout spans MaxLost lost exchanges, the one after them up to its Pong, and
\* the time by which the tickers started after the stamp.
Tolerates == (MaxLost + 1) * Interval + Delay + Lag <= Timeout

\* Bound on the clock of the server's death: past it every property has failed.
DownCap == Timeout + Interval + Lag + Delay + 1

VARIABLES
  silence,    \* now - lastPongTime
  sincePing,  \* time since pingLoop's ticker last ticked or was created; negative
              \* while it is still to be created
  sinceCheck, \* the same for pongMonitor's ticker
  pingDue,    \* pingLoop's tick is to be handled
  checkDue,   \* pongMonitor's tick is to be handled
  awaiting,   \* a Ping is on its way to the server, or its Pong back
  lost,       \* exchanges lost since the last Pong
  server,     \* "up" or "down"
  down,       \* time since the server went down
  stream      \* "open", or "timedout" by pongMonitor

vars == <<silence, sincePing, sinceCheck, pingDue, checkDue, awaiting, lost, server, down,
          stream>>

\* newClientStream stamps lastPongTime before it subscribes and starts the two
\* goroutines, which create their tickers when they get to run.
Init ==
  /\ silence = 0 /\ sincePing \in (-Lag)..0 /\ sinceCheck \in (-Lag)..0
  /\ pingDue = FALSE /\ checkDue = FALSE /\ awaiting = FALSE
  /\ lost = 0
  /\ server = "up" /\ down = 0
  /\ stream = "open"

\* A ticker's clock one unit later: it starts over at each tick.
Advance(clock) == IF clock + 1 = Interval THEN 0 ELSE clock + 1

Elapse(ping, check) ==
  /\ stream = "open"
  /\ pingDue \/ awaiting => sincePing < Delay
  /\ checkDue => sinceCheck < Lag
  /\ silence' = silence + 1
  /\ sincePing' = ping /\ sinceCheck' = check
  /\ pingDue' = (pingDue \/ sincePing + 1 = Interval)
  /\ checkDue' = (checkDue \/ sinceCheck + 1 = Interval)
  /\ down' = IF server = "down" /\ down < DownCap THEN down + 1 ELSE down
  /\ UNCHANGED <<awaiting, lost, server, stream>>

\* Mutant: a timer in the place of each ticker.
TickOnce == Elapse(sincePing + 1, sinceCheck + 1)

\* A unit of time.  A check is handled within Lag of its tick, and the Pong of a
\* server that is up is processed within Delay of the Ping's tick unless it is lost.
Tick == Elapse(Advance(sincePing), Advance(sinceCheck))

WritePing(since) ==
  /\ stream = "open" /\ pingDue
  /\ pingDue' = FALSE
  /\ awaiting' = (server = "up")
  /\ silence' = since
  /\ UNCHANGED <<sincePing, sinceCheck, checkDue, lost, server, down, stream>>

\* Mutant: writing a Ping counts as a sign of life.
PingLoopStamps == WritePing(0)

\* pingLoop: write a Ping.  A server that is down does not see it.
PingLoop == WritePing(silence)

\* processPing on the server, processPong on the client
ProcessPong ==
  /\ stream = "open" /\ awaiting
  /\ awaiting' = FALSE /\ silence' = 0 /\ lost' = 0
  /\ UNCHANGED <<sincePing, sinceCheck, pingDue, checkDue, server, down, stream>>

Lose ==
  /\ stream = "open" /\ awaiting /\ lost < MaxLost
  /\ awaiting' = FALSE /\ lost' = lost + 1
  /\ UNCHANGED <<silence, sincePing, sinceCheck, pingDue, checkDue, server, down, stream>>

\* The Pong of a Ping under way may have been sent already, or never will be.
ServerDies ==
  /\ stream = "open" /\ server = "up"
  /\ server' = "down"
  /\ awaiting' \in {FALSE, awaiting}
  /\ UNCHANGED <<silence, sincePing, sinceCheck, pingDue, checkDue, lost, down, stream>>

MonitorCheck(expired) ==
  /\ stream = "open" /\ checkDue
  /\ checkDue' = FALSE
  /\ stream' = IF expired THEN "timedout" ELSE "open"
  /\ UNCHANGED <<silence, sincePing, sinceCheck, pingDue, awaiting, lost, server, down>>

\* Mutant: the monitor gives up at the timeout, not past it.
PongMonitorEarly == MonitorCheck(silence >= Timeout)

\* Mutant: the monitor waits for an interval more.
PongMonitorLate == MonitorCheck(silence > Timeout + Interval)

\* pongMonitor: elapsed > pongTimeout closes the stream.
PongMonitor == MonitorCheck(silence > Timeout)

Next == Tick \/ PingLoop \/ ProcessPong \/ Lose \/ ServerDies \/ PongMonitor

Spec == Init /\ [][Next]_vars

\* Time passes and the two goroutines handle their ticks; a Ping to a live server
\* is answered or lost.  The server need not die.
FairSpec == Spec /\ WF_vars(Tick) /\ WF_vars(PingLoop) /\ WF_vars(PongMonitor)
                 /\ WF_vars(ProcessPong \/ Lose)

-----------------------------------------------------------------------------
Flags == pingDue \in BOOLEAN /\ checkDue \in BOOLEAN /\ awaiting \in BOOLEAN

Clocks ==
  /\ silence \in Nat /\ down \in Nat
  /\ sincePing \in (-Lag)..(Interval - 1) /\ sinceCheck \in (-Lag)..(Interval - 1)
  /\ lost \in 0..MaxLost
  /\ server \in {"up", "down"} /\ stream \in {"open", "timedout"}

\* Every variable keeps its type; the tickers start over after each interval.
TypeOK == Flags /\ Clocks

\* With a timeout that tolerates it, the monitor never closes the stream of a server
\* that is up: however late the two tickers started after the first stamp, however
\* their ticks fall and whichever MaxLost exchanges in a row are lost.
NoFalseAlarm == Tolerates => (stream = "timedout" => server = "down")

\* An open stream has not been silent for longer than the timeout, an interval and
\* the monitor's lag, and its server has not been down for longer than that and a
\* Pong's delay.
DetectionBound ==
  stream = "open" => /\ silence <= Timeout + Interval + Lag
                     /\ down <= Timeout + Interval + Lag + Delay

\* The death of the server closes the stream.
DeathDetected == server = "down" ~> stream = "timedout"
=============================================================================

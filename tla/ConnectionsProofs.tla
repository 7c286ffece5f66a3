------------------------- MODULE ConnectionsProofs -------------------------
(***************************************************************************)
(* For every setting of the timeouts and rates: the timers of bodies and   *)
(* relayed connections are exact, a completed relay has delivered          *)
(* everything, and the rate guards keep the average up (BodyGuard,         *)
(* TcpRelay).  On the other side of the connections, what a load phase of  *)
(* the benches reports is what its workers did (BenchPhase).               *)
(***************************************************************************)
EXTENDS MCConnections, TLAPS

(* A guard starts each window empty, and none in the future.               *)
GuardOK(g, now) ==
  /\ g \in Guards /\ g.bytes = 0 /\ g.started <= now /\ g.window <= now
  /\ g.window # NotYet => g.started # NotYet

(* A body's timer is armed by the first poll that finds nothing, in the    *)
(* tick the receiver began to wait, and is kept until it has its frame.    *)
BodyTimers ==
  body = "open" =>
    IF out = 0
    THEN /\ writeSleep = NotYet
         /\ \/ idleSleep = NotYet /\ polledAt = bodyClock
            \/ idleSleep = polledAt + BodyIdleTicks /\ bodyClock <= idleSleep
    ELSE /\ idleSleep = NotYet
         /\ \/ writeSleep = NotYet /\ wroteAt = bodyClock
            \/ writeSleep = wroteAt + WriteTicks /\ bodyClock <= writeSleep

BodyInv == B!TypeOK /\ GuardOK(guard, bodyClock) /\ BodyTimers /\ B!TimersExact /\ B!RateFloor

(* The idle monitor's deadline counts from the last completed write it has *)
(* heard of, and it has heard of all of them but those of this tick.       *)
MonitorInv ==
  /\ conn = "connecting" => ~wrote /\ ~activity
  /\ conn = "relaying" =>
       /\ idleAt \in Nat /\ quietFrom + IdleTicks <= idleAt
       /\ wrote /\ ~activity => idleAt = clock + IdleTicks

DurationInv ==
  /\ conn = "connecting" => clock <= endBy /\ endBy <= ConnectTicks
  /\ conn = "relaying" => clock <= endBy /\ endBy <= ConnectTicks + MaxTicks

RelayInv ==
  /\ TypeOK
  /\ buf \in [Sides -> Nat] /\ sent \in [Sides -> Nat] /\ judged \in [Sides -> Nat]
  /\ wrote \in BOOLEAN /\ quietFrom \in 0..clock
  /\ \A d \in Sides : GuardOK(rate[d], clock)
  /\ DurationInv /\ MonitorInv
  /\ CompletedDelivers /\ IdleDeserved /\ RateFloor

IInv == BodyInv /\ RelayInv

----------------------------------------------------------------------------
(* Arithmetic of rounding down.                                            *)
LEMMA Quotient ==
  ASSUME NEW a \in Nat, NEW b \in Nat \ {0}
  PROVE  a \div b \in Nat /\ a < b * (a \div b) + b
OBVIOUS

LEMMA Monotone ==
  ASSUME NEW k \in Nat, NEW a \in Int, NEW b \in Int, a <= b
  PROVE  k * a <= k * b /\ k * a \in Int /\ k * b \in Int
<1>1. PICK c \in Nat : b = a + c
  <2>1. b - a \in Nat /\ b = a + (b - a) OBVIOUS
  <2> QED BY <2>1, Zenon
<1>2. k * b = k * a + k * c /\ k * c \in Nat BY <1>1
<1> QED BY <1>2

(* A window of e ticks that held n bytes, as BodyRateGuard requires.       *)
LEMMA BodyWindow ==
  ASSUME NEW scale \in Nat \ {0}, NEW min \in Nat, NEW e \in Nat, NEW n \in Nat \ {0},
         n >= (min * (e \div 1)) \div (scale \div 1)
  PROVE  min * e <= 2 * scale * n
<1>1. e \div 1 = e /\ scale \div 1 = scale OBVIOUS
<1>2. min * e \in Nat /\ scale * n \in Nat /\ 2 * scale * n = 2 * (scale * n) OBVIOUS
<1>3. min * e < scale * ((min * e) \div scale) + scale /\ (min * e) \div scale \in Nat
  BY <1>2, Quotient, Zenon
<1>4. scale * ((min * e) \div scale) <= scale * n
  BY <1>1, <1>3, Monotone
<1>5. scale * 1 <= scale * n BY Monotone
<1> QED BY <1>2, <1>3, <1>4, <1>5

(* The same as TcpRateGuard requires, which also truncates the time.       *)
LEMMA RelayWindow ==
  ASSUME NEW scale \in Nat \ {0}, NEW unit \in Nat \ {0}, scale % unit = 0,
         NEW min \in Nat, min * unit <= scale, NEW e \in Nat, NEW n \in Nat \ {0},
         n >= (min * (e \div unit)) \div (scale \div unit)
  PROVE  min * e <= 3 * scale * n
<1> DEFINE k == scale \div unit
           q == e \div unit
<1>1. k \in Nat \ {0} /\ scale = unit * k
  OBVIOUS
<1>2. q \in Nat /\ e < unit * q + unit BY Quotient, Zenon
<1>3. n >= (min * q) \div k BY Zenon
<1> HIDE DEF k, q
<1>4. /\ min * q \in Nat /\ (min * q) \div k \in Nat
      /\ min * q < k * ((min * q) \div k) + k
  <2>1. min * q \in Nat BY <1>2
  <2> QED BY <1>1, <2>1, Quotient, Zenon
<1>5. k * ((min * q) \div k) <= k * n BY <1>1, <1>3, <1>4, Monotone
<1>6. min * q <= k * n + k /\ min * q \in Nat /\ k * n \in Nat
  BY <1>1, <1>4, <1>5
<1>7. unit * (min * q) <= unit * (k * n + k)
  BY <1>1, <1>6, Monotone
<1>8. unit * (k * n + k) = scale * n + scale
  BY <1>1
<1>9. min * e <= min * (unit * q + unit)
  BY <1>2, Monotone
<1>10. min * (unit * q + unit) = unit * (min * q) + min * unit
  BY <1>2
<1>11. scale * 1 <= scale * n BY Monotone
<1>12. /\ min * e \in Nat /\ scale * n \in Nat /\ 3 * scale * n = 3 * (scale * n)
       /\ unit * (min * q) \in Nat /\ min * unit \in Nat
  BY <1>2
<1> QED BY <1>7, <1>8, <1>9, <1>10, <1>11, <1>12

(* Windows add up.                                                         *)
LEMMA WindowsAdd ==
  ASSUME NEW c \in Nat, NEW scale \in Nat, NEW min \in Nat, NEW j \in Nat, NEW n \in Nat,
         NEW x \in Int, NEW e \in Int,
         c * scale * j >= min * x, min * e <= c * scale * n
  PROVE  c * scale * (j + n) >= min * (x + e)
<1>1. /\ c * scale * (j + n) = c * scale * j + c * scale * n
      /\ min * (x + e) = min * x + min * e
      /\ c * scale * j \in Int /\ c * scale * n \in Int /\ min * x \in Int /\ min * e \in Int
  OBVIOUS
<1> QED BY <1>1

LEMMA JudgedGrows ==
  ASSUME NEW c \in Nat, NEW scale \in Nat, NEW j \in Nat, NEW n \in Nat, NEW y \in Int,
         c * scale * j >= y
  PROVE  c * scale * (j + n) >= y
<1>1. /\ c * scale * (j + n) = c * scale * j + c * scale * n
      /\ c * scale * j \in Int /\ c * scale * n \in Nat
  OBVIOUS
<1> QED BY <1>1

----------------------------------------------------------------------------
(* The body.                                                               *)

(* The guard after poll_frame has started it.                              *)
LEMMA GuardingProperties ==
  ASSUME bodyClock \in Nat, GuardOK(guard, bodyClock), NEW g, g = B!Guarding
  PROVE  /\ GuardOK(g, bodyClock) /\ g \in B!Guards
         /\ g.window = guard.window
         /\ guard.window # NotYet => g.started = guard.started
         /\ BodyMin > 0 => g.started \in Nat
<1>1. /\ guard = [started |-> guard.started, window |-> guard.window, bytes |-> 0]
      /\ guard.started \in Nat \cup {-1} /\ guard.window \in Nat \cup {-1}
  BY Zenon DEF GuardOK, Guards, NotYet
<1>2. CASE BodyMin > 0 /\ guard.started = -1
  <2>1. g = [started |-> bodyClock, window |-> guard.window, bytes |-> 0]
    BY <1>1, <1>2 DEF B!Guarding, B!Started, B!NotYet
  <2> QED BY <1>1, <1>2, <2>1 DEF GuardOK, Guards, NotYet, B!Guards, B!NotYet
<1>3. CASE ~(BodyMin > 0 /\ guard.started = -1)
  <2>1. g = guard BY <1>3, Zenon DEF B!Guarding, B!Started, B!NotYet
  <2> QED BY <1>1, <1>3, <2>1, Zenon DEF GuardOK, Guards, NotYet, B!Guards, B!NotYet
<1> QED BY <1>2, <1>3, Zenon

(* A poll that hands out no data.                                          *)
LEMMA GuardStarts ==
  ASSUME BodyInv, guard' = B!Guarding, UNCHANGED <<bodyClock, bodyJudged>>
  PROVE  /\ GuardOK(guard, bodyClock)' /\ guard' \in B!Guards /\ B!RateFloor'
         /\ guard'.started <= bodyClock /\ guard'.window <= bodyClock
<1>1. bodyClock \in Nat /\ GuardOK(guard, bodyClock) BY Zenon DEF BodyInv, B!TypeOK
<1>2. /\ GuardOK(guard', bodyClock) /\ guard' \in B!Guards
      /\ guard'.window = guard.window
      /\ guard.window # NotYet => guard'.started = guard.started
  BY <1>1, GuardingProperties, Zenon
<1>3. GuardOK(guard, bodyClock)' BY <1>2, Zenon DEF GuardOK
<1>4. B!RateFloor' BY <1>2, Zenon DEF BodyInv, B!RateFloor, B!NotYet, NotYet
<1> QED BY <1>2, <1>3, <1>4, Zenon DEF GuardOK

(* A poll after which the body is over for another reason than a timer.    *)
LEMMA BodyCloses ==
  ASSUME BodyInv, B!Polling, guard' = B!Guarding,
         body' \in {"ended", "TooLarge", "TooSlow", "TrailersTooLarge", "Inner"},
         idleSleep' \in Nat \cup {NotYet}, remaining' \in 0..BodyMaxBytes,
         UNCHANGED <<bodyClock, out, writeSleep, bodyJudged, polledAt, wroteAt>>
  PROVE  BodyInv'
<1>1. /\ GuardOK(guard, bodyClock)' /\ guard' \in B!Guards /\ B!RateFloor'
      /\ guard'.started <= bodyClock /\ guard'.window <= bodyClock
  BY GuardStarts, Zenon
<1>2. B!TypeOK'
  BY <1>1, Zenon DEF BodyInv, B!TypeOK, B!Errors, B!NotYet, NotYet
<1>3. BodyTimers' /\ B!TimersExact' BY Zenon DEF BodyTimers, B!TimersExact, B!Open
<1> QED BY <1>1, <1>2, <1>3, Zenon DEF BodyInv

LEMMA BodyData ==
  ASSUME BodyInv, NEW n \in BodySizes, B!Data(n)
  PROVE  BodyInv'
<1> DEFINE g == B!Guarding
<1>0. /\ bodyClock \in Nat /\ bodyJudged \in Nat /\ remaining \in 0..BodyMaxBytes
      /\ polledAt \in 0..bodyClock /\ GuardOK(guard, bodyClock) /\ BodyMin \in Nat
      /\ n \in Nat \ {0} /\ n <= remaining /\ body = "open" /\ out = 0
      /\ BodyScale \in Nat \ {0} /\ BodyGrace \in Nat /\ BodyMaxBytes \in Nat
      /\ writeSleep = NotYet
  BY BodyGuardAssumption, Zenon DEF BodyInv, BodyTimers, B!TypeOK, B!Data, B!Fits, B!Polling, B!Open
<1>1. /\ GuardOK(g, bodyClock) /\ g \in B!Guards
      /\ g.window = guard.window
      /\ guard.window # NotYet => g.started = guard.started
      /\ BodyMin > 0 => g.started \in Nat
  BY <1>0, GuardingProperties, Zenon
<1>2. /\ B!Accepts(g, n, BodyMin, bodyClock)
      /\ guard' = B!Recorded(g, BodyMin, bodyClock)
      /\ bodyJudged' = IF B!InGrace(g, bodyClock) THEN bodyJudged ELSE bodyJudged + n
      /\ idleSleep' = NotYet /\ out' = n /\ wroteAt' = bodyClock /\ remaining' = remaining - n
      /\ UNCHANGED <<bodyClock, body, writeSleep, polledAt>>
  BY Zenon DEF B!Data, B!NotYet, NotYet
<1> HIDE DEF g
<1>3. bodyJudged' \in Nat /\ (bodyJudged' = bodyJudged \/ bodyJudged' = bodyJudged + n)
  BY <1>0, <1>2
<1>4. /\ GuardOK(guard', bodyClock) /\ guard' \in B!Guards /\ B!RateFloor'
  <2>1. CASE BodyMin = 0 \/ B!InGrace(g, bodyClock)
    <3>1. guard' = g BY <1>2, <2>1, Zenon DEF B!Recorded
    <3>2. B!RateFloor'
      <4> SUFFICES ASSUME guard'.window # NotYet
          PROVE  2 * BodyScale * bodyJudged' >= BodyMin * (guard'.window - guard'.started - BodyGrace)
        BY Zenon DEF B!RateFloor, B!NotYet, NotYet
      <4> DEFINE y == BodyMin * (guard.window - guard.started - BodyGrace)
      <4>1. guard'.window = guard.window /\ guard'.started = guard.started
        BY <1>1, <3>1, Zenon
      <4>2. 2 * BodyScale * bodyJudged >= y
        BY <4>1, Zenon DEF BodyInv, B!RateFloor, B!NotYet, NotYet
      <4>3. y \in Int
        <5>1. guard.window \in Int /\ guard.started \in Int
          BY <1>0 DEF GuardOK, Guards, NotYet
        <5> QED BY <1>0, <5>1
      <4> HIDE DEF y
      <4>4. 2 * BodyScale * (bodyJudged + n) >= y
        BY <1>0, <4>2, <4>3, JudgedGrows, Zenon
      <4> QED BY <1>3, <4>1, <4>2, <4>4, Zenon DEF y
    <3> QED BY <1>1, <3>1, <3>2, Zenon
  <2>2. CASE ~(BodyMin = 0 \/ B!InGrace(g, bodyClock))
    <3> DEFINE e == bodyClock - B!WindowStart(g)
    <3>1. /\ guard' = [started |-> g.started, window |-> bodyClock, bytes |-> 0]
          /\ g.started \in Nat /\ g.started <= bodyClock
      <4>1. g = [started |-> g.started, window |-> g.window, bytes |-> g.bytes]
        BY <1>1, Zenon DEF B!Guards
      <4>2. g.started \in Nat /\ g.started <= bodyClock BY <1>0, <1>1, <2>2 DEF GuardOK
      <4> QED BY <1>2, <2>2, <4>1, <4>2, Zenon DEF B!Recorded
    <3>2. n >= (BodyMin * (e \div 1)) \div (BodyScale \div 1)
      <4>1. g.bytes + n >= B!Required(g, BodyMin, bodyClock)
        BY <1>2, <2>2, Zenon DEF B!Accepts
      <4>2. g.bytes + n = n BY <1>0, <1>1 DEF GuardOK
      <4> QED BY <4>1, <4>2, Zenon DEF B!Required
    <3>3. e \in Nat /\ e = IF g.window = NotYet THEN bodyClock - g.started - BodyGrace
                                                ELSE bodyClock - g.window
      <4>1. g.window \in Nat \cup {-1} /\ g.window <= bodyClock
        BY <1>1, Zenon DEF GuardOK, Guards, NotYet
      <4>2. g.window = -1 => bodyClock - g.started > BodyGrace
        BY <1>0, <2>2, <3>1 DEF B!InGrace, B!NotYet
      <4> QED BY <1>0, <3>1, <4>1, <4>2 DEF B!WindowStart, B!NotYet, NotYet
    <3> HIDE DEF e
    <3>4. BodyMin * e <= 2 * BodyScale * n
      BY <1>0, <3>2, <3>3, BodyWindow, Zenon
    <3>5. 2 * BodyScale * (bodyJudged + n) >= BodyMin * (bodyClock - g.started - BodyGrace)
      <4>1. CASE g.window = NotYet
        <5>1. 2 * BodyScale * (n + bodyJudged) >= BodyMin * e
          <6>1. BodyMin * e \in Int BY <1>0, <3>3
          <6> QED BY <1>0, <3>4, <6>1, JudgedGrows, Zenon
        <5>2. n + bodyJudged = bodyJudged + n BY <1>0
        <5> QED BY <3>3, <4>1, <5>1, <5>2, Zenon
      <4>2. CASE g.window # NotYet
        <5> DEFINE x == g.window - g.started - BodyGrace
        <5>1. 2 * BodyScale * bodyJudged >= BodyMin * x
          BY <1>1, <4>2, Zenon DEF BodyInv, B!RateFloor, B!NotYet, NotYet
        <5>2. g.window \in Nat BY <1>1, <4>2, Zenon DEF GuardOK, Guards
        <5>3. x \in Int /\ x + e = bodyClock - g.started - BodyGrace
          BY <1>0, <3>1, <3>3, <4>2, <5>2
        <5> HIDE DEF x
        <5> QED BY <1>0, <3>3, <3>4, <5>1, <5>3, WindowsAdd
      <4> QED BY <4>1, <4>2, Zenon
    <3>6. bodyJudged' = bodyJudged + n BY <1>2, <2>2, Zenon
    <3>7. B!RateFloor' BY <3>1, <3>5, <3>6, Zenon DEF B!RateFloor
    <3>8. GuardOK(guard', bodyClock) /\ guard' \in B!Guards
      BY <1>0, <3>1 DEF GuardOK, Guards, NotYet, B!Guards, B!NotYet
    <3> QED BY <3>7, <3>8, Zenon
  <2> QED BY <2>1, <2>2, Zenon
<1>5. B!TypeOK'
  BY <1>0, <1>2, <1>3, <1>4 DEF B!TypeOK, GuardOK, B!NotYet, NotYet
<1>6. BodyTimers' /\ B!TimersExact'
  BY <1>0, <1>2, BodyGuardAssumption DEF BodyTimers, B!TimersExact, B!Open
<1>7. GuardOK(guard, bodyClock)' BY <1>2, <1>4, Zenon DEF GuardOK
<1> QED BY <1>4, <1>5, <1>6, <1>7, Zenon DEF BodyInv

LEMMA BodyPending ==
  ASSUME BodyInv, B!Pending
  PROVE  BodyInv'
<1>0. /\ bodyClock \in Nat /\ polledAt \in 0..bodyClock /\ BodyIdleTicks \in Nat \ {0}
      /\ body = "open" /\ out = 0 /\ writeSleep = -1
      /\ \/ idleSleep = -1 /\ polledAt = bodyClock
         \/ idleSleep = polledAt + BodyIdleTicks /\ bodyClock <= idleSleep
  BY BodyGuardAssumption, Zenon
  DEF BodyInv, BodyTimers, B!TypeOK, B!Pending, B!Polling, B!Open, NotYet
<1>1. /\ guard' = B!Guarding
      /\ IF bodyClock >= B!Sleeping
         THEN idleSleep' = -1 /\ body' = "IdleTimeout"
         ELSE idleSleep' = B!Sleeping /\ body' = body
      /\ UNCHANGED <<bodyClock, remaining, out, writeSleep, bodyJudged, polledAt, wroteAt>>
  BY Zenon DEF B!Pending, B!NotYet
<1>2. B!Sleeping = polledAt + BodyIdleTicks
  <2>1. CASE idleSleep = -1 /\ polledAt = bodyClock
    BY <2>1, Zenon DEF B!Sleeping, B!NotYet
  <2>2. CASE idleSleep = polledAt + BodyIdleTicks
    <3>1. idleSleep # -1 BY <1>0, <2>2
    <3> QED BY <2>2, <3>1, Zenon DEF B!Sleeping, B!NotYet
  <2> QED BY <1>0, <2>1, <2>2, Zenon
<1>3. /\ GuardOK(guard, bodyClock)' /\ guard' \in B!Guards /\ B!RateFloor'
      /\ guard'.started <= bodyClock /\ guard'.window <= bodyClock
  BY <1>1, GuardStarts, Zenon
<1>4. B!TypeOK'
  BY <1>0, <1>1, <1>2, <1>3 DEF BodyInv, B!TypeOK, B!Errors, B!NotYet
<1>5. BodyTimers' /\ B!TimersExact'
  BY <1>0, <1>1, <1>2 DEF BodyTimers, B!TimersExact, B!Open, NotYet
<1> QED BY <1>3, <1>4, <1>5, Zenon DEF BodyInv

(* Steps that leave the guard and what it has judged alone.                *)
LEMMA GuardKept ==
  ASSUME BodyInv, UNCHANGED <<guard, bodyJudged>>, bodyClock' \in Nat, bodyClock <= bodyClock'
  PROVE  /\ GuardOK(guard, bodyClock)' /\ guard' \in B!Guards /\ B!RateFloor'
         /\ guard'.started <= bodyClock' /\ guard'.window <= bodyClock'
<1>1. bodyClock \in Nat /\ GuardOK(guard, bodyClock) BY Zenon DEF BodyInv, B!TypeOK
<1>2. guard.started \in Int /\ guard.window \in Int BY <1>1 DEF GuardOK, Guards, NotYet
<1>3. GuardOK(guard, bodyClock)' BY <1>1, <1>2 DEF GuardOK
<1>4. B!RateFloor' BY Zenon DEF BodyInv, B!RateFloor
<1> QED BY <1>3, <1>4, Zenon DEF GuardOK, BodyInv, B!TypeOK

LEMMA BodyWrites ==
  ASSUME BodyInv, (\E k \in 1..out : B!Write(k)) \/ B!WriteFails \/ B!WritePending
  PROVE  BodyInv'
<1>0. /\ bodyClock \in Nat /\ wroteAt \in 0..bodyClock /\ polledAt \in 0..bodyClock
      /\ WriteTicks \in Nat \ {0} /\ BodyIdleTicks \in Nat \ {0}
      /\ body = "open" /\ out \in 0..BodyMaxBytes /\ BodyMaxBytes \in Nat /\ out # 0
      /\ idleSleep = -1
      /\ \/ writeSleep = -1 /\ wroteAt = bodyClock
         \/ writeSleep = wroteAt + WriteTicks /\ bodyClock <= writeSleep
  BY BodyGuardAssumption
  DEF BodyInv, BodyTimers, B!TypeOK, B!Write, B!WriteFails, B!WritePending, B!Open, NotYet
<1>1. UNCHANGED <<bodyClock, remaining, idleSleep, guard, bodyJudged>>
  BY Zenon DEF B!Write, B!WriteFails, B!WritePending
<1>2. /\ GuardOK(guard, bodyClock)' /\ guard' \in B!Guards /\ B!RateFloor'
      /\ guard'.started <= bodyClock' /\ guard'.window <= bodyClock'
  BY <1>0, <1>1, GuardKept
<1>3. ASSUME NEW k \in 1..out, B!Write(k) PROVE BodyInv'
  <2>1. /\ out' = out - k /\ writeSleep' = -1 /\ wroteAt' = bodyClock /\ body' = body
        /\ polledAt' = IF out = k THEN bodyClock ELSE polledAt
    BY <1>3, Zenon DEF B!Write, B!NotYet
  <2>2. B!TypeOK' BY <1>0, <1>1, <1>2, <2>1 DEF BodyInv, B!TypeOK, B!NotYet
  <2>3. BodyTimers' /\ B!TimersExact'
    BY <1>0, <1>1, <2>1 DEF BodyTimers, B!TimersExact, B!Open, NotYet
  <2> QED BY <1>2, <2>2, <2>3, Zenon DEF BodyInv
<1>4. CASE B!WriteFails
  <2>1. writeSleep' = -1 /\ body' = "Inner" /\ UNCHANGED <<out, polledAt, wroteAt>>
    BY <1>4, Zenon DEF B!WriteFails, B!NotYet
  <2>2. B!TypeOK' BY <1>0, <1>1, <1>2, <2>1, Zenon DEF BodyInv, B!TypeOK, B!NotYet, B!Errors
  <2>3. BodyTimers' /\ B!TimersExact' BY <2>1, Zenon DEF BodyTimers, B!TimersExact, B!Open
  <2> QED BY <1>2, <2>2, <2>3, Zenon DEF BodyInv
<1>5. CASE B!WritePending
  <2>1. /\ UNCHANGED <<out, polledAt, wroteAt>>
        /\ IF bodyClock >= wroteAt + WriteTicks
           THEN writeSleep' = -1 /\ body' = "WriteTimeout"
           ELSE writeSleep' = wroteAt + WriteTicks /\ body' = body
    BY <1>0, <1>5 DEF B!WritePending, B!NotYet
  <2>2. B!TypeOK' BY <1>0, <1>1, <1>2, <2>1 DEF BodyInv, B!TypeOK, B!NotYet, B!Errors
  <2>3. BodyTimers' /\ B!TimersExact'
    BY <1>0, <1>1, <2>1 DEF BodyTimers, B!TimersExact, B!Open, NotYet
  <2> QED BY <1>2, <2>2, <2>3 DEF BodyInv
<1> QED BY <1>3, <1>4, <1>5, Zenon

LEMMA BodyTick ==
  ASSUME BodyInv, B!Tick
  PROVE  BodyInv'
<1>0. /\ bodyClock \in Nat /\ wroteAt \in 0..bodyClock /\ polledAt \in 0..bodyClock
      /\ WriteTicks \in Nat \ {0} /\ BodyIdleTicks \in Nat \ {0} /\ body = "open"
      /\ bodyClock' = bodyClock + 1
      /\ UNCHANGED <<body, remaining, idleSleep, guard, out, writeSleep, bodyJudged, polledAt,
                     wroteAt>>
  BY BodyGuardAssumption, Zenon DEF BodyInv, B!TypeOK, B!Tick, B!Open
<1>1. /\ GuardOK(guard, bodyClock)' /\ guard' \in B!Guards /\ B!RateFloor'
      /\ guard'.started <= bodyClock' /\ guard'.window <= bodyClock'
  BY <1>0, GuardKept
<1>2. B!TypeOK' BY <1>0, <1>1 DEF BodyInv, B!TypeOK
<1>3. BodyTimers' /\ B!TimersExact'
  <2>1. CASE out = 0
    BY <1>0, <2>1 DEF BodyInv, BodyTimers, B!TimersExact, B!Open, B!Tick, NotYet
  <2>2. CASE out # 0
    BY <1>0, <2>2 DEF BodyInv, BodyTimers, B!TimersExact, B!Open, B!Tick, NotYet
  <2> QED BY <2>1, <2>2, Zenon
<1> QED BY <1>1, <1>2, <1>3, Zenon DEF BodyInv

LEMMA BodyStep ==
  ASSUME BodyInv, B!Next
  PROVE  BodyInv'
<1>0. /\ bodyClock \in Nat /\ remaining \in 0..BodyMaxBytes /\ BodyMaxBytes \in Nat
      /\ BodyIdleTicks \in Nat /\ idleSleep \in Nat \cup {-1}
  BY BodyGuardAssumption, Zenon DEF BodyInv, B!TypeOK, B!NotYet
<1>1. ASSUME NEW n \in BodySizes, B!DataTooLarge(n) \/ B!DataTooSlow(n) PROVE BodyInv'
  <2>1. n \in Nat BY BodyGuardAssumption, Zenon
  <2>2. remaining' \in 0..BodyMaxBytes
    BY <1>0, <1>1, <2>1 DEF B!DataTooLarge, B!DataTooSlow, B!Fits
  <2> QED BY <1>1, <2>2, BodyCloses, Zenon DEF B!DataTooLarge, B!DataTooSlow, B!NotYet, NotYet
<1>2. ASSUME NEW valid \in BOOLEAN, B!Trailers(valid) PROVE BodyInv'
  BY <1>0, <1>2, BodyCloses, Zenon DEF B!Trailers, B!NotYet, NotYet
<1>3. ASSUME NEW how \in {"ended", "Inner"}, B!Finish(how) PROVE BodyInv'
  <2>1. B!Sleeping \in Nat \cup {NotYet} BY <1>0 DEF B!Sleeping, B!NotYet, NotYet
  <2> QED BY <1>0, <1>3, <2>1, BodyCloses, Zenon DEF B!Finish
<1> QED BY <1>1, <1>2, <1>3, BodyData, BodyPending, BodyWrites, BodyTick, Zenon DEF B!Next

----------------------------------------------------------------------------
(* The relay.                                                              *)

LEMMA ObservedProperties ==
  ASSUME clock \in Nat, NEW d \in Sides, GuardOK(rate[d], clock), NEW g, g = Observed(d)
  PROVE  /\ GuardOK(g, clock)
         /\ g.window = rate[d].window
         /\ rate[d].window # NotYet => g.started = rate[d].started
         /\ MinOf(d) > 0 => g.started \in Nat
<1> DEFINE old == rate[d]
<1>1. /\ old = [started |-> old.started, window |-> old.window, bytes |-> 0]
      /\ old.started \in Nat \cup {-1} /\ old.window \in Nat \cup {-1}
  BY Zenon DEF GuardOK, Guards, NotYet
<1>2. CASE MinOf(d) > 0 /\ old.started = -1
  <2>1. g = [started |-> clock, window |-> old.window, bytes |-> 0]
    BY <1>1, <1>2 DEF Observed, Started, NotYet
  <2> QED BY <1>1, <1>2, <2>1 DEF GuardOK, Guards, NotYet
<1>3. CASE ~(MinOf(d) > 0 /\ old.started = -1)
  <2>1. g = old BY <1>3, Zenon DEF Observed, Started, NotYet
  <2> QED BY <1>1, <1>3, <2>1, Zenon DEF GuardOK, Guards, NotYet
<1> QED BY <1>2, <1>3, Zenon

(* The rate a direction is held to, before and after it accepts n bytes.   *)
LEMMA WindowAccepted ==
  ASSUME clock \in Nat, NEW d \in Sides, GuardOK(rate[d], clock),
         NEW j \in Nat, NEW n \in Nat \ {0},
         NEW g, g = Observed(d), Accepts(g, n, MinOf(d), clock),
         NEW r, r = Recorded(g, MinOf(d), clock),
         NEW k, k = IF InGrace(g, clock) THEN j ELSE j + n,
         MinOf(d) * Unit <= Scale,
         rate[d].window # NotYet =>
           3 * Scale * j >= MinOf(d) * (rate[d].window - rate[d].started - Grace)
  PROVE  r.window # NotYet => 3 * Scale * k >= MinOf(d) * (r.window - r.started - Grace)
<1> SUFFICES ASSUME r.window # NotYet
    PROVE  3 * Scale * k >= MinOf(d) * (r.window - r.started - Grace)
  BY Zenon
<1> DEFINE min == MinOf(d)
<1>0. /\ min \in Nat /\ Scale \in Nat \ {0} /\ Unit \in Nat \ {0} /\ Scale % Unit = 0
      /\ Grace \in Nat
  BY TcpRelayAssumption, RateGuardAssumption, Zenon DEF MinOf
<1>1. /\ GuardOK(g, clock) /\ g.window = rate[d].window
      /\ rate[d].window # NotYet => g.started = rate[d].started
      /\ min > 0 => g.started \in Nat
  BY ObservedProperties, Zenon
<1>2. /\ g = [started |-> g.started, window |-> g.window, bytes |-> 0]
      /\ g.started \in Nat \cup {-1} /\ g.window \in Nat \cup {-1}
      /\ g.started <= clock /\ g.window <= clock
  BY <1>1, Zenon DEF GuardOK, Guards, NotYet
<1> HIDE DEF min
<1>3. CASE min = 0 \/ InGrace(g, clock)
  <2>1. r = g BY <1>3, Zenon DEF Recorded, min
  <2> DEFINE y == min * (g.window - g.started - Grace)
  <2>2. 3 * Scale * j >= y /\ y \in Int
    BY <1>0, <1>1, <1>2, <2>1 DEF min
  <2> HIDE DEF y
  <2>3. 3 * Scale * (j + n) >= y BY <1>0, <2>2, JudgedGrows, Zenon
  <2> QED BY <2>1, <2>2, <2>3, Zenon DEF y, min
<1>4. CASE ~(min = 0 \/ InGrace(g, clock))
  <2> DEFINE e == clock - WindowStart(g)
  <2>1. r = [started |-> g.started, window |-> clock, bytes |-> 0] /\ k = j + n
    BY <1>2, <1>4, Zenon DEF Recorded, min
  <2>2. n >= (min * (e \div Unit)) \div (Scale \div Unit)
    <3>1. g.bytes + n >= Required(g, min, clock) BY <1>4, Zenon DEF Accepts, min
    <3>2. g.bytes + n = n BY <1>2
    <3> QED BY <3>1, <3>2, Zenon DEF Required
  <2>3. e \in Nat /\ g.started \in Nat
        /\ e = IF g.window = NotYet THEN clock - g.started - Grace ELSE clock - g.window
    BY <1>0, <1>1, <1>2, <1>4 DEF WindowStart, InGrace, NotYet
  <2> HIDE DEF e
  <2>4. min * e <= 3 * Scale * n BY <1>0, <2>2, <2>3, RelayWindow, Zenon DEF min
  <2>5. 3 * Scale * (j + n) >= min * (clock - g.started - Grace)
    <3>1. CASE g.window = NotYet
      <4>1. min * e \in Int BY <1>0, <2>3
      <4>2. 3 * Scale * (n + j) >= min * e BY <1>0, <2>4, <4>1, JudgedGrows, Zenon
      <4>3. n + j = j + n OBVIOUS
      <4> QED BY <2>3, <3>1, <4>2, <4>3, Zenon
    <3>2. CASE g.window # NotYet
      <4> DEFINE x == g.window - g.started - Grace
      <4>1. 3 * Scale * j >= min * x BY <1>1, <3>2, Zenon DEF min
      <4>2. x \in Int /\ x + e = clock - g.started - Grace BY <1>0, <1>2, <2>3, <3>2
      <4> HIDE DEF x
      <4> QED BY <1>0, <2>3, <2>4, <4>1, <4>2, WindowsAdd
    <3> QED BY <3>1, <3>2, Zenon
  <2> QED BY <2>1, <2>5 DEF min
<1> QED BY <1>3, <1>4, Zenon

LEMMA RecordedOK ==
  ASSUME NEW d \in Sides, clock \in Nat, NEW g, GuardOK(g, clock), MinOf(d) > 0 => g.started \in Nat,
         MinOf(d) \in Nat, NEW r, r = Recorded(g, MinOf(d), clock)
  PROVE  GuardOK(r, clock)
<1>1. CASE MinOf(d) = 0 \/ InGrace(g, clock) BY <1>1, Zenon DEF Recorded
<1>2. CASE ~(MinOf(d) = 0 \/ InGrace(g, clock))
  <2>1. g = [started |-> g.started, window |-> g.window, bytes |-> 0] BY Zenon DEF GuardOK, Guards
  <2>2. r = [started |-> g.started, window |-> clock, bytes |-> 0] BY <1>2, <2>1, Zenon DEF Recorded
  <2> QED BY <1>2, <2>2 DEF GuardOK, Guards, NotYet
<1> QED BY <1>1, <1>2, Zenon

(* The invariant's conjuncts on the directions, which only reads, writes   *)
(* and the end of a stream disturb.                                        *)
DirsOK ==
  /\ dir \in [Sides -> {"read", "write", "done"}]
  /\ \A d \in Sides : buf[d] \in 0..BytesOf(d) /\ (buf[d] > 0 <=> dir[d] = "write")
  /\ writeBy \in [Sides -> Nat \cup {NotYet}] /\ rate \in [Sides -> Guards]
  /\ buf \in [Sides -> Nat] /\ sent \in [Sides -> Nat] /\ judged \in [Sides -> Nat]
  /\ \A d \in Sides : GuardOK(rate[d], clock)
  /\ RateFloor

(* The conjuncts on the task and its timers.                               *)
TaskOK ==
  /\ clock \in 0..(ConnectTicks + MaxTicks) /\ endBy \in Nat
  /\ conn \in {"connecting", "relaying"} \cup Outcomes
  /\ activity \in BOOLEAN /\ idleAt \in Nat \cup {NotYet}
  /\ wrote \in BOOLEAN /\ quietFrom \in 0..clock
  /\ DurationInv /\ MonitorInv

LEMMA RelayParts == RelayInv <=> DirsOK /\ TaskOK /\ CompletedDelivers /\ IdleDeserved
  BY Zenon DEF RelayInv, TypeOK, DirsOK, TaskOK

LEMMA RelayPartsPrimed == RelayInv' <=> DirsOK' /\ TaskOK' /\ CompletedDelivers' /\ IdleDeserved'
  BY Zenon DEF RelayInv, TypeOK, DirsOK, TaskOK

LEMMA DirsKept ==
  ASSUME DirsOK, clock \in Nat, clock' \in Nat, clock <= clock',
         UNCHANGED <<dirs, sent, judged>>
  PROVE  DirsOK'
<1>1. \A d \in Sides : GuardOK(rate'[d], clock')
  BY DEF DirsOK, dirs, GuardOK, Guards, NotYet
<1>2. RateFloor' BY Zenon DEF DirsOK, dirs, RateFloor, KeepsThird
<1> QED BY <1>1, <1>2, Zenon DEF DirsOK, dirs, GuardOK

(* The task ends, by a timer or an error.                                  *)
LEMMA RelayEnds ==
  ASSUME RelayInv, NEW outcome \in Outcomes \ {"Completed"}, End(outcome),
         outcome = "IdleTimeout" =>
           \/ clock - quietFrom >= IdleTicks
           \/ \E d \in Sides : dir[d] = "write" /\ clock >= writeBy[d]
  PROVE  RelayInv'
<1>0. DirsOK /\ TaskOK BY RelayParts, Zenon
<1>1. conn' = outcome /\ UNCHANGED <<clock, endBy, dirs, monitor, history>> BY Zenon DEF End
<1>2. clock \in Nat BY <1>0, TcpRelayAssumption DEF TaskOK
<1>3. DirsOK' BY <1>0, <1>1, <1>2, DirsKept DEF history
<1>4. TaskOK'
  BY <1>0, <1>1, Zenon DEF TaskOK, DurationInv, MonitorInv, Outcomes, monitor, history
<1>5. CompletedDelivers' BY <1>1, Zenon DEF CompletedDelivers
<1>6. IdleDeserved' BY <1>1, Zenon DEF IdleDeserved, dirs, history
<1> QED BY <1>3, <1>4, <1>5, <1>6, RelayPartsPrimed, Zenon

LEMMA RelayConnects ==
  ASSUME RelayInv, Connect
  PROVE  RelayInv'
<1>0. DirsOK /\ TaskOK BY RelayParts, Zenon
<1>1. /\ clock \in Nat /\ MaxTicks \in Nat /\ IdleTicks \in Nat /\ ConnectTicks \in Nat
      /\ clock <= ConnectTicks
  BY <1>0, TcpRelayAssumption DEF TaskOK, DurationInv, Connect
<1>2. DirsOK' BY <1>0, <1>1, DirsKept DEF Connect
<1>3. TaskOK'
  BY <1>0, <1>1 DEF Connect, TaskOK, DurationInv, MonitorInv, Outcomes
<1>4. CompletedDelivers' /\ IdleDeserved' BY Zenon DEF CompletedDelivers, IdleDeserved, Connect
<1> QED BY <1>2, <1>3, <1>4, RelayPartsPrimed, Zenon

LEMMA RelayReads ==
  ASSUME RelayInv, NEW d \in Sides, NEW n \in Sizes, Read(d, n)
  PROVE  RelayInv'
<1> DEFINE g == Observed(d)
<1>0. DirsOK /\ TaskOK BY RelayParts, Zenon
<1>1. /\ clock \in Nat /\ IdleTicks \in Nat /\ n \in Nat \ {0} /\ MinOf(d) \in Nat
      /\ GuardOK(rate[d], clock) /\ judged[d] \in Nat /\ sent[d] \in Nat /\ conn = "relaying"
      /\ BytesOf(d) \in Nat
  <2>1. clock \in Nat BY <1>0 DEF TaskOK
  <2>2. IdleTicks \in Nat /\ n \in Nat \ {0} BY TcpRelayAssumption, Zenon
  <2>3. MinOf(d) \in Nat /\ BytesOf(d) \in Nat BY TcpRelayAssumption, Zenon DEF MinOf, BytesOf
  <2>4. GuardOK(rate[d], clock) /\ judged[d] \in Nat /\ sent[d] \in Nat
    BY <1>0, Zenon DEF DirsOK
  <2> QED BY <2>1, <2>2, <2>3, <2>4, Zenon DEF Read, Relaying
<1>2. GuardOK(g, clock) /\ (MinOf(d) > 0 => g.started \in Nat)
  BY <1>1, ObservedProperties, Zenon
<1> HIDE DEF g
<1>3. GuardOK(Recorded(g, MinOf(d), clock), clock)
  BY <1>1, <1>2, RecordedOK, Zenon
<1>4. /\ rate' = [rate EXCEPT ![d] = Recorded(g, MinOf(d), clock)]
      /\ dir' = [dir EXCEPT ![d] = "write"] /\ buf' = [buf EXCEPT ![d] = n]
      /\ writeBy' = [writeBy EXCEPT ![d] = clock + IdleTicks]
      /\ sent' = [sent EXCEPT ![d] = @ + n]
      /\ judged' = [judged EXCEPT ![d] = IF InGrace(g, clock) THEN @ ELSE @ + n]
      /\ UNCHANGED <<clock, conn, endBy, monitor, wrote, quietFrom>>
      /\ sent[d] + n <= BytesOf(d) /\ Accepts(g, n, MinOf(d), clock)
  BY Zenon DEF Read, g
<1>5. RateFloor'
  <2> SUFFICES ASSUME NEW x \in Sides, MinOf(x) * Unit <= Scale
      PROVE  rate'[x].window # NotYet =>
               3 * Scale * judged'[x] >= MinOf(x) * (rate'[x].window - rate'[x].started - Grace)
    BY Zenon DEF RateFloor, KeepsThird
  <2>1. rate[x].window # NotYet =>
          3 * Scale * judged[x] >= MinOf(x) * (rate[x].window - rate[x].started - Grace)
    BY <1>0, Zenon DEF DirsOK, RateFloor, KeepsThird
  <2>2. CASE x # d
    <3>1. rate'[x] = rate[x] /\ judged'[x] = judged[x] BY <1>0, <1>4, <2>2, Zenon DEF DirsOK
    <3> QED BY <2>1, <3>1, Zenon
  <2>3. CASE x = d
    <3>1. /\ rate'[x] = Recorded(g, MinOf(d), clock)
          /\ judged'[x] = IF InGrace(g, clock) THEN judged[d] ELSE judged[d] + n
      BY <1>0, <1>4, <2>3, Zenon DEF DirsOK
    <3> QED BY <1>1, <1>4, <2>1, <2>3, <3>1, WindowAccepted, Zenon DEF g
  <2> QED BY <2>2, <2>3, Zenon
<1>6. rate' \in [Sides -> Guards] /\ \A x \in Sides : GuardOK(rate'[x], clock')
  <2>1. Recorded(g, MinOf(d), clock) \in Guards BY <1>3, Zenon DEF GuardOK
  <2> QED BY <1>0, <1>3, <1>4, <2>1, Zenon DEF DirsOK
<1>7. /\ judged' \in [Sides -> Nat] /\ sent' \in [Sides -> Nat] /\ buf' \in [Sides -> Nat]
      /\ writeBy' \in [Sides -> Nat \cup {NotYet}]
      /\ dir' \in [Sides -> {"read", "write", "done"}]
  BY <1>0, <1>1, <1>4 DEF DirsOK
<1>8. \A x \in Sides : buf'[x] \in 0..BytesOf(x) /\ (buf'[x] > 0 <=> dir'[x] = "write")
  BY <1>0, <1>1, <1>4, SMTT(30) DEF DirsOK
<1>9. DirsOK' BY <1>5, <1>6, <1>7, <1>8, Zenon DEF DirsOK, GuardOK
<1>10. TaskOK' BY <1>0, <1>4, Zenon DEF TaskOK, DurationInv, MonitorInv, monitor
<1>11. CompletedDelivers' /\ IdleDeserved'
  BY <1>1, <1>4, Zenon DEF CompletedDelivers, IdleDeserved
<1> QED BY <1>9, <1>10, <1>11, RelayPartsPrimed, Zenon

LEMMA RelayEof ==
  ASSUME RelayInv, NEW d \in Sides, Eof(d)
  PROVE  RelayInv'
<1>0. DirsOK /\ TaskOK BY RelayParts, Zenon
<1>1. /\ conn = "relaying" /\ dir[d] = "read" /\ dir' = [dir EXCEPT ![d] = "done"]
      /\ conn' = IF dir[Other(d)] = "done" THEN "Completed" ELSE conn
      /\ UNCHANGED <<clock, endBy, buf, writeBy, rate, monitor, history>>
  BY Zenon DEF Eof, Relaying
<1>2. DirsOK'
  <2>1. RateFloor' /\ \A x \in Sides : GuardOK(rate'[x], clock')
    BY <1>0, <1>1, Zenon DEF DirsOK, RateFloor, KeepsThird, history
  <2> QED BY <1>0, <1>1, <2>1, Zenon DEF DirsOK, history, GuardOK
<1>3. TaskOK'
  BY <1>0, <1>1, Zenon DEF TaskOK, DurationInv, MonitorInv, Outcomes, monitor, history
<1>4. CompletedDelivers'
  <2> SUFFICES ASSUME conn' = "Completed", NEW x \in Sides
      PROVE  dir'[x] = "done" /\ buf'[x] = 0
    BY Zenon DEF CompletedDelivers
  <2>1. dir[Other(d)] = "done" BY <1>1, Zenon
  <2>2. x = d \/ x = Other(d) BY DEF Sides, Other
  <2>3. Other(d) \in Sides /\ Other(d) # d BY Zenon DEF Sides, Other
  <2>4. dir'[x] = "done" BY <1>0, <1>1, <2>1, <2>2, <2>3, Zenon DEF DirsOK
  <2>5. dir[x] # "write" BY <1>1, <2>1, <2>2, Zenon
  <2>6. buf[x] \in Nat /\ ~(buf[x] > 0) BY <1>0, <2>5, Zenon DEF DirsOK
  <2> QED BY <1>1, <2>4, <2>6
<1>5. IdleDeserved' BY <1>1, Zenon DEF IdleDeserved
<1> QED BY <1>2, <1>3, <1>4, <1>5, RelayPartsPrimed, Zenon

LEMMA RelayWrites ==
  ASSUME RelayInv, NEW d \in Sides, Written(d)
  PROVE  RelayInv'
<1>0. DirsOK /\ TaskOK BY RelayParts
<1>1. /\ conn = "relaying" /\ dir' = [dir EXCEPT ![d] = "read"] /\ buf' = [buf EXCEPT ![d] = 0]
      /\ writeBy' = [writeBy EXCEPT ![d] = NotYet] /\ activity' = TRUE /\ wrote' = TRUE
      /\ UNCHANGED <<clock, conn, endBy, rate, idleAt, sent, judged, quietFrom>>
  BY Zenon DEF Written, Relaying
<1>2. DirsOK'
  <2>1. RateFloor' /\ \A x \in Sides : GuardOK(rate'[x], clock')
    BY <1>0, <1>1, Zenon DEF DirsOK, RateFloor, KeepsThird
  <2>2. \A x \in Sides : buf'[x] \in 0..BytesOf(x) /\ (buf'[x] > 0 <=> dir'[x] = "write")
    BY <1>0, <1>1, TcpRelayAssumption DEF DirsOK, BytesOf
  <2> QED BY <1>0, <1>1, <2>1, <2>2, Zenon DEF DirsOK, GuardOK
<1>3. TaskOK' BY <1>0, <1>1, Zenon DEF TaskOK, DurationInv, MonitorInv
<1>4. CompletedDelivers' /\ IdleDeserved' BY <1>1, Zenon DEF CompletedDelivers, IdleDeserved
<1> QED BY <1>2, <1>3, <1>4, RelayPartsPrimed, Zenon

LEMMA RelayActivity ==
  ASSUME RelayInv, Activity
  PROVE  RelayInv'
<1>0. DirsOK /\ TaskOK BY RelayParts
<1>1. /\ conn = "relaying" /\ activity' = FALSE /\ idleAt' = clock + IdleTicks
      /\ UNCHANGED <<clock, conn, endBy, dirs, history>>
      /\ clock \in Nat /\ IdleTicks \in Nat
  BY <1>0, TcpRelayAssumption DEF Activity, Relaying, TaskOK
<1>2. DirsOK' BY <1>0, <1>1, DirsKept DEF history
<1>3. TaskOK'
  <2>1. DurationInv' /\ MonitorInv'
    <3>1. /\ DurationInv /\ quietFrom \in 0..clock
          /\ UNCHANGED <<clock, conn, endBy, wrote, quietFrom>>
      BY <1>0, <1>1, Zenon DEF TaskOK, history
    <3>2. DurationInv' BY <3>1, Zenon DEF DurationInv
    <3>3. idleAt' \in Nat /\ quietFrom' + IdleTicks <= idleAt' /\ idleAt' = clock' + IdleTicks
      BY <1>1, <3>1
    <3> QED BY <1>1, <3>1, <3>2, <3>3, Zenon DEF MonitorInv
  <2>2. activity' \in BOOLEAN /\ wrote' \in BOOLEAN BY <1>0, <1>1, Zenon DEF TaskOK, history
  <2> QED BY <1>0, <1>1, <2>1, <2>2 DEF TaskOK, history
<1>4. CompletedDelivers' /\ IdleDeserved' BY <1>1, Zenon DEF CompletedDelivers, IdleDeserved
<1> QED BY <1>2, <1>3, <1>4, RelayPartsPrimed

LEMMA RelayTick ==
  ASSUME RelayInv, Tick
  PROVE  RelayInv'
<1>0. DirsOK /\ TaskOK BY RelayParts
<1>1. /\ conn \in {"connecting", "relaying"} /\ clock < endBy
      /\ conn = "relaying" => clock < idleAt /\ ~activity
      /\ clock' = clock + 1 /\ quietFrom' = IF wrote THEN clock ELSE quietFrom
      /\ wrote' = FALSE
      /\ UNCHANGED <<conn, endBy, dirs, monitor, sent, judged>>
      /\ clock \in Nat /\ IdleTicks \in Nat /\ ConnectTicks \in Nat /\ MaxTicks \in Nat
      /\ endBy \in Nat /\ quietFrom \in 0..clock
  <2>1. clock \in Nat /\ endBy \in Nat /\ quietFrom \in 0..clock BY <1>0 DEF TaskOK
  <2>2. IdleTicks \in Nat /\ ConnectTicks \in Nat /\ MaxTicks \in Nat BY TcpRelayAssumption, Zenon
  <2> QED BY <2>1, <2>2, Zenon DEF Tick, Relaying
<1>2. DirsOK' BY <1>0, <1>1, DirsKept
<1>3. DurationInv' BY <1>0, <1>1 DEF TaskOK, DurationInv
<1>4. MonitorInv' BY <1>0, <1>1 DEF TaskOK, MonitorInv, monitor
<1>5. clock' \in 0..(ConnectTicks + MaxTicks)
  BY <1>0, <1>1 DEF TaskOK, DurationInv
<1>6. TaskOK'
  <2>1. activity' \in BOOLEAN /\ wrote' \in BOOLEAN BY <1>0, <1>1, Zenon DEF TaskOK, monitor
  <2>2. quietFrom' \in 0..clock' BY <1>1
  <2> QED BY <1>0, <1>1, <1>3, <1>4, <1>5, <2>1, <2>2, Zenon DEF TaskOK, monitor
<1>7. CompletedDelivers' /\ IdleDeserved' BY <1>1, Zenon DEF CompletedDelivers, IdleDeserved
<1> QED BY <1>2, <1>6, <1>7, RelayPartsPrimed

LEMMA RelayStep ==
  ASSUME RelayInv, Next
  PROVE  RelayInv'
<1>0. TaskOK BY RelayParts, Zenon
<1>1. CASE ConnectFails BY <1>1, RelayEnds, Zenon DEF ConnectFails, Outcomes
<1>2. ASSUME NEW d \in Sides, NEW n \in Sizes, ReadTooSlow(d, n) PROVE RelayInv'
  BY <1>2, RelayEnds, Zenon DEF ReadTooSlow, TooSlow, Outcomes
<1>3. ASSUME NEW d \in Sides, WriteTimeout(d) PROVE RelayInv'
  BY <1>3, RelayEnds, Zenon DEF WriteTimeout, Outcomes
<1>4. ASSUME NEW d \in Sides, IoError(d) PROVE RelayInv'
  BY <1>4, RelayEnds, Zenon DEF IoError, Outcomes
<1>5. CASE IdleFires
  <2>1. clock - quietFrom >= IdleTicks
    BY <1>0, <1>5, TcpRelayAssumption DEF IdleFires, Relaying, TaskOK, MonitorInv
  <2> QED BY <1>5, <2>1, RelayEnds, Zenon DEF IdleFires, Outcomes
<1>6. CASE MaxDuration BY <1>6, RelayEnds, Zenon DEF MaxDuration, Outcomes
<1> QED BY Zenon, <1>1, <1>2, <1>3, <1>4, <1>5, <1>6, RelayConnects, RelayReads, RelayEof,
           RelayWrites, RelayActivity, RelayTick
        DEF Next

----------------------------------------------------------------------------
LEMMA BodyInit == B!Init \/ BodyOver => BodyInv
<1> SUFFICES ASSUME B!Init \/ BodyOver PROVE BodyInv
  BY Zenon
<1>1. /\ bodyClock = 0 /\ body \in {"open", "ended"} /\ remaining \in {0, BodyMaxBytes}
      /\ idleSleep = -1 /\ guard = [started |-> -1, window |-> -1, bytes |-> 0]
      /\ out = 0 /\ writeSleep = -1 /\ bodyJudged = 0 /\ polledAt = 0 /\ wroteAt = 0
  BY Zenon DEF B!Init, BodyOver, NotYet, B!NotYet, NewGuard, B!NewGuard
<1>2. B!TypeOK
  BY <1>1, BodyGuardAssumption DEF B!TypeOK, B!Errors, B!Guards, B!NotYet
<1>3. GuardOK(guard, bodyClock) BY <1>1 DEF GuardOK, Guards, NotYet
<1>4. BodyTimers /\ B!TimersExact /\ B!RateFloor
  BY <1>1, BodyGuardAssumption DEF BodyTimers, B!TimersExact, B!RateFloor, B!Open, NotYet, B!NotYet
<1> QED BY <1>2, <1>3, <1>4, Zenon DEF BodyInv

LEMMA RelayInit == Init \/ RelayOver => RelayInv
<1> SUFFICES ASSUME Init \/ RelayOver PROVE RelayInv
  OBVIOUS
<1>1. /\ clock = 0 /\ endBy \in {0, ConnectTicks}
      /\ \/ conn = "connecting" /\ endBy = ConnectTicks /\ dir = [d \in Sides |-> "read"]
         \/ conn = "Completed" /\ dir = [d \in Sides |-> "done"]
      /\ buf = [d \in Sides |-> 0] /\ writeBy = [d \in Sides |-> NotYet]
      /\ rate = [d \in Sides |-> NewGuard] /\ activity = FALSE /\ idleAt = NotYet
      /\ sent = buf /\ judged = buf /\ wrote = FALSE /\ quietFrom = 0
  BY Zenon DEF Init, RelayOver
<1>2. NewGuard \in Guards /\ GuardOK(NewGuard, 0) /\ NewGuard.window = NotYet
  BY DEF NewGuard, Guards, GuardOK, NotYet
<1>3. DirsOK
  <2>1. RateFloor BY <1>1, <1>2, Zenon DEF RateFloor, KeepsThird
  <2>2. \A d \in Sides : GuardOK(rate[d], clock) BY <1>1, <1>2, Zenon
  <2>3. \A d \in Sides : buf[d] \in 0..BytesOf(d) /\ (buf[d] > 0 <=> dir[d] = "write")
    BY <1>1, TcpRelayAssumption DEF BytesOf
  <2> QED BY <1>1, <1>2, <2>1, <2>2, <2>3, Zenon DEF DirsOK
<1>4. TaskOK
  <2>1. DurationInv /\ MonitorInv
    BY <1>1, TcpRelayAssumption DEF DurationInv, MonitorInv
  <2>2. conn \in {"connecting", "relaying"} \cup Outcomes BY <1>1, Zenon DEF Outcomes
  <2>3. activity \in BOOLEAN /\ wrote \in BOOLEAN BY <1>1, Zenon
  <2> QED BY <1>1, <2>1, <2>2, <2>3, TcpRelayAssumption DEF TaskOK
<1>5. CompletedDelivers /\ IdleDeserved BY <1>1, Zenon DEF CompletedDelivers, IdleDeserved
<1> QED BY <1>3, <1>4, <1>5, RelayParts, Zenon

LEMMA InitInv == MCInit => IInv
  BY BodyInit, RelayInit, Zenon DEF MCInit, IInv

LEMMA NextInv == IInv /\ [MCNext]_<<vars, bodyVars>> => IInv'
<1> SUFFICES ASSUME IInv, [MCNext]_<<vars, bodyVars>> PROVE IInv'
  BY Zenon
<1>1. ASSUME UNCHANGED bodyVars PROVE BodyInv'
  <2>1. BodyInv BY Zenon DEF IInv
  <2>2. B!TypeOK' /\ BodyTimers' /\ B!TimersExact' /\ B!RateFloor' /\ GuardOK(guard, bodyClock)'
    BY <1>1, <2>1
    DEF BodyInv, bodyVars, B!TypeOK, BodyTimers, B!TimersExact, B!RateFloor, GuardOK, B!Open
  <2> QED BY <2>2, Zenon DEF BodyInv
<1>2. ASSUME UNCHANGED vars PROVE RelayInv'
  <2>0. DirsOK /\ TaskOK /\ CompletedDelivers /\ IdleDeserved BY RelayParts, Zenon DEF IInv
  <2>1. clock \in Nat BY <2>0 DEF TaskOK
  <2>2. DirsOK'
    <3>1. UNCHANGED <<dirs, sent, judged>> BY <1>2, Zenon DEF vars, history
    <3>2. clock' = clock /\ clock <= clock' BY <1>2, <2>1 DEF vars
    <3> QED BY <2>0, <2>1, <3>1, <3>2, DirsKept, Zenon
  <2>3. TaskOK'
    BY <1>2, <2>0, Zenon DEF vars, monitor, history, TaskOK, DurationInv, MonitorInv
  <2>4. CompletedDelivers' /\ IdleDeserved'
    BY <1>2, <2>0, Zenon DEF vars, dirs, history, CompletedDelivers, IdleDeserved
  <2> QED BY <2>2, <2>3, <2>4, RelayPartsPrimed, Zenon
<1>3. CASE Next /\ UNCHANGED bodyVars BY <1>1, <1>3, RelayStep, Zenon DEF IInv
<1>4. CASE B!Next /\ UNCHANGED vars BY <1>2, <1>4, BodyStep, Zenon DEF IInv
<1>5. CASE UNCHANGED <<vars, bodyVars>> BY <1>1, <1>2, <1>5, Zenon DEF IInv
<1> QED BY <1>3, <1>4, <1>5, Zenon DEF MCNext

----------------------------------------------------------------------------
(* A body's timers count from when the receiver began to wait, the relay's *)
(* idle deadline counts from the last completed write of an earlier tick,  *)
(* and a rate guard's windows add up, at every step of either.             *)
THEOREM ConnectionsInvariant == MCSpec => []IInv
<1> QED BY InitInv, NextInv, PTL DEF MCSpec

(* poll_frame's idle timer, the write timer of DownstreamWriteTimeoutIo    *)
(* and the idle monitor of relay_bidirectional_with_idle are exact for     *)
(* every value of the timeouts.                                            *)
THEOREM TimersExactHolds == MCSpec => []TimersExact
<1>1. IInv => TimersExact BY Zenon DEF IInv, BodyInv, RelayInv, TimersExact
<1> QED BY <1>1, ConnectionsInvariant, PTL

(* relay_bidirectional_with_idle reports Completed only when both sides    *)
(* have closed and everything each had sent is written.                    *)
THEOREM CompletedDeliversHolds == MCSpec => []CompletedDelivers
<1>1. IInv => CompletedDelivers BY Zenon DEF IInv, RelayInv
<1> QED BY <1>1, ConnectionsInvariant, PTL

(* BodyRateGuard and TcpRateGuard never let the average since the grace    *)
(* period fall under half, or a third, of any configured minimum.          *)
THEOREM RateFloorsHold == MCSpec => []RateFloors
<1>1. IInv => RateFloors BY Zenon DEF IInv, BodyInv, RelayInv, RateFloors
<1> QED BY <1>1, ConnectionsInvariant, PTL

----------------------------------------------------------------------------
(* The clients' end of the connections: a load phase of the bench, whose   *)
(* workers open them, and what it reports (BenchPhase).                    *)
CONSTANTS Workers, MaxRequests

VARIABLES style, over, workerAt, attempt, issued, local, lock, abandoned, pc, tocheck,
          alive, merged, hung

P == INSTANCE BenchPhase WITH at <- workerAt

Past == {"release", "leaving", "dead"}

(* The lock belongs to the one worker in its critical section.             *)
LockInv ==
  /\ \A w \in Workers : w \in lock <=> workerAt[w] \in {"locked", "release"}
  /\ \A v, w \in lock : v = w

(* A request is counted when it is over.                                   *)
CountInv ==
  \A w \in Workers :
    local[w].requests + local[w].errors
      = IF workerAt[w] = "request" THEN issued[w] - 1 ELSE issued[w]

(* Who is through with merging has merged, or was seen alive.              *)
MergeInv ==
  /\ \A w \in merged : workerAt[w] \in Past
  /\ style # "slots" =>
       \A w \in Workers : workerAt[w] \in Past => w \in merged \/ w \in alive

(* What the caller has found out.                                          *)
CallerInv ==
  /\ pc = "join" => alive = {} /\ tocheck = Workers
  /\ pc \in {"join", "count"} => ~abandoned
  /\ pc = "lock" => abandoned
  /\ pc # "join" => \A w \in Workers \ tocheck : w \in alive \/ workerAt[w] = "dead"
  /\ (pc # "join" /\ style # "defense") =>
       alive = {} /\ \A w \in Workers : workerAt[w] = "dead"
  /\ pc \in {"lock", "returned"} => tocheck = {}
  /\ pc = "returned" =>
       IF abandoned THEN hung = alive /\ style = "defense"
       ELSE alive = {} /\ (style = "slots" => merged = Workers)
  /\ abandoned => style = "defense"

PhaseInv == P!TypeOK /\ LockInv /\ CountInv /\ MergeInv /\ CallerInv

LEMMA PhaseInit == P!Init => PhaseInv
<1> SUFFICES ASSUME P!Init PROVE PhaseInv
  BY Zenon
<1> USE DEF P!Init
<1>1. P!TypeOK
  <2>1. local \in [Workers -> [requests : Nat, errors : Nat]]
    BY Zenon
  <2>2. attempt \in [Workers -> 0..2] /\ issued \in [Workers -> Nat]
    OBVIOUS
  <2>3. workerAt \in [Workers -> {"loop", "request", "acquire", "locked", "release",
                                 "leaving", "dead"}]
    BY Zenon
  <2>4. over \in BOOLEAN /\ abandoned \in BOOLEAN BY Zenon
  <2>5. /\ style \in {"defense", "joined", "slots"} /\ pc \in {"join", "count", "lock", "returned"}
        /\ lock \in SUBSET Workers /\ tocheck \in SUBSET Workers
        /\ alive \in SUBSET Workers /\ merged \in SUBSET Workers
        /\ hung \in SUBSET Workers
    BY Zenon
  <2> QED BY <2>1, <2>2, <2>3, <2>4, <2>5, Zenon DEF P!TypeOK
<1>2. LockInv BY Zenon DEF LockInv
<1>3. CountInv BY DEF CountInv
<1>4. MergeInv BY Zenon DEF MergeInv, Past
<1>5. CallerInv BY Zenon DEF CallerInv
<1> QED BY <1>1, <1>2, <1>3, <1>4, <1>5, Zenon DEF PhaseInv

(* A worker's step.                                                        *)
LEMMA WorkerInv ==
  ASSUME PhaseInv, NEW w \in Workers, P!Worker(w)
  PROVE  PhaseInv'
<1> USE DEF PhaseInv, P!TypeOK
<1>1. P!TypeOK'
  <2>1. CASE P!Begin(w) BY <2>1 DEF P!Begin
  <2>2. CASE P!Answered(w) BY <2>2 DEF P!Answered
  <2>3. CASE P!Retry(w) BY <2>3 DEF P!Retry
  <2>4. CASE P!Failed(w) BY <2>4 DEF P!Failed
  <2>5. CASE P!LeaveLoop(w) BY <2>5, Zenon DEF P!LeaveLoop
  <2>6. CASE P!Acquire(w) BY <2>6, Zenon DEF P!Acquire
  <2>7. CASE P!Merge(w) BY <2>7, Zenon DEF P!Merge
  <2>8. CASE P!Release(w) BY <2>8, Zenon DEF P!Release
  <2>9. CASE P!Die(w) BY <2>9, Zenon DEF P!Die
  <2> QED BY <2>1, <2>2, <2>3, <2>4, <2>5, <2>6, <2>7, <2>8, <2>9, Zenon DEF P!Worker
<1>2. LockInv'
  BY DEF LockInv, P!Worker, P!Begin, P!Answered, P!Retry, P!Failed, P!LeaveLoop, P!Acquire,
         P!Merge, P!Release, P!Die
<1>3. CountInv'
  <2>1. CASE P!Begin(w) BY <2>1 DEF CountInv, P!Begin
  <2>2. CASE P!Answered(w) BY <2>2 DEF CountInv, P!Answered
  <2>3. CASE P!Retry(w) BY <2>3, Zenon DEF CountInv, P!Retry
  <2>4. CASE P!Failed(w) BY <2>4 DEF CountInv, P!Failed
  <2>5. CASE P!LeaveLoop(w) \/ P!Acquire(w) \/ P!Merge(w) \/ P!Release(w) \/ P!Die(w)
    BY <2>5, Zenon DEF CountInv, P!LeaveLoop, P!Acquire, P!Merge, P!Release, P!Die
  <2> QED BY <2>1, <2>2, <2>3, <2>4, <2>5, Zenon DEF P!Worker
<1>4. MergeInv'
  <2>1. CASE P!Begin(w) \/ P!Answered(w) \/ P!Retry(w) \/ P!Failed(w)
    BY <2>1, Zenon DEF MergeInv, Past, P!Begin, P!Answered, P!Retry, P!Failed
  <2>2. CASE P!LeaveLoop(w) BY <2>2, Zenon DEF MergeInv, Past, P!LeaveLoop
  <2>3. CASE P!Acquire(w) BY <2>3, Zenon DEF MergeInv, Past, P!Acquire
  <2>4. CASE P!Merge(w)
    <3>1. abandoned => w \in alive
      BY <2>4, Zenon DEF CallerInv, P!Merge
    <3> QED BY <3>1, <2>4, Zenon DEF MergeInv, Past, P!Merge
  <2>5. CASE P!Release(w) \/ P!Die(w) BY <2>5, Zenon DEF MergeInv, Past, P!Release, P!Die
  <2> QED BY <2>1, <2>2, <2>3, <2>4, <2>5, Zenon DEF P!Worker
<1>5. CallerInv'
  <2>1. workerAt[w] # "dead" /\ UNCHANGED <<style, abandoned, pc, tocheck, alive, hung>>
    BY Zenon DEF P!Worker, P!Begin, P!Answered, P!Retry, P!Failed, P!LeaveLoop, P!Acquire, P!Merge,
           P!Release, P!Die
  <2>2. \A v \in Workers : v # w => workerAt'[v] = workerAt[v]
    BY Zenon DEF P!Worker, P!Begin, P!Answered, P!Retry, P!Failed, P!LeaveLoop, P!Acquire, P!Merge,
           P!Release, P!Die
  <2>3. merged' = merged \/ (style # "slots" /\ pc' = pc)
        \/ (pc # "returned")
    BY <2>1, Zenon DEF P!Worker, P!Begin, P!Answered, P!Retry, P!Failed, P!LeaveLoop, P!Acquire,
           P!Merge, P!Release, P!Die, CallerInv
  <2> QED BY <2>1, <2>2, <2>3, Zenon DEF CallerInv
<1> QED BY <1>1, <1>2, <1>3, <1>4, <1>5, Zenon

(* A step of the thread that called run_phase.                             *)
LEMMA CallerStepInv ==
  ASSUME PhaseInv, P!Caller
  PROVE  PhaseInv'
<1> USE DEF PhaseInv, P!TypeOK
<1>1. CASE P!StopTime
  <2>1. P!TypeOK' BY <1>1, Zenon DEF P!StopTime, P!workerVars
  <2>2. LockInv' /\ CountInv' /\ MergeInv'
    BY <1>1, Zenon DEF P!StopTime, P!workerVars, LockInv, CountInv, MergeInv
  <2>3. CallerInv' BY <1>1, Zenon DEF P!StopTime, P!workerVars, CallerInv
  <2> QED BY <2>1, <2>2, <2>3, Zenon
<1>2. CASE P!Join
  <2>1. P!TypeOK' /\ LockInv' /\ CountInv' /\ MergeInv'
    BY <1>2, Zenon DEF P!Join, P!workerVars, LockInv, CountInv, MergeInv
  <2>2. CallerInv' BY <1>2, Zenon DEF P!Join, P!workerVars, CallerInv
  <2> QED BY <2>1, <2>2, Zenon
<1>3. CASE \E w \in Workers : P!IsAlive(w)
  <2> PICK w \in Workers : P!IsAlive(w) BY <1>3, Zenon
  <2>1. P!TypeOK' /\ LockInv' /\ CountInv' /\ MergeInv'
    BY Zenon DEF P!IsAlive, P!workerVars, LockInv, CountInv, MergeInv
  <2>2. CallerInv'
    BY Zenon DEF P!IsAlive, P!workerVars, CallerInv
  <2> QED BY <2>1, <2>2, Zenon
<1>4. CASE P!ReturnComplete
  <2>1. \A w \in Workers : workerAt[w] = "dead"
    BY <1>4, Zenon DEF P!ReturnComplete, CallerInv
  <2> QED BY <1>4, <2>1, Zenon DEF P!ReturnComplete, P!workerVars, LockInv, CountInv,
             MergeInv, CallerInv, Past
<1>5. CASE P!Abandon
  BY <1>5, Zenon DEF P!Abandon, P!workerVars, LockInv, CountInv, MergeInv, CallerInv
<1>6. CASE P!CountHung
  BY <1>6, Zenon DEF P!CountHung, P!workerVars, LockInv, CountInv, MergeInv, CallerInv
<1> QED BY <1>1, <1>2, <1>3, <1>4, <1>5, <1>6, Zenon DEF P!Caller

LEMMA PhaseNext == PhaseInv /\ [P!Next]_(P!vars) => PhaseInv'
<1> SUFFICES ASSUME PhaseInv, [P!Next]_(P!vars) PROVE PhaseInv'
  BY Zenon
<1>1. CASE P!Caller BY <1>1, CallerStepInv, Zenon
<1>2. CASE \E w \in Workers : P!Worker(w) BY <1>2, WorkerInv, Zenon
<1>3. CASE UNCHANGED P!vars
  BY <1>3, Zenon DEF P!vars, P!workerVars, PhaseInv, P!TypeOK, LockInv, CountInv, MergeInv, CallerInv
<1> QED BY <1>1, <1>2, <1>3, Zenon DEF P!Next

(* The inductive invariant of run_phase and its workers.                   *)
THEOREM PhaseInvariant == P!Spec => []PhaseInv
  BY PhaseInit, PhaseNext, PTL DEF P!Spec

(* When run_phase returns, every worker is merged or counted as hung, and  *)
(* each request of a merged worker is counted once.                        *)
THEOREM PhaseAccountedHolds == P!Spec => []P!PhaseAccounted
<1>1. PhaseInv => P!PhaseAccounted
  <2> SUFFICES ASSUME PhaseInv, pc = "returned"
      PROVE  /\ merged \cup hung = Workers
             /\ \A w \in merged : local[w].requests + local[w].errors = issued[w]
    BY Zenon DEF P!PhaseAccounted
  <2> USE DEF PhaseInv, P!TypeOK
  <2>1. \A w \in Workers : w \in merged \/ w \in hung
    BY Zenon DEF CallerInv, MergeInv, Past
  <2>2. \A w \in merged : w \in Workers /\ workerAt[w] # "request"
    BY Zenon DEF MergeInv, Past
  <2> QED BY <2>1, <2>2, Zenon DEF CountInv
<1> QED BY <1>1, PhaseInvariant, PTL

(* Nothing a late worker does changes the result run_phase has returned.   *)
THEOREM ResultFrozenHolds == P!Spec => P!ResultFrozen
<1>1. PhaseInv /\ [P!Next]_(P!vars) =>
        [pc = "returned" => merged' = merged /\ hung' = hung]_(P!vars)
  <2> SUFFICES ASSUME PhaseInv, P!Next, pc = "returned"
      PROVE  merged' = merged /\ hung' = hung
    BY Zenon DEF P!vars
  <2> USE DEF PhaseInv, P!TypeOK
  <2>1. CASE P!Caller
    BY <2>1, Zenon DEF P!Caller, P!StopTime, P!Join, P!IsAlive, P!ReturnComplete, P!Abandon, P!CountHung
  <2>2. CASE \E w \in Workers : P!Worker(w)
    <3> PICK w \in Workers : P!Worker(w) BY <2>2, Zenon
    <3>1. workerAt[w] = "locked" => abandoned
      BY Zenon DEF CallerInv
    <3> QED BY <3>1, Zenon DEF P!Worker, P!Begin, P!Answered, P!Retry, P!Failed, P!LeaveLoop,
               P!Acquire, P!Merge, P!Release, P!Die
  <2> QED BY <2>1, <2>2, Zenon DEF P!Next
<1> QED BY <1>1, PhaseInvariant, PTL DEF P!ResultFrozen, P!Spec
=============================================================================

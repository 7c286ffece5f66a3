---------------------------- MODULE FloodProofs ----------------------------
(***************************************************************************)
(* For every set of observers and keys and every setting of the thresholds *)
(* and periods: the detector activates filters on floods only and on every *)
(* flood that comes at once, forgets no window before its time, and logs   *)
(* no more than its budgets (AdaptiveDetector).                            *)
(***************************************************************************)
EXTENDS AdaptiveDetector, TLAPS

(* From some observation on, every token the bucket lacks was taken by an  *)
(* observation; slack is time that passed before the first of them.        *)
Paid(times, b, slack) == \E i \in 1..Len(times) :
  b.tokens + (Len(times) - i + 1) >= Burst + Rate * (b.last - times[i] - slack)

(* Observations of one instant have each taken a token, or found none.     *)
Drawn(times, b) ==
  /\ b.last >= times[Len(times)]
  /\ \A m \in 1..Len(times) :
       (\A i \in (Len(times) - m + 1)..Len(times) : times[i] = times[Len(times)])
         => b.tokens = 0 \/ b.tokens + m <= Burst

(* What a bucket says of the observations it was charged with.             *)
Counted(times, b, slack) ==
  IF Len(times) = 0 THEN b.tokens = Burst ELSE Paid(times, b, slack) /\ Drawn(times, b)

(* The last event was regular or strong; of the two before the next one,   *)
(* either they are a cooldown apart, or both kinds have to cool down.      *)
EventsOK(evs, regular, strong, t) ==
  LET n == Len(evs)
  IN  /\ \A i \in 1..n : evs[i] <= t
      /\ \A i \in 1..(n - 2) : evs[i + 2] - evs[i] >= Cooldown - MaxDelay
      /\ n >= 1 => evs[n] \in {regular, strong}
      /\ n >= 2 => \/ evs[n] - evs[n - 1] >= Cooldown
                   \/ /\ regular # Never /\ regular >= evs[n - 1] - MaxDelay
                      /\ strong # Never /\ strong >= evs[n - 1] - MaxDelay

(* The last emitted samples are of this sample window; those before are    *)
(* older than it, and those a whole budget before a second older.          *)
SamplesOK(ss, start, emitted, t) ==
  LET n == Len(ss)
  IN  /\ emitted <= MaxSamples /\ emitted <= n /\ start <= t
      /\ \A i \in 1..n : ss[i] < start + Second
      /\ \A i \in 1..(n - emitted) : ss[i] <= start
      /\ \A i \in 1..(n - emitted - MaxSamples) : ss[i] + Second <= start
      /\ \A i \in 1..(n - 2 * MaxSamples) :
           ss[i + 2 * MaxSamples] - ss[i] >= Second - MaxDelay

Ticks == 0..MaxClock

SigWindows == [bucket : Bucket(Burst), lastEvent : Ticks \cup {Never},
               lastStrong : Ticks \cup {Never}, lastSeen : Ticks]

ShapeWindows == [bucket : Bucket(Burst), strong : Bucket(Burst), start : Ticks,
                 emitted : Nat, lastSeen : Ticks]

SigOK(w, times, evs, t) ==
  /\ w \in SigWindows /\ w.bucket.last <= t /\ w.lastSeen <= t
  /\ Threshold # 1 => Counted(times, w.bucket, 0)
  /\ EventsOK(evs, w.lastEvent, w.lastStrong, t)

ShapeOK(w, strongs, ss, t) ==
  /\ w \in ShapeWindows /\ w.bucket.last <= t /\ w.strong.last <= t
  /\ w.lastSeen <= t
  /\ Threshold # 1 => Counted(strongs, w.strong, MaxDelay)
  /\ SamplesOK(ss, w.start, w.emitted, t)

Results == [activate : BOOLEAN, emit : BOOLEAN]

Requests == [sig : Signatures \cup {"none"}, shape : Shapes \cup {"none"},
             reason : Reasons \cup {"none"}]

Types ==
  /\ clock \in Ticks
  /\ at \in [Observers -> {"idle", "signature", "shape", "publish"}]
  /\ observed \in 0..MaxObserved
  /\ req \in [Observers -> Requests]
  /\ since \in [Observers -> Ticks]
  /\ obs \in [Observers -> [sig : Results, shape : Results]]
  /\ sig \in [Signatures -> SigWindows] /\ shape \in [Shapes -> ShapeWindows]
  /\ touched \in [Keys -> Ticks]
  /\ sigAt \in [Signatures -> Seq(Nat)] /\ events \in [Signatures -> Seq(Nat)]
  /\ strongAt \in [Shapes -> Seq(Nat)] /\ samples \in [Shapes -> Seq(Nat)]

(* An observer has a request, and nothing from a shard it has not entered. *)
ObserverInv ==
  \A o \in Observers :
    /\ since[o] <= clock
    /\ at[o] # "idle" => req[o].sig \in Signatures /\ req[o].shape \in Shapes
    /\ at[o] \in {"idle", "signature"} => obs[o].sig = Nothing
    /\ at[o] \in {"idle", "signature", "shape"} => obs[o].shape = Nothing

SigInv ==
  \A s \in sigs.keys :
    /\ SigOK(sig[s], sigAt[s], events[s], clock) /\ Len(sigAt[s]) # 0
    /\ touched[s] <= sig[s].lastSeen + MaxDelay

ShapeInv ==
  \A p \in shapes.keys :
    /\ ShapeOK(shape[p], strongAt[p], samples[p], clock)
    /\ touched[p] <= shape[p].lastSeen + MaxDelay

(* What is kept of a path shape goes with its window.                      *)
GoneInv == \A p \in Shapes \ shapes.keys : strongAt[p] = << >>

IInv ==
  /\ Types /\ sigs.keys \subseteq Signatures /\ shapes.keys \subseteq Shapes
  /\ \A k \in Keys : touched[k] <= clock
  /\ ObserverInv /\ SigInv /\ ShapeInv /\ GoneInv /\ LoggingBounded

----------------------------------------------------------------------------
(* What the assumptions say of the numbers.                                *)
LEMMA Numbers ==
  /\ Rate \in Nat /\ Rate # 0 /\ Second \in Nat /\ Second # 0
  /\ Threshold \in Nat /\ Threshold # 0 /\ Burst \in Nat /\ Burst # 0
  /\ Threshold # 1 => Burst = Threshold - 1
  /\ MaxDelay \in Nat /\ Cooldown \in Nat /\ Cooldown # 0
  /\ MaxSamples \in Nat /\ MaxSamples # 0 /\ MaxClock \in Nat /\ IdleTicks \in Nat
<1>1. Threshold \in Nat /\ Threshold # 0
  BY DetectorAssumption DEF Threshold
<1>2. Burst \in Nat /\ Burst # 0 /\ (Threshold # 1 => Burst = Threshold - 1)
  BY <1>1 DEF Burst
<1> QED BY <1>1, <1>2, DetectorAssumption, CoreAssumption, Zenon

(* Products of the rate and a time.                                        *)
LEMMA RateTimes ==
  ASSUME NEW a \in Int, NEW b \in Int
  PROVE  /\ Rate * a \in Int /\ Rate * b \in Int
         /\ Rate * (a + b) = Rate * a + Rate * b
         /\ a <= b => Rate * a <= Rate * b
<1>1. Rate \in Nat BY Numbers, Zenon
<1>2. Rate * (a + b) = Rate * a + Rate * b BY <1>1
<1>3. ASSUME a <= b PROVE Rate * a <= Rate * b
  <2>1. PICK c \in Nat : b = a + c
    <3>1. b - a \in Nat /\ b = a + (b - a) BY <1>3
    <3> QED BY <3>1, Zenon
  <2>2. Rate * b = Rate * a + Rate * c /\ Rate * c \in Nat BY <1>1, <2>1
  <2> QED BY <1>1, <2>2
<1> QED BY <1>1, <1>2, <1>3

(* h2 is h with x at its end.                                              *)
Extended(h, x, h2) ==
  /\ h \in Seq(Nat) /\ h2 \in Seq(Nat) /\ x \in Nat
  /\ Len(h) \in Nat /\ Len(h2) = Len(h) + 1
  /\ \A i \in 1..Len(h) : h2[i] = h[i] /\ h[i] \in Nat
  /\ h2[Len(h) + 1] = x

LEMMA AppendExtends ==
  ASSUME NEW h \in Seq(Nat), NEW x \in Nat
  PROVE  Extended(h, x, Append(h, x))
BY DEF Extended

(* A refill that does not fill the bucket adds all the time it moves over. *)
LEMMA RefilledExact ==
  ASSUME NEW b \in Bucket(Burst), NEW now \in Ticks, NEW r, r = Refilled(b, now)
  PROVE  /\ r \in Bucket(Burst)
         /\ IF now > b.last
            THEN /\ r.last = now
                 /\ r.tokens = Burst \/ r.tokens = b.tokens + Rate * (now - b.last)
            ELSE r = b
<1>1. Burst \in Nat /\ Rate \in Nat BY Numbers, Zenon
<1>2. now \in 0..MaxClock /\ r = Refill(b, Rate, Burst, now) BY Zenon DEF Ticks, Refilled
<1>3. /\ b.last \in 0..MaxClock /\ b.tokens \in 0..Burst
      /\ b.last \in Int /\ now \in Int /\ MaxClock \in Nat
  BY <1>2, Numbers DEF Bucket
<1>4. CASE now > b.last
  <2>1. PICK add \in Nat : add = (now - b.last) * Rate BY <1>1, <1>3, <1>4
  <2>2. Rate * (now - b.last) = add BY <1>1, <1>3, <2>1
  <2>3. r = [tokens |-> IF b.tokens + add > Burst THEN Burst ELSE b.tokens + add,
             last |-> now]
    BY <1>2, <1>4, <2>1, Zenon DEF Refill
  <2> QED BY <1>1, <1>2, <1>3, <1>4, <2>1, <2>2, <2>3 DEF Bucket
<1>5. CASE ~(now > b.last)
  BY <1>2, <1>5, Zenon DEF Refill
<1> QED BY <1>4, <1>5, Zenon

(* What charging an observation leaves in the bucket.                      *)
LEMMA ChargedBucket ==
  ASSUME NEW b \in Bucket(Burst), NEW now \in Ticks,
         NEW r, r = Refilled(b, now), NEW c, c = Charged(b, now)
  PROVE  /\ c \in Bucket(Burst) /\ (c.last = b.last \/ c.last = now)
         /\ Threshold # 1 => /\ c.last = r.last
                             /\ Pressure(b, now) <=> r.tokens = 0
                             /\ c.tokens = IF r.tokens = 0 THEN 0 ELSE r.tokens - 1
<1>0. CASE Threshold = 1 BY <1>0, Zenon DEF Charged
<1> SUFFICES ASSUME Threshold # 1
             PROVE  /\ c \in Bucket(Burst) /\ c.last = r.last
                    /\ Pressure(b, now) <=> r.tokens = 0
                    /\ c.tokens = IF r.tokens = 0 THEN 0 ELSE r.tokens - 1
  <2>1. IF now > b.last THEN r.last = now ELSE r = b BY RefilledExact, Zenon
  <2> QED BY <1>0, <2>1, Zenon
<1>1. r \in Bucket(Burst) BY RefilledExact, Zenon
<1>2. r.tokens \in Nat /\ r.tokens <= Burst /\ r = [tokens |-> r.tokens, last |-> r.last]
  BY <1>1, Numbers DEF Bucket
<1>3. Pressure(b, now) <=> r.tokens = 0
  BY <1>2 DEF Pressure
<1>4. c = IF r.tokens = 0 THEN r ELSE [r EXCEPT !.tokens = @ - 1]
  BY <1>3, Zenon DEF Charged, Consume
<1>5. CASE r.tokens = 0 BY <1>1, <1>3, <1>4, <1>5, Zenon
<1>6. CASE r.tokens # 0
  <2>1. c = [r EXCEPT !.tokens = @ - 1] BY <1>4, <1>6, Zenon
  <2>2. c.tokens = r.tokens - 1 /\ c.last = r.last BY <1>2, <2>1, Zenon
  <2>3. c = [tokens |-> r.tokens - 1, last |-> r.last] BY <1>2, <2>1, Zenon
  <2>4. r.tokens - 1 \in 0..Burst /\ r.last \in 0..MaxClock
    BY <1>1, <1>2, <1>6, Numbers DEF Bucket
  <2>5. c \in Bucket(Burst) BY <2>3, <2>4 DEF Bucket
  <2> QED BY <1>3, <1>6, <2>2, <2>5, Zenon
<1> QED BY <1>5, <1>6, Zenon

(* A bucket counts the observation it is charged with, and activates on a  *)
(* flood only and on every flood of one instant.                           *)
LEMMA ChargeCounts ==
  ASSUME NEW b \in Bucket(Burst), NEW now \in Ticks,
         NEW h, NEW h2, Extended(h, now, h2), NEW slack \in Nat,
         Threshold # 1 => Counted(h, b, slack), Len(h) = 0 => b.last <= now + slack
  PROVE  /\ Charged(b, now) \in Bucket(Burst)
         /\ Charged(b, now).last = b.last \/ Charged(b, now).last = now
         /\ Threshold # 1 => Counted(h2, Charged(b, now), slack)
         /\ Pressure(b, now) => Flood(h2, slack)
         /\ Suddenly(h2) => Pressure(b, now)
<1>1. CASE Threshold = 1
  <2>1. Charged(b, now) = b /\ Pressure(b, now) BY <1>1, Zenon DEF Charged, Pressure
  <2>2. Flood(h2, slack)
    <3>1. PICK n \in Nat : n = Len(h2) /\ n \in 1..Len(h2) /\ h2[n] = now /\ now \in Nat
      BY DEF Extended
    <3>2. PICK d \in Int : d = now - now - slack /\ d <= 0 BY <3>1
    <3>3. Rate * d \in Int /\ Rate * d <= 0
      <4>1. 0 \in Int /\ Rate * 0 = 0 BY Numbers
      <4> QED BY <3>2, <4>1, RateTimes, Zenon
    <3>4. n - n + 1 >= Threshold + Rate * d BY <1>1, <3>1, <3>3
    <3> QED BY <3>1, <3>2, <3>4, Zenon DEF Flood
  <2> QED BY <1>1, <2>1, <2>2, Zenon
<1> SUFFICES ASSUME Threshold # 1, Counted(h, b, slack),
                    NEW r, r = Refilled(b, now), NEW c, c = Charged(b, now)
             PROVE  /\ c \in Bucket(Burst) /\ (c.last = b.last \/ c.last = now)
                    /\ Counted(h2, c, slack)
                    /\ Pressure(b, now) => Flood(h2, slack)
                    /\ Suddenly(h2) => Pressure(b, now)
  BY <1>1, Zenon
<1>2. /\ r \in Bucket(Burst) /\ c \in Bucket(Burst) /\ c.last = r.last
      /\ c.last = b.last \/ c.last = now
      /\ c.tokens = IF r.tokens = 0 THEN 0 ELSE r.tokens - 1
      /\ Pressure(b, now) <=> r.tokens = 0
      /\ IF now > b.last
         THEN /\ r.last = now
              /\ r.tokens = Burst \/ r.tokens = b.tokens + Rate * (now - b.last)
         ELSE r = b
  BY RefilledExact, ChargedBucket
(* After the refill for a new observation, some observation accounts for   *)
(* all the tokens that the others before the new one have taken.           *)
<1>3. \E i \in 1..Len(h2) :
        r.tokens + (Len(h2) - i) >= Burst + Rate * (r.last - h2[i] - slack)
  <2>2. /\ r.tokens \in Nat /\ r.last \in Nat /\ r.tokens <= Burst
        /\ b.tokens \in Nat /\ b.last \in Nat /\ b.tokens <= Burst
        /\ Burst \in Nat /\ now \in Nat
    BY <1>2, Numbers DEF Bucket, Ticks
  <2>3. PICK n \in Nat : n = Len(h) /\ Len(h2) = n + 1 /\ h2[n + 1] = now
    BY Zenon DEF Extended
  <2>4. ASSUME r.tokens = Burst, r.last <= now + slack
        PROVE  r.tokens + (Len(h2) - (n + 1)) >= Burst + Rate * (r.last - h2[n + 1] - slack)
    <3>1. PICK d \in Int : d = r.last - now - slack BY <2>2
    <3>2. d <= 0 BY <2>2, <2>4, <3>1
    <3>3. Rate * d \in Int /\ Rate * d <= Rate * 0
      <4>1. 0 \in Int OBVIOUS
      <4> QED BY <3>1, <3>2, <4>1, RateTimes, Zenon
    <3>4. Rate * 0 = 0 BY Numbers
    <3> QED BY <2>2, <2>3, <2>4, <3>1, <3>3, <3>4
  <2>5. n + 1 \in 1..Len(h2) BY <2>3
  <2>6. CASE n = 0
    <3>1. b.tokens = Burst /\ b.last <= now + slack BY <2>3, <2>6, Zenon DEF Counted
    <3>2. r.tokens = Burst
      <4>1. CASE now > b.last
        <5>1. PICK d \in Nat : d = now - b.last
          <6>1. now - b.last \in Nat BY <2>2, <4>1
          <6> QED BY <6>1, Zenon
        <5>2. Rate * d \in Nat BY <5>1, Numbers
        <5> QED BY <1>2, <2>2, <3>1, <4>1, <5>1, <5>2
      <4> QED BY <1>2, <3>1, <4>1, Zenon
    <3>3. r.last <= now + slack BY <1>2, <2>2, <3>1
    <3> QED BY <2>4, <2>5, <3>2, <3>3, Zenon
  <2>7. CASE n # 0 /\ r.tokens = Burst /\ now > b.last
    <3>1. r.last <= now + slack BY <1>2, <2>2, <2>7
    <3> QED BY <2>4, <2>5, <2>7, <3>1, Zenon
  <2>8. CASE n # 0 /\ ~(r.tokens = Burst /\ now > b.last)
    <3>1. PICK i \in 1..n : b.tokens + (n - i + 1) >= Burst + Rate * (b.last - h[i] - slack)
      BY <2>3, <2>8, Zenon DEF Counted, Paid
    <3>2. i \in 1..Len(h2) /\ i \in Nat /\ i <= n /\ h2[i] = h[i] /\ h[i] \in Nat
      BY <2>3 DEF Extended
    <3>x. PICK x \in Nat : x = h[i] /\ x = h2[i] BY <3>2, Zenon
    <3>3. PICK e \in Int : e = b.last - x - slack BY <2>2
    <3>4. PICK d \in Int : d = r.last - b.last BY <2>2
    <3>5. r.tokens = b.tokens + Rate * d
      <4>1. CASE now > b.last BY <1>2, <2>8, <3>4, <4>1, Zenon
      <4>2. CASE ~(now > b.last)
        <5>1. d = 0 /\ r.tokens = b.tokens BY <1>2, <2>2, <3>4, <4>2
        <5>2. Rate * 0 = 0 BY Numbers
        <5> QED BY <2>2, <5>1, <5>2
      <4> QED BY <4>1, <4>2, Zenon
    <3>6. Rate * (e + d) = Rate * e + Rate * d /\ Rate * e \in Int /\ Rate * d \in Int
      BY RateTimes, Zenon
    <3>7. r.last - x - slack = e + d
      <4>1. PICK p \in Int, q \in Int : p = r.last /\ q = b.last BY <2>2
      <4>2. e = q - x - slack /\ d = p - q BY <3>3, <3>4, <4>1, Zenon
      <4>3. p - x - slack = e + d BY <4>2
      <4> QED BY <4>1, <4>3, Zenon
    <3>8. r.tokens + (n + 1 - i) >= Burst + Rate * (e + d)
      <4>1. b.tokens + (n - i + 1) >= Burst + Rate * e BY <3>1, <3>x, <3>3, Zenon
      <4>2. PICK f \in Int, g \in Int : f = Rate * e /\ g = Rate * d BY <3>6, Zenon
      <4>3. b.tokens + (n - i + 1) >= Burst + f /\ r.tokens = b.tokens + g
        BY <3>5, <4>1, <4>2, Zenon
      <4>4. r.tokens + (n + 1 - i) >= Burst + (f + g) BY <2>2, <3>2, <4>3
      <4> QED BY <3>6, <4>2, <4>4, Zenon
    <3> QED BY <2>3, <3>2, <3>x, <3>7, <3>8
  <2> QED BY <2>6, <2>7, <2>8, Zenon
(* A bucket without a token shows a flood.                                 *)
<1>4. ASSUME Pressure(b, now) PROVE Flood(h2, slack)
  <2>2. PICK i \in 1..Len(h2) :
          r.tokens + (Len(h2) - i) >= Burst + Rate * (r.last - h2[i] - slack)
    BY <1>3, Zenon
  <2>3. r.tokens = 0 BY <1>2, <1>4, Zenon
  <2>4. r \in Bucket(Burst) /\ IF now > b.last THEN r.last = now ELSE r = b
    BY <1>2, Zenon
  <2>5. now \in Nat /\ r.last \in Nat /\ r.last >= now
    BY <2>4, Numbers DEF Ticks, Bucket
  <2>6. PICK n \in Nat : n = Len(h2) /\ h2[n] = now
    <3>1. Len(h2) \in Nat /\ h2[Len(h2)] = now BY DEF Extended
    <3> QED BY <3>1, Zenon
  <2>7. PICK x \in Nat : x = h2[i]
    <3>1. h2[i] \in Nat BY <2>5 DEF Extended
    <3> QED BY <3>1, Zenon
  <2>8. PICK d \in Int, e \in Int : d = now - x - slack /\ e = r.last - x - slack
    BY <2>5
  <2>9. d <= e
    <3>1. PICK p \in Nat : p = r.last BY <2>5, Zenon
    <3> QED BY <2>5, <2>8, <3>1
  <2>10. Rate * d <= Rate * e /\ Rate * d \in Int /\ Rate * e \in Int
    BY <2>9, RateTimes, Zenon
  <2>11. n - i >= Burst + Rate * e
    <3>1. 0 + (n - i) >= Burst + Rate * e BY <2>2, <2>3, <2>6, <2>7, <2>8, Zenon
    <3> QED BY <2>6, <3>1
  <2>12. n - i + 1 >= Threshold + Rate * d
    <3>1. PICK f \in Int, g \in Int : f = Rate * d /\ g = Rate * e BY <2>10, Zenon
    <3>2. f <= g /\ n - i >= Burst + g BY <2>10, <2>11, <3>1, Zenon
    <3>3. n - i + 1 >= Threshold + f BY <3>2, Numbers
    <3> QED BY <3>1, <3>3, Zenon
  <2> QED BY <2>6, <2>7, <2>8, <2>12, Zenon DEF Flood
(* Observations of one instant that end with the new one, and the bucket   *)
(* before it.                                                              *)
<1>5. ASSUME NEW m \in 2..Len(h2),
             \A i \in (Len(h2) - m + 1)..Len(h2) : h2[i] = h2[Len(h2)]
      PROVE  r.tokens = 0 \/ r.tokens + (m - 1) <= Burst
  <2>1. PICK n \in Nat : n = Len(h) /\ n + 1 = Len(h2) /\ h2[n + 1] = now
    BY Zenon DEF Extended
  <2>2. m \in Int /\ 2 <= m /\ m <= n + 1 /\ n >= 1 BY <2>1, <1>5
  <2>3. \A i \in (n + 2 - m)..(n + 1) : h2[i] = now
    BY <1>5, <2>1, <2>2
  <2>4. \A i \in 1..n : h2[i] = h[i] BY <2>1, Zenon DEF Extended
  <2>5. \A i \in (n - (m - 1) + 1)..n : h[i] = now
    BY <2>1, <2>2, <2>3, <2>4
  <2>6. n \in (n - (m - 1) + 1)..n BY <2>1, <2>2
  <2>7. h[n] = now BY <2>5, <2>6, Zenon
  <2>8. Drawn(h, b) BY <2>1, <2>2 DEF Counted
  <2>9. b.last >= now /\ (b.tokens = 0 \/ b.tokens + (m - 1) <= Burst)
    <3>1. m - 1 \in 1..n BY <2>1, <2>2
    <3>2. \A i \in (Len(h) - (m - 1) + 1)..Len(h) : h[i] = h[Len(h)]
      BY <2>1, <2>5, <2>7, Zenon
    <3> QED BY <2>1, <2>7, <2>8, <3>1, <3>2, Zenon DEF Drawn
  <2>10. r = b
    <3>1. b.last \in Int /\ now \in Int BY Numbers DEF Bucket, Ticks
    <3>2. ~(now > b.last) BY <2>9, <3>1
    <3> QED BY <1>2, <3>2, Zenon
  <2> QED BY <2>9, <2>10, Zenon
(* What the charged bucket says of the observations, the new one included. *)
<1>6. Paid(h2, c, slack)
  <2>2. PICK i \in 1..Len(h2) :
          r.tokens + (Len(h2) - i) >= Burst + Rate * (r.last - h2[i] - slack)
    BY <1>3
  <2>3. c.last = r.last /\ c.tokens = IF r.tokens = 0 THEN 0 ELSE r.tokens - 1
    BY <1>2, Zenon
  <2>4. r.tokens \in Nat /\ r.last \in Int BY <1>2, Numbers DEF Bucket
  <2>5. PICK n \in Nat : n = Len(h2) BY DEF Extended
  <2>6. PICK e \in Int : e = Rate * (r.last - h2[i] - slack)
    <3>1. h2[i] \in Nat BY DEF Extended, Ticks
    <3>2. r.last - h2[i] - slack \in Int BY <2>4, <3>1
    <3> QED BY <3>2, RateTimes, Zenon
  <2>7. r.tokens + (n - i) >= Burst + e BY <2>2, <2>5, <2>6, Zenon
  <2>8. c.tokens + (n - i + 1) >= Burst + e
    BY <2>3, <2>4, <2>7, Numbers
  <2> QED BY <2>3, <2>5, <2>6, <2>8, Zenon DEF Paid
<1>7. Drawn(h2, c)
  <2>3. r.tokens \in Nat /\ r.tokens <= Burst /\ r.last \in Nat /\ r.last >= now
    BY <1>2, Numbers DEF Bucket, Ticks
  <2>4. Len(h2) \in Nat /\ h2[Len(h2)] = now BY DEF Extended
  <2>5. c.last >= h2[Len(h2)] BY <1>2, <2>3, <2>4, Zenon
  <2>6. ASSUME NEW m \in 1..Len(h2),
               \A i \in (Len(h2) - m + 1)..Len(h2) : h2[i] = h2[Len(h2)]
        PROVE  c.tokens = 0 \/ c.tokens + m <= Burst
    <3>1. CASE m = 1 BY <1>2, <2>3, <3>1, Numbers
    <3>2. CASE m # 1
      <4>1. m \in 2..Len(h2) BY <2>4, <3>2
      <4>2. r.tokens = 0 \/ r.tokens + (m - 1) <= Burst
        BY <2>6, <4>1, <1>5, Zenon
      <4> QED BY <1>2, <2>3, <4>2, Numbers
    <3> QED BY <3>1, <3>2, Zenon
  <2> QED BY <2>5, <2>6, Zenon DEF Drawn
<1>8. Counted(h2, c, slack)
  <2>1. Len(h2) # 0 BY DEF Extended
  <2> QED BY <1>6, <1>7, <2>1, Zenon DEF Counted
<1>9. ASSUME Suddenly(h2) PROVE Pressure(b, now)
  <2>1. Threshold \in 2..Len(h2) BY <1>9, Numbers DEF Suddenly, Extended
  <2>2. r.tokens = 0 \/ r.tokens + (Threshold - 1) <= Burst
    BY <1>5, <1>9, <2>1, Zenon DEF Suddenly
  <2>3. r.tokens \in Nat BY <1>2, Numbers DEF Bucket
  <2> QED BY <1>2, <2>2, <2>3, Numbers
<1> QED BY <1>2, <1>4, <1>8, <1>9, Zenon

(* An event, regular or strong or both, keeps the events of a signature    *)
(* apart.                                                                  *)
LEMMA EventStep ==
  ASSUME NEW t \in Ticks, NEW now \in Ticks, now <= t, t - now <= MaxDelay,
         NEW le \in Ticks \cup {Never}, NEW ls \in Ticks \cup {Never},
         NEW h, NEW h2, Extended(h, now, h2), EventsOK(h, le, ls, t),
         NEW regular \in BOOLEAN, NEW strongly \in BOOLEAN, regular \/ strongly,
         regular => CooledDown(le, now), strongly => CooledDown(ls, now)
  PROVE  EventsOK(h2, IF regular THEN now ELSE le, IF strongly THEN now ELSE ls, t)
<1> DEFINE le2 == IF regular THEN now ELSE le
           ls2 == IF strongly THEN now ELSE ls
<1>1. /\ t \in Nat /\ now \in Nat /\ le \in Int /\ ls \in Int /\ Cooldown \in Nat
      /\ Cooldown # 0 /\ MaxDelay \in Nat /\ le2 \in Int /\ ls2 \in Int
      /\ le # Never => le \in Nat
      /\ ls # Never => ls \in Nat
  BY Numbers DEF Ticks, Never
<1>2. PICK n \in Nat : /\ n = Len(h) /\ Len(h2) = n + 1 /\ h2[n + 1] = now
                       /\ \A i \in 1..n : h2[i] = h[i] /\ h[i] \in Nat
  BY Zenon DEF Extended
<1>3. regular => le = Never \/ now >= le + Cooldown
  BY <1>1 DEF CooledDown, Elapsed
<1>4. strongly => ls = Never \/ now >= ls + Cooldown
  BY <1>1 DEF CooledDown, Elapsed
<1>5. \A i \in 1..n : h[i] <= t
  BY <1>2, Zenon DEF EventsOK
<1>6. \A i \in 1..(n + 1) : h2[i] <= t
  BY <1>1, <1>2, <1>5
<1>7. n + 1 >= 2 => \/ h2[n + 1] - h2[n] >= Cooldown
                    \/ /\ le2 # Never /\ le2 >= h2[n] - MaxDelay
                       /\ ls2 # Never /\ ls2 >= h2[n] - MaxDelay
  <2>1. SUFFICES ASSUME n >= 1
                 PROVE  \/ now - h[n] >= Cooldown
                        \/ /\ le2 # Never /\ le2 >= h[n] - MaxDelay
                           /\ ls2 # Never /\ ls2 >= h[n] - MaxDelay
    BY <1>2
  <2>2. PICK x \in Nat : x = h[n] /\ x <= t /\ x \in {le, ls}
    BY <1>2, <1>5, <2>1 DEF EventsOK
  <2>3. now >= x - MaxDelay BY <1>1, <2>2
  <2>4. now # Never /\ x # Never BY <1>1 DEF Never
  <2>5. CASE x = le /\ regular BY <1>1, <1>3, <2>2, <2>4, <2>5
  <2>6. CASE x = ls /\ strongly BY <1>1, <1>4, <2>2, <2>4, <2>6
  <2>7. CASE x = le /\ ~regular BY <1>1, <2>2, <2>3, <2>4, <2>7
  <2>8. CASE x = ls /\ ~strongly BY <1>1, <2>2, <2>3, <2>4, <2>8
  <2> QED BY <2>2, <2>5, <2>6, <2>7, <2>8, Zenon
<1>8. n >= 2 => now - h[n - 1] >= Cooldown - MaxDelay
  <2>1. SUFFICES ASSUME n >= 2 PROVE now - h[n - 1] >= Cooldown - MaxDelay
    BY Zenon
  <2>2. PICK x \in Nat, y \in Nat : x = h[n] /\ x <= t /\ y = h[n - 1]
    BY <1>2, <1>5, <2>1
  <2>3. \/ x - y >= Cooldown
        \/ le # Never /\ le >= y - MaxDelay /\ ls # Never /\ ls >= y - MaxDelay
    BY <1>2, <2>1, <2>2, Zenon DEF EventsOK
  <2>4. CASE x - y >= Cooldown BY <1>1, <2>2, <2>4
  <2>5. CASE le # Never /\ le >= y - MaxDelay /\ ls # Never /\ ls >= y - MaxDelay
    BY <1>1, <1>3, <1>4, <2>2, <2>5
  <2> QED BY <2>3, <2>4, <2>5, Zenon
<1>9. \A i \in 1..(n + 1 - 2) : h2[i + 2] - h2[i] >= Cooldown - MaxDelay
  <2> SUFFICES ASSUME NEW i \in 1..(n + 1 - 2)
               PROVE  h2[i + 2] - h2[i] >= Cooldown - MaxDelay
    BY Zenon
  <2>1. CASE i = n - 1 BY <1>2, <1>8, <2>1
  <2>2. CASE i # n - 1
    <3>1. i \in 1..(n - 2) /\ i \in 1..n /\ i + 2 \in 1..n BY <1>2, <2>2
    <3> QED BY <1>2, <3>1, Zenon DEF EventsOK
  <2> QED BY <2>1, <2>2, Zenon
<1>10. h2[n + 1] \in {le2, ls2} BY <1>2, Zenon
<1> HIDE DEF le2, ls2
<1>11. EventsOK(h2, le2, ls2, t)
  BY <1>2, <1>6, <1>7, <1>9, <1>10 DEF EventsOK
<1> QED BY <1>11, Zenon DEF le2, ls2
(* A sample within the budget of the window.                               *)
LEMMA SampleStep ==
  ASSUME NEW t \in Ticks, NEW now \in Ticks, now <= t, t - now <= MaxDelay,
         NEW h, NEW h2, Extended(h, now, h2),
         NEW start \in Ticks, NEW emitted \in Nat, SamplesOK(h, start, emitted, t),
         now < start + Second, emitted < MaxSamples
  PROVE  SamplesOK(h2, start, emitted + 1, t)
<1>1. /\ t \in Nat /\ now \in Nat /\ start \in Nat /\ Second \in Nat /\ Second # 0
      /\ MaxSamples \in Nat /\ MaxDelay \in Nat
  BY Numbers DEF Ticks
<1>2. PICK n \in Nat : /\ n = Len(h) /\ Len(h2) = n + 1 /\ h2[n + 1] = now
                       /\ \A i \in 1..n : h2[i] = h[i] /\ h[i] \in Nat
  BY Zenon DEF Extended
<1>3. /\ emitted <= MaxSamples /\ emitted <= n /\ start <= t
      /\ \A i \in 1..n : h[i] < start + Second
      /\ \A i \in 1..(n - emitted) : h[i] <= start
      /\ \A i \in 1..(n - emitted - MaxSamples) : h[i] + Second <= start
      /\ \A i \in 1..(n - 2 * MaxSamples) :
           h[i + 2 * MaxSamples] - h[i] >= Second - MaxDelay
  BY <1>2, Zenon DEF SamplesOK
<1>4. emitted + 1 <= MaxSamples /\ emitted + 1 <= n + 1
  BY <1>1, <1>2, <1>3
<1>5. ASSUME NEW i \in 1..Len(h2) PROVE h2[i] < start + Second
  <2>1. CASE i = n + 1 BY <1>2, <2>1, Zenon
  <2>2. CASE i # n + 1
    <3>1. i \in 1..n BY <1>2, <2>2
    <3> QED BY <1>2, <1>3, <3>1, Zenon
  <2> QED BY <2>1, <2>2, Zenon
<1>6. ASSUME NEW i \in 1..(Len(h2) - (emitted + 1)) PROVE h2[i] <= start
  <2>1. i \in 1..(n - emitted) /\ i \in 1..n BY <1>2
  <2> QED BY <1>2, <1>3, <2>1, Zenon
<1>7. ASSUME NEW i \in 1..(Len(h2) - (emitted + 1) - MaxSamples)
      PROVE  h2[i] + Second <= start
  <2>1. i \in 1..(n - emitted - MaxSamples) /\ i \in 1..n BY <1>1, <1>2
  <2> QED BY <1>2, <1>3, <2>1, Zenon
<1>8. ASSUME NEW i \in 1..(Len(h2) - 2 * MaxSamples)
      PROVE  h2[i + 2 * MaxSamples] - h2[i] >= Second - MaxDelay
  <2>1. PICK k \in Nat : k = 2 * MaxSamples /\ k >= 2 BY Numbers
  <2>2. i \in Nat /\ i >= 1 /\ i + k <= n + 1 BY <1>2, <2>1
  <2>3. CASE i + k = n + 1
    <3>1. i \in 1..(n - emitted - MaxSamples) /\ i \in 1..n
      BY <1>1, <1>2, <2>1, <2>2, <2>3
    <3>2. PICK x \in Nat : x = h[i] /\ x = h2[i] /\ x + Second <= start
      BY <1>2, <1>3, <3>1, Zenon
    <3>3. now - x >= Second - MaxDelay BY <1>1, <1>3, <3>2
    <3> QED BY <1>2, <2>1, <2>3, <3>2, <3>3, Zenon
  <2>4. CASE i + k # n + 1
    <3>1. i + k <= n BY <2>1, <2>2, <2>4
    <3>2. i \in 1..(n - k) /\ i \in 1..n /\ i + k \in 1..n BY <2>1, <2>2, <3>1
    <3>3. h2[i] = h[i] /\ h2[i + k] = h[i + k] BY <1>2, <3>2, Zenon
    <3>4. h[i + k] - h[i] >= Second - MaxDelay BY <1>3, <2>1, <3>2, Zenon
    <3> QED BY <2>1, <3>3, <3>4, Zenon
  <2> QED BY <2>3, <2>4, Zenon
<1>9. emitted + 1 <= Len(h2) BY <1>2, <1>4, Zenon
<1> QED BY <1>3, <1>4, <1>5, <1>6, <1>7, <1>8, <1>9, Zenon DEF SamplesOK

(* Time that passes disturbs no window.                                    *)
LEMMA LaterOK ==
  ASSUME NEW t \in Ticks, NEW u \in Ticks, t <= u
  PROVE  /\ \A w, times : \A evs \in Seq(Nat) :
              SigOK(w, times, evs, t) => SigOK(w, times, evs, u)
         /\ \A w, strongs, ss : ShapeOK(w, strongs, ss, t) => ShapeOK(w, strongs, ss, u)
<1>1. t \in Nat /\ u \in Nat BY Numbers DEF Ticks
<1>2. ASSUME NEW w, NEW times, NEW evs \in Seq(Nat), SigOK(w, times, evs, t)
      PROVE  SigOK(w, times, evs, u)
  <2>1. /\ w \in SigWindows /\ w.bucket.last <= t /\ w.lastSeen <= t
        /\ Threshold # 1 => Counted(times, w.bucket, 0)
        /\ EventsOK(evs, w.lastEvent, w.lastStrong, t)
    BY <1>2, Zenon DEF SigOK
  <2>2. w.bucket.last <= u /\ w.lastSeen <= u
    BY <1>1, <2>1, Numbers DEF SigWindows, Bucket, Ticks
  <2>3. \A i \in 1..Len(evs) : evs[i] <= u
    BY <1>1, <2>1 DEF EventsOK
  <2>4. EventsOK(evs, w.lastEvent, w.lastStrong, u) BY <2>1, <2>3, Zenon DEF EventsOK
  <2> QED BY <2>1, <2>2, <2>4, Zenon DEF SigOK
<1>3. ASSUME NEW w, NEW strongs, NEW ss, ShapeOK(w, strongs, ss, t)
      PROVE  ShapeOK(w, strongs, ss, u)
  <2>1. /\ w \in ShapeWindows /\ w.bucket.last <= t /\ w.strong.last <= t
        /\ w.lastSeen <= t
        /\ Threshold # 1 => Counted(strongs, w.strong, MaxDelay)
        /\ SamplesOK(ss, w.start, w.emitted, t)
    BY <1>3, Zenon DEF ShapeOK
  <2>2. w.bucket.last <= u /\ w.strong.last <= u /\ w.lastSeen <= u
    BY <1>1, <2>1, Numbers DEF ShapeWindows, Bucket, Ticks
  <2>3. w.start <= t BY <2>1, Zenon DEF SamplesOK
  <2>4. w.start <= u BY <1>1, <2>1, <2>3, Numbers DEF ShapeWindows, Ticks
  <2>5. SamplesOK(ss, w.start, w.emitted, u) BY <2>1, <2>4, Zenon DEF SamplesOK
  <2> QED BY <2>1, <2>2, <2>5, Zenon DEF ShapeOK
<1> QED BY <1>2, <1>3, Zenon
----------------------------------------------------------------------------
(* The windows.                                                            *)

LEMMA FreshWindows ==
  ASSUME NEW t \in Ticks, NEW now \in Ticks, now <= t
  PROVE  /\ SigOK(FreshSig(now), << >>, << >>, t) /\ FreshSig(now).bucket.last = now
         /\ ShapeOK(FreshShape(now), << >>, << >>, t)
<1>1. /\ FullBucket(Burst, now) \in Bucket(Burst) /\ FullBucket(Burst, now).last = now
      /\ FullBucket(Burst, now).tokens = Burst
  BY Numbers DEF FullBucket, Bucket, Ticks
<1>2. \A slack : Counted(<< >>, FullBucket(Burst, now), slack)
  BY <1>1, Zenon DEF Counted
<1>3. EventsOK(<< >>, Never, Never, t) /\ SamplesOK(<< >>, now, 0, t)
  <2>1. Len(<< >>) = 0 BY Zenon
  <2>2. EventsOK(<< >>, Never, Never, t) BY <2>1 DEF EventsOK
  <2>3. 0 - 2 * MaxSamples < 1 /\ 0 - 0 - MaxSamples < 1 /\ 0 <= MaxSamples BY Numbers
  <2>4. SamplesOK(<< >>, now, 0, t) BY <2>1, <2>3, Numbers DEF SamplesOK, Ticks
  <2> QED BY <2>2, <2>4, Zenon
<1>4. SigOK(FreshSig(now), << >>, << >>, t) /\ FreshSig(now).bucket.last = now
  <2>1. FreshSig(now) \in SigWindows BY <1>1, Zenon DEF FreshSig, SigWindows
  <2>2. /\ FreshSig(now).bucket = FullBucket(Burst, now) /\ FreshSig(now).lastSeen = now
        /\ FreshSig(now).lastEvent = Never /\ FreshSig(now).lastStrong = Never
    BY Zenon DEF FreshSig
  <2> QED BY <1>1, <1>2, <1>3, <2>1, <2>2, Zenon DEF SigOK
<1>5. ShapeOK(FreshShape(now), << >>, << >>, t)
  <2>1. FreshShape(now) \in ShapeWindows BY <1>1, Zenon DEF FreshShape, ShapeWindows
  <2>2. /\ FreshShape(now).bucket = FullBucket(Burst, now)
        /\ FreshShape(now).strong = FullBucket(Burst, now)
        /\ FreshShape(now).lastSeen = now
        /\ FreshShape(now).start = now /\ FreshShape(now).emitted = 0
    BY Zenon DEF FreshShape
  <2> QED BY <1>1, <1>2, <1>3, <2>1, <2>2, Zenon DEF ShapeOK
<1> QED BY <1>4, <1>5, Zenon

(* An observation in a signature's window, and what it leaves there.       *)
SigObserved(w, now, regular, strongly) ==
  [bucket |-> Charged(w.bucket, now), lastSeen |-> now,
   lastEvent  |-> IF regular THEN now ELSE w.lastEvent,
   lastStrong |-> IF strongly THEN now ELSE w.lastStrong]

Logged(h, now, emit) == IF emit THEN Append(h, now) ELSE h

SigCounted(w, h, e, now, regular, strongly, t) ==
  LET w2 == SigObserved(w, now, regular, strongly)
      h2 == Append(h, now)
      e2 == Logged(e, now, regular \/ strongly)
  IN  /\ SigOK(w2, h2, e2, t) /\ w2.lastSeen = now
      /\ h2 \in Seq(Nat) /\ e2 \in Seq(Nat) /\ Len(h2) # 0
      /\ Pressure(w.bucket, now) => Flood(h2, 0)
      /\ Suddenly(h2) => Pressure(w.bucket, now)

LEMMA SigWindowStep ==
  ASSUME NEW t \in Ticks, NEW now \in Ticks, now <= t, t - now <= MaxDelay,
         NEW w, NEW h \in Seq(Nat), NEW e \in Seq(Nat), SigOK(w, h, e, t),
         Len(h) = 0 => w.bucket.last = now,
         NEW regular \in BOOLEAN, NEW strongly \in BOOLEAN,
         regular => CooledDown(w.lastEvent, now),
         strongly => CooledDown(w.lastStrong, now)
  PROVE  SigCounted(w, h, e, now, regular, strongly, t)
<1>a. PICK w2 : w2 = SigObserved(w, now, regular, strongly) BY Zenon
<1>b. PICK h2 : h2 = Append(h, now) BY Zenon
<1>c. PICK e2 : e2 = Logged(e, now, regular \/ strongly) BY Zenon
<1>0. now \in Nat BY Numbers DEF Ticks
<1>1. /\ w \in SigWindows /\ w.bucket.last <= t /\ w.lastSeen <= t
      /\ Threshold # 1 => Counted(h, w.bucket, 0)
      /\ EventsOK(e, w.lastEvent, w.lastStrong, t)
  BY Zenon DEF SigOK
<1>2. /\ w.bucket \in Bucket(Burst) /\ w.lastEvent \in Ticks \cup {Never}
      /\ w.lastStrong \in Ticks \cup {Never}
  BY <1>1, Zenon DEF SigWindows
<1>3. Extended(h, now, h2) BY <1>0, <1>b, AppendExtends, Zenon
<1>4. /\ Charged(w.bucket, now) \in Bucket(Burst)
      /\ Charged(w.bucket, now).last = w.bucket.last \/ Charged(w.bucket, now).last = now
      /\ Threshold # 1 => Counted(h2, Charged(w.bucket, now), 0)
      /\ Pressure(w.bucket, now) => Flood(h2, 0)
      /\ Suddenly(h2) => Pressure(w.bucket, now)
  <2>1. 0 \in Nat /\ (Len(h) = 0 => w.bucket.last <= now + 0) BY <1>0
  <2> QED BY <1>1, <1>2, <1>3, <2>1, ChargeCounts, Zenon
<1>5. EventsOK(e2, IF regular THEN now ELSE w.lastEvent,
                   IF strongly THEN now ELSE w.lastStrong, t)
  <2>1. CASE regular \/ strongly
    <3>1. Extended(e, now, e2) BY <1>0, <1>c, <2>1, AppendExtends, Zenon DEF Logged
    <3> QED BY <1>1, <1>2, <2>1, <3>1, EventStep, Zenon
  <2>2. CASE ~(regular \/ strongly) BY <1>1, <1>c, <2>2, Zenon DEF Logged
  <2> QED BY <2>1, <2>2, Zenon
<1>6. /\ w2.bucket = Charged(w.bucket, now) /\ w2.lastSeen = now
      /\ w2.lastEvent = IF regular THEN now ELSE w.lastEvent
      /\ w2.lastStrong = IF strongly THEN now ELSE w.lastStrong
  BY <1>a, Zenon DEF SigObserved
<1>7. w2 \in SigWindows BY <1>2, <1>4, <1>a, Zenon DEF SigWindows, SigObserved
<1>8. w2.bucket.last <= t BY <1>1, <1>4, <1>6, Zenon
<1>9. SigOK(w2, h2, e2, t) BY <1>4, <1>5, <1>6, <1>7, <1>8, Zenon DEF SigOK
<1>10. h2 \in Seq(Nat) /\ Len(h2) # 0 BY <1>3 DEF Extended
<1>11. e2 \in Seq(Nat) BY <1>0, <1>c DEF Logged
<1> QED BY <1>a, <1>b, <1>c, <1>4, <1>6, <1>9, <1>10, <1>11, Zenon DEF SigCounted
(* What the updates of a path shape's window change.                       *)
Updated(w, b, c, m, l) ==
  [w EXCEPT !.bucket = b, !.strong = c, !.emitted = m, !.lastSeen = l]

Tumbled(w, now) == [w EXCEPT !.start = now, !.emitted = 0]

(* The sample window of a path shape's window.                             *)
LEMMA SampleWindowStep ==
  ASSUME NEW t \in Ticks, NEW now \in Ticks, now <= t,
         NEW w, NEW h, NEW e \in Seq(Nat), ShapeOK(w, h, e, t),
         NEW v, v = SampleWindow(w, now)
  PROVE  ShapeOK(v, h, e, t) /\ now < v.start + Second
<1>1. /\ w \in ShapeWindows /\ w.start \in Ticks /\ w.emitted \in Nat
      /\ SamplesOK(e, w.start, w.emitted, t)
  BY Zenon DEF ShapeOK, ShapeWindows
<1>2. w.start \in Nat /\ now \in Nat /\ Second \in Nat /\ Second # 0
  BY <1>1, Numbers DEF Ticks
<1>3. CASE Elapsed(now, w.start) >= Second
  <2>1. now - w.start >= Second BY <1>2, <1>3 DEF Elapsed
  <2>2. SamplesOK(e, now, 0, t)
    <3>1. /\ now \in Nat /\ w.start \in Nat /\ Second \in Nat /\ Second # 0
          /\ MaxSamples \in Nat /\ w.emitted \in Nat
      BY <1>1, <1>2, Numbers, Zenon
    <3>2. PICK n \in Nat : n = Len(e) /\ \A i \in 1..n : e[i] \in Nat
      OBVIOUS
    <3>3. /\ w.emitted <= MaxSamples
          /\ \A i \in 1..n : e[i] < w.start + Second
          /\ \A i \in 1..(n - w.emitted) : e[i] <= w.start
      BY <1>1, <3>2, Zenon DEF SamplesOK
    <3>4. \A i \in 1..n : e[i] < now + Second /\ e[i] <= now
      BY <2>1, <3>1, <3>2, <3>3
    <3>5. \A i \in 1..(n - 0 - MaxSamples) : e[i] + Second <= now
      <4> SUFFICES ASSUME NEW i \in 1..(n - 0 - MaxSamples) PROVE e[i] + Second <= now
        BY Zenon
      <4>1. i \in 1..(n - w.emitted) /\ i \in 1..n BY <3>1, <3>2, <3>3
      <4>2. e[i] <= w.start /\ e[i] \in Nat BY <3>2, <3>3, <4>1, Zenon
      <4> QED BY <2>1, <3>1, <4>2
    <3>6. 0 <= MaxSamples /\ 0 <= n /\ n - 0 = n BY <3>1, <3>2
    <3> QED BY <1>1, <3>2, <3>4, <3>5, <3>6, Zenon DEF SamplesOK
  <2>3. v = Tumbled(w, now) BY <1>3, Zenon DEF SampleWindow, Tumbled
  <2>4. /\ v \in ShapeWindows /\ v.bucket = w.bucket /\ v.strong = w.strong
        /\ v.lastSeen = w.lastSeen /\ v.start = now /\ v.emitted = 0
    <3>1. v \in ShapeWindows
      <4>1. w \in ShapeWindows /\ 0 \in Nat BY <1>1, Zenon
      <4>2. Tumbled(w, now) \in ShapeWindows BY <4>1, Zenon DEF ShapeWindows, Tumbled
      <4> QED BY <2>3, <4>2, Zenon
    <3>2. v.bucket = w.bucket /\ v.strong = w.strong /\ v.lastSeen = w.lastSeen
      BY <1>1, <2>3, Zenon DEF ShapeWindows, Tumbled
    <3>3. v.start = now /\ v.emitted = 0
      BY <1>1, <2>3, Zenon DEF ShapeWindows, Tumbled
    <3> QED BY <3>1, <3>2, <3>3, Zenon
  <2> QED BY <1>2, <2>2, <2>4 DEF ShapeOK
<1>4. CASE ~(Elapsed(now, w.start) >= Second)
  <2>1. v = w BY <1>4, Zenon DEF SampleWindow
  <2>2. now < w.start + Second BY <1>2, <1>4 DEF Elapsed
  <2> QED BY <2>1, <2>2, Zenon
<1> QED BY <1>3, <1>4, Zenon

(* An observation in a path shape's window, and what it leaves there.      *)
ShapeObserved(w, now, strong, emit) ==
  Updated(w, Charged(w.bucket, now), IF strong THEN Charged(w.strong, now) ELSE w.strong,
          IF emit THEN w.emitted + 1 ELSE w.emitted, now)

ShapeCounted(w, h, e, now, strong, emit, t) ==
  LET w2 == ShapeObserved(w, now, strong, emit)
      h2 == Logged(h, now, strong)
      e2 == Logged(e, now, emit)
  IN  /\ ShapeOK(w2, h2, e2, t) /\ w2.lastSeen = now
      /\ h2 \in Seq(Nat) /\ e2 \in Seq(Nat)
      /\ strong => /\ Len(h2) > Len(h)
                   /\ Pressure(w.strong, now) => Flood(h2, MaxDelay)
                   /\ Suddenly(h2) => Pressure(w.strong, now)

LEMMA ShapeWindowStep ==
  ASSUME NEW t \in Ticks, NEW now \in Ticks, now <= t, t - now <= MaxDelay,
         NEW w, NEW h \in Seq(Nat), NEW e \in Seq(Nat), ShapeOK(w, h, e, t),
         now < w.start + Second,
         NEW strong \in BOOLEAN, NEW emit \in BOOLEAN, emit => w.emitted < MaxSamples
  PROVE  ShapeCounted(w, h, e, now, strong, emit, t)
<1>a. PICK w2 : w2 = ShapeObserved(w, now, strong, emit) BY Zenon
<1>b. PICK h2 : h2 = Logged(h, now, strong) BY Zenon
<1>c. PICK e2 : e2 = Logged(e, now, emit) BY Zenon
<1>0. now \in Nat /\ t \in Nat /\ MaxDelay \in Nat BY Numbers DEF Ticks
<1>1. /\ w \in ShapeWindows /\ w.bucket.last <= t /\ w.strong.last <= t
      /\ Threshold # 1 => Counted(h, w.strong, MaxDelay)
      /\ SamplesOK(e, w.start, w.emitted, t)
  BY Zenon DEF ShapeOK
<1>2. /\ w.bucket \in Bucket(Burst) /\ w.strong \in Bucket(Burst)
      /\ w.start \in Ticks /\ w.emitted \in Nat
  BY <1>1, Zenon DEF ShapeWindows
<1>3. PICK b : b = Charged(w.bucket, now) BY Zenon
<1>4. PICK c : c = IF strong THEN Charged(w.strong, now) ELSE w.strong BY Zenon
<1>5. PICK m : m = IF emit THEN w.emitted + 1 ELSE w.emitted BY Zenon
<1>7. b \in Bucket(Burst) /\ (b.last = w.bucket.last \/ b.last = now)
  BY <1>2, <1>3, ChargedBucket
<1>8. ASSUME strong
      PROVE  /\ c \in Bucket(Burst) /\ (c.last = w.strong.last \/ c.last = now)
             /\ Threshold # 1 => Counted(h2, c, MaxDelay)
             /\ h2 \in Seq(Nat) /\ Len(h2) > Len(h)
             /\ Pressure(w.strong, now) => Flood(h2, MaxDelay)
             /\ Suddenly(h2) => Pressure(w.strong, now)
  <2>1. Extended(h, now, h2) BY <1>0, <1>b, <1>8, AppendExtends, Zenon DEF Logged
  <2>2. w.strong.last <= now + MaxDelay
    <3>1. w.strong.last \in Nat BY <1>2, Numbers DEF Bucket
    <3> QED BY <1>0, <1>1, <3>1
  <2>3. /\ Charged(w.strong, now) \in Bucket(Burst)
        /\ Charged(w.strong, now).last = w.strong.last \/ Charged(w.strong, now).last = now
        /\ Threshold # 1 => Counted(h2, Charged(w.strong, now), MaxDelay)
        /\ Pressure(w.strong, now) => Flood(h2, MaxDelay)
        /\ Suddenly(h2) => Pressure(w.strong, now)
    BY <1>0, <1>1, <1>2, <2>1, <2>2, ChargeCounts, Zenon
  <2>4. h2 \in Seq(Nat) /\ Len(h2) > Len(h) BY <2>1 DEF Extended
  <2> QED BY <1>4, <1>8, <2>3, <2>4, Zenon
<1>9. /\ c \in Bucket(Burst) /\ (c.last = w.strong.last \/ c.last = now)
      /\ Threshold # 1 => Counted(h2, c, MaxDelay)
      /\ h2 \in Seq(Nat)
  <2>1. CASE ~strong BY <1>1, <1>2, <1>4, <1>b, <2>1, Zenon DEF Logged
  <2> QED BY <1>8, <2>1, Zenon
<1>10. SamplesOK(e2, w.start, m, t) /\ m \in Nat /\ e2 \in Seq(Nat)
  <2>1. CASE emit
    <3>1. Extended(e, now, e2) BY <1>0, <1>c, <2>1, AppendExtends, Zenon DEF Logged
    <3>2. SamplesOK(e2, w.start, w.emitted + 1, t)
      BY <1>1, <1>2, <2>1, <3>1, SampleStep, Zenon
    <3>3. e2 \in Seq(Nat) BY <3>1, Zenon DEF Extended
    <3> QED BY <1>2, <1>5, <2>1, <3>2, <3>3
  <2>2. CASE ~emit BY <1>1, <1>2, <1>5, <1>c, <2>2, Zenon DEF Logged
  <2> QED BY <2>1, <2>2, Zenon
<1>11. b.last <= t /\ c.last <= t BY <1>1, <1>7, <1>9, Zenon
<1>12. w2 = Updated(w, b, c, m, now) BY <1>3, <1>4, <1>5, <1>a, Zenon DEF ShapeObserved
<1>13. ShapeOK(w2, h2, e2, t)
  <2>1. w2 \in ShapeWindows
    BY <1>1, <1>7, <1>9, <1>10, <1>12, Zenon DEF ShapeWindows, Updated
  <2>2. /\ w2.bucket = b /\ w2.strong = c /\ w2.start = w.start
        /\ w2.emitted = m /\ w2.lastSeen = now
    BY <1>1, <1>12, Zenon DEF ShapeWindows, Updated
  <2> QED BY <1>9, <1>10, <1>11, <2>1, <2>2, Zenon DEF ShapeOK
<1>14. w2.lastSeen = now BY <1>1, <1>12, Zenon DEF Updated, ShapeWindows
<1> QED BY <1>a, <1>b, <1>c, <1>8, <1>9, <1>10, <1>13, <1>14, Zenon DEF ShapeCounted
----------------------------------------------------------------------------
(* The shards.                                                             *)

LEMMA KeySets == Signatures \subseteq Keys /\ Shapes \subseteq Keys /\ Signatures \cap Shapes = {}
BY DetectorAssumption, Zenon

(* Room is made at the cost of idle windows only.                          *)
LEMMA RoomOK ==
  ASSUME NEW sh, NEW windows, NEW k, NEW now,
         NEW room, room = MakeRoom(sh, windows, k, now)
  PROVE  /\ room.keys \subseteq sh.keys
         /\ \A x \in sh.keys \ room.keys : Elapsed(now, windows[x].lastSeen) >= IdleTicks
         /\ k \in sh.keys => k \in room.keys
<1>1. CASE k \in sh.keys \/ HasRoom(sh) BY <1>1, Zenon DEF MakeRoom
<1>2. CASE ~(k \in sh.keys \/ HasRoom(sh))
  <2>1. PICK victims : victims = IdleWindows(windows, now) BY Zenon
  <2>2. room = EvictFirst(sh, victims) BY <1>2, <2>1, Zenon DEF MakeRoom
  <2> DEFINE scan == IF Len(sh.order) < ScanLimit THEN Len(sh.order) ELSE ScanLimit
             hit(n) == sh.order[n] \in sh.keys \cap victims
             first == {n \in 1..scan : hit(n) /\ \A m \in 1..n - 1 : ~hit(m)}
             i == CHOOSE n \in first : TRUE
  <2>3. room.keys = IF first = {} THEN sh.keys ELSE sh.keys \ {sh.order[i]}
    BY <2>2 DEF EvictFirst
  <2>4. first # {} => sh.order[i] \in victims
    <3>1. \A n \in first : sh.order[n] \in victims BY Zenon
    <3> HIDE DEF first
    <3> QED BY <3>1, Zenon
  <2>5. \A x \in victims : Elapsed(now, windows[x].lastSeen) >= IdleTicks
    BY <2>1, Zenon DEF IdleWindows
  <2> HIDE DEF i, first
  <2> QED BY <1>2, <2>3, <2>4, <2>5, Zenon
<1> QED BY <1>1, <1>2, Zenon

LEMMA EnteredKeys ==
  ASSUME NEW room, NEW k
  PROVE  Entered(room, k).keys = room.keys \cup {k}
BY Zenon DEF Entered, Insert

(* What an evicted window was last observed.                               *)
LEMMA IdleLongEnough ==
  ASSUME NEW t \in Nat, NEW now \in Nat, now <= t, NEW seen \in Nat, seen <= t,
         NEW locked \in Nat, locked <= t, locked <= seen + MaxDelay,
         Elapsed(now, seen) >= IdleTicks
  PROVE  t - locked >= IdleTicks - MaxDelay
BY Numbers DEF Elapsed

(* The facts an observer's step starts from.                               *)
LEMMA ObserverFacts ==
  ASSUME IInv, NEW o \in Observers, NEW now \in Instants(o)
  PROVE  /\ clock \in Ticks /\ clock \in Nat /\ now \in Ticks /\ now \in Nat
         /\ now <= clock /\ clock - now <= MaxDelay
<1>1. clock \in Ticks /\ since[o] \in Ticks BY Zenon DEF IInv, Types
<1>2. clock \in Nat /\ since[o] \in Nat /\ clock <= MaxClock BY <1>1, Numbers DEF Ticks
<1>3. now \in since[o]..clock /\ clock - now <= MaxDelay BY Zenon DEF Instants
<1> QED BY <1>1, <1>2, <1>3, Numbers DEF Ticks
----------------------------------------------------------------------------
(* The signature shard.                                                    *)

(* Dropping the histories of windows that are gone keeps their type.       *)
LEMMA OnlySeqs ==
  ASSUME NEW K, NEW f \in [K -> Seq(Nat)], NEW shard
  PROVE  Only(shard, f) \in [K -> Seq(Nat)]
<1>1. << >> \in Seq(Nat) OBVIOUS
<1> QED BY <1>1, Zenon DEF Only

(* What an observation changes of the windows and their histories.         *)
SigEffect(o, now, s, room) ==
  /\ sigs' = Entered(room, s)
  /\ \A x \in Signatures : x # s =>
       /\ sig'[x] = sig[x]
       /\ sigAt'[x] = IF x \in room.keys THEN sigAt[x] ELSE << >>
       /\ events'[x] = IF x \in room.keys THEN events[x] ELSE << >>
  /\ touched' = [touched EXCEPT ![s] = clock]
  /\ sigAt' \in [Signatures -> Seq(Nat)] /\ events' \in [Signatures -> Seq(Nat)]
  /\ sig' \in [Signatures -> SigWindows]
  /\ SigOK(sig'[s], sigAt'[s], events'[s], clock)
  /\ Len(sigAt'[s]) # 0 /\ sig'[s].lastSeen = now
  /\ obs'[o].sig \in Results /\ obs'[o].shape = obs[o].shape
  /\ \A x \in Observers : x # o => obs'[x] = obs[x]
  /\ obs' \in [Observers -> [sig : Results, shape : Results]]
  /\ obs'[o].sig.activate => Flood(sigAt'[s], 0)
  /\ Suddenly(sigAt'[s]) => obs'[o].sig.activate

LEMMA SignatureEffect ==
  ASSUME IInv, NEW o \in Observers, NEW now \in Instants(o), ObserveSignature(o, now),
         NEW s, s = req[o].sig, NEW room, room = MakeRoom(sigs, sig, s, now),
         Admitted(room, s)
  PROVE  SigEffect(o, now, s, room)
<1> DEFINE w        == IF s \in room.keys THEN sig[s] ELSE FreshSig(now)
           activate == Pressure(w.bucket, now)
           regular  == activate /\ CooledDown(w.lastEvent, now)
           strongly == StrongEmit(w, req[o].reason = "strong", activate, now)
           w2       == [bucket |-> Charged(w.bucket, now), lastSeen |-> now,
                        lastEvent  |-> IF regular THEN now ELSE w.lastEvent,
                        lastStrong |-> IF strongly THEN now ELSE w.lastStrong]
<1>1. /\ at[o] = "signature"
      /\ sigs' = Entered(room, s)
      /\ sig' = [sig EXCEPT ![s] = w2]
      /\ obs' = [obs EXCEPT ![o].sig = [activate |-> activate, emit |-> regular \/ strongly]]
      /\ touched' = [touched EXCEPT ![s] = clock]
      /\ sigAt' = [Only(room, sigAt) EXCEPT ![s] = Append(@, now)]
      /\ events' = [Only(room, events) EXCEPT ![s] =
           IF regular \/ strongly THEN Append(@, now) ELSE @]
  BY Zenon DEF ObserveSignature
<1>2. /\ clock \in Ticks /\ now \in Ticks /\ now \in Nat /\ now <= clock
      /\ clock - now <= MaxDelay
  BY ObserverFacts, Zenon
<1>3. s \in Signatures BY <1>1, Zenon DEF IInv, ObserverInv
<1>4. /\ sig \in [Signatures -> SigWindows] /\ sigAt \in [Signatures -> Seq(Nat)]
      /\ events \in [Signatures -> Seq(Nat)]
      /\ obs \in [Observers -> [sig : Results, shape : Results]]
  BY Zenon DEF IInv, Types
<1>5. room.keys \subseteq sigs.keys BY RoomOK
<1>6. PICK h \in Seq(Nat) : h = IF s \in room.keys THEN sigAt[s] ELSE << >>
  <2>1. << >> \in Seq(Nat) /\ sigAt[s] \in Seq(Nat) BY <1>3, <1>4
  <2> QED BY <2>1, Zenon
<1>7. PICK e \in Seq(Nat) : e = IF s \in room.keys THEN events[s] ELSE << >>
  <2>1. << >> \in Seq(Nat) /\ events[s] \in Seq(Nat) BY <1>3, <1>4
  <2> QED BY <2>1, Zenon
<1>8. SigOK(w, h, e, clock) /\ (Len(h) = 0 => w.bucket.last = now)
  <2>1. CASE s \in room.keys
    <3>1. SigOK(sig[s], sigAt[s], events[s], clock) /\ Len(sigAt[s]) # 0
      BY <1>5, <2>1, Zenon DEF IInv, SigInv
    <3> QED BY <1>6, <1>7, <2>1, <3>1, Zenon
  <2>2. CASE s \notin room.keys
    <3>1. SigOK(FreshSig(now), << >>, << >>, clock) /\ FreshSig(now).bucket.last = now
      BY <1>2, FreshWindows, Zenon
    <3> QED BY <1>6, <1>7, <2>2, <3>1, Zenon
  <2> QED BY <2>1, <2>2, Zenon
<1>9. activate \in BOOLEAN /\ regular \in BOOLEAN /\ strongly \in BOOLEAN
  BY Zenon DEF Pressure, StrongEmit
<1>10. /\ regular => CooledDown(w.lastEvent, now)
       /\ strongly => CooledDown(w.lastStrong, now)
  BY Zenon DEF StrongEmit
<1>11. /\ DOMAIN Only(room, sigAt) = Signatures /\ DOMAIN Only(room, events) = Signatures
       /\ \A x \in Signatures :
            /\ Only(room, sigAt)[x] = IF x \in room.keys THEN sigAt[x] ELSE << >>
            /\ Only(room, events)[x] = IF x \in room.keys THEN events[x] ELSE << >>
  BY <1>4, Zenon DEF Only
<1> HIDE DEF w, activate, regular, strongly
<1>12. sigAt'[s] = Append(h, now)
  <2>1. Only(room, sigAt)[s] = h BY <1>3, <1>6, <1>11, Zenon
  <2>2. sigAt'[s] = Append(Only(room, sigAt)[s], now) BY <1>1, <1>3, <1>11, Zenon
  <2> QED BY <2>1, <2>2, Zenon
<1>13. events'[s] = Logged(e, now, regular \/ strongly)
  <2>1. Only(room, events)[s] = e BY <1>3, <1>7, <1>11, Zenon
  <2>2. events'[s] = Logged(Only(room, events)[s], now, regular \/ strongly)
    BY <1>1, <1>3, <1>11, Zenon DEF Logged
  <2> QED BY <2>1, <2>2, Zenon
<1>14. sig'[s] = SigObserved(w, now, regular, strongly)
  BY <1>1, <1>3, <1>4, Zenon DEF SigObserved
<1>15. SigCounted(w, h, e, now, regular, strongly, clock)
  BY <1>2, <1>8, <1>9, <1>10, SigWindowStep, Zenon
<1>16. /\ SigOK(sig'[s], sigAt'[s], events'[s], clock) /\ sig'[s].lastSeen = now
       /\ sigAt'[s] \in Seq(Nat) /\ events'[s] \in Seq(Nat) /\ Len(sigAt'[s]) # 0
       /\ activate => Flood(sigAt'[s], 0)
       /\ Suddenly(sigAt'[s]) => activate
  BY <1>12, <1>13, <1>14, <1>15, Zenon DEF SigCounted, activate
<1>17. \A x \in Signatures : x # s =>
         /\ sig'[x] = sig[x]
         /\ sigAt'[x] = IF x \in room.keys THEN sigAt[x] ELSE << >>
         /\ events'[x] = IF x \in room.keys THEN events[x] ELSE << >>
  <2> SUFFICES ASSUME NEW x \in Signatures, x # s
               PROVE  /\ sig'[x] = sig[x]
                      /\ sigAt'[x] = Only(room, sigAt)[x]
                      /\ events'[x] = Only(room, events)[x]
    BY <1>11, Zenon
  <2> QED BY <1>1, <1>4, <1>11, Zenon
<1>18. sigAt' \in [Signatures -> Seq(Nat)] /\ events' \in [Signatures -> Seq(Nat)]
  <2>1. /\ Only(room, sigAt) \in [Signatures -> Seq(Nat)]
        /\ Only(room, events) \in [Signatures -> Seq(Nat)]
    BY <1>4, OnlySeqs, Zenon
  <2>2. PICK f \in [Signatures -> Seq(Nat)], g \in [Signatures -> Seq(Nat)] :
          /\ f = Only(room, sigAt) /\ g = Only(room, events)
    BY <2>1, Zenon
  <2>3. /\ sigAt' = [f EXCEPT ![s] = Append(@, now)]
        /\ events' = [g EXCEPT ![s] = IF regular \/ strongly THEN Append(@, now) ELSE @]
    BY <1>1, <2>2, Zenon
  <2> QED BY <1>2, <1>3, <2>2, <2>3
<1>19. sig' \in [Signatures -> SigWindows]
  <2>1. sig'[s] \in SigWindows BY <1>16, Zenon DEF SigOK
  <2> QED BY <1>1, <1>3, <1>4, <1>14, <2>1, Zenon
<1>20. /\ obs' \in [Observers -> [sig : Results, shape : Results]]
       /\ obs'[o].sig \in Results /\ obs'[o].shape = obs[o].shape
       /\ obs'[o].sig.activate = activate
       /\ \A x \in Observers : x # o => obs'[x] = obs[x]
  <2>1. (regular \/ strongly) \in BOOLEAN BY Zenon
  <2>2. PICK r \in Results : r = [activate |-> activate, emit |-> regular \/ strongly]
    BY <1>9, <2>1, Zenon DEF Results
  <2>3. obs' = [obs EXCEPT ![o].sig = r] BY <1>1, <2>2, Zenon
  <2>4. r.activate = activate BY <2>2, Zenon
  <2>5. obs' \in [Observers -> [sig : Results, shape : Results]] BY <1>4, <2>3, Zenon
  <2>6. obs'[o].sig = r /\ obs'[o].shape = obs[o].shape BY <1>4, <2>3, Zenon
  <2>7. \A x \in Observers : x # o => obs'[x] = obs[x] BY <1>4, <2>3, Zenon
  <2> QED BY <2>2, <2>4, <2>5, <2>6, <2>7, Zenon
<1> QED BY <1>1, <1>16, <1>17, <1>18, <1>19, <1>20, Zenon DEF SigEffect

EventsSpaced(evs) ==
  \A i \in 1..(Len(evs) - 2) : evs[i + 2] - evs[i] >= Cooldown - MaxDelay

SamplesSpaced(ss) ==
  \A i \in 1..(Len(ss) - 2 * MaxSamples) :
    ss[i + 2 * MaxSamples] - ss[i] >= Second - MaxDelay

(* What the windows in the shard and their histories are after the step.   *)
SigsKept ==
  /\ sigs'.keys \subseteq Signatures /\ sig' \in [Signatures -> SigWindows]
  /\ sigAt' \in [Signatures -> Seq(Nat)] /\ events' \in [Signatures -> Seq(Nat)]
  /\ touched' \in [Keys -> Ticks] /\ \A k \in Keys : touched'[k] <= clock
  /\ \A k \in Shapes : touched'[k] = touched[k]
  /\ \A x \in sigs'.keys :
       /\ SigOK(sig'[x], sigAt'[x], events'[x], clock) /\ Len(sigAt'[x]) # 0
       /\ touched'[x] <= sig'[x].lastSeen + MaxDelay
  /\ \A x \in Signatures : EventsSpaced(events'[x])

LEMMA SignatureStep ==
  ASSUME IInv, NEW o \in Observers, NEW now \in Instants(o), ObserveSignature(o, now)
  PROVE  IInv'
<1>1. /\ at[o] = "signature"
      /\ at' = [at EXCEPT ![o] = IF TracksShape(req[o].reason) THEN "shape" ELSE "publish"]
      /\ since' = [since EXCEPT ![o] = clock]
      /\ UNCHANGED <<clock, req, called, shapes, shape, observed, strongAt, samples>>
  BY Zenon DEF ObserveSignature
<1>2. /\ clock' = clock /\ req' = req /\ shapes' = shapes /\ shape' = shape
      /\ observed' = observed /\ strongAt' = strongAt /\ samples' = samples
  BY <1>1, Zenon
<1>3. /\ SigsKept
      /\ obs' \in [Observers -> [sig : Results, shape : Results]]
      /\ obs'[o].shape = obs[o].shape
      /\ \A x \in Observers : x # o => obs'[x] = obs[x]
  <2>1. PICK s : s = req[o].sig BY Zenon
  <2>2. PICK room : room = MakeRoom(sigs, sig, s, now) BY Zenon
  <2>3. at[o] = "signature" BY Zenon DEF ObserveSignature
  <2>4. s \in Signatures /\ s \in Keys BY <2>1, <2>3, KeySets, Zenon DEF IInv, ObserverInv
  <2>5. /\ clock \in Ticks /\ now \in Ticks /\ now \in Nat /\ now <= clock
        /\ clock - now <= MaxDelay /\ clock \in Nat
    BY ObserverFacts, Zenon
  <2>6. /\ room.keys \subseteq sigs.keys /\ room.keys \subseteq Signatures
        /\ s \in sigs.keys => s \in room.keys
    BY <2>2, RoomOK, Zenon DEF IInv
  <2>7. /\ sig \in [Signatures -> SigWindows] /\ sigAt \in [Signatures -> Seq(Nat)]
        /\ events \in [Signatures -> Seq(Nat)] /\ touched \in [Keys -> Ticks]
        /\ obs \in [Observers -> [sig : Results, shape : Results]]
    BY Zenon DEF IInv, Types
  <2>8. /\ \A x \in sigs.keys :
             /\ SigOK(sig[x], sigAt[x], events[x], clock) /\ Len(sigAt[x]) # 0
             /\ touched[x] <= sig[x].lastSeen + MaxDelay
        /\ \A k \in Keys : touched[k] <= clock
    BY Zenon DEF IInv, SigInv
  <2>9. \A x \in Signatures : EventsSpaced(events[x])
    BY Zenon DEF IInv, LoggingBounded, EventsSpaced
  <2>10. CASE ~Admitted(room, s)
    <3>1. /\ sigs' = room /\ sigAt' = Only(room, sigAt) /\ events' = Only(room, events)
          /\ UNCHANGED <<sig, obs, touched>>
      BY <2>1, <2>2, <2>10, Zenon DEF ObserveSignature
    <3>2. sig' = sig /\ obs' = obs /\ touched' = touched BY <3>1, Zenon
    <3>3. /\ sigAt' \in [Signatures -> Seq(Nat)] /\ events' \in [Signatures -> Seq(Nat)]
      BY <2>7, <3>1, OnlySeqs, Zenon
    <3>4. \A x \in Signatures :
            /\ sigAt'[x] = IF x \in room.keys THEN sigAt[x] ELSE << >>
            /\ events'[x] = IF x \in room.keys THEN events[x] ELSE << >>
      BY <2>7, <3>1, Zenon DEF Only
    <3>5. \A x \in Signatures : EventsSpaced(events'[x])
      <4>1. EventsSpaced(<< >>) BY DEF EventsSpaced
      <4> QED BY <2>9, <3>4, <4>1, Zenon
    <3>6. SigsKept BY <2>6, <2>7, <2>8, <3>1, <3>2, <3>3, <3>4, <3>5, Zenon DEF SigsKept
    <3> QED BY <2>7, <3>2, <3>6, Zenon
  <2>11. CASE Admitted(room, s)
    <3>1. /\ sigs' = Entered(room, s)
          /\ \A x \in Signatures : x # s =>
               /\ sig'[x] = sig[x]
               /\ sigAt'[x] = IF x \in room.keys THEN sigAt[x] ELSE << >>
               /\ events'[x] = IF x \in room.keys THEN events[x] ELSE << >>
          /\ touched' = [touched EXCEPT ![s] = clock]
          /\ sigAt' \in [Signatures -> Seq(Nat)] /\ events' \in [Signatures -> Seq(Nat)]
          /\ sig' \in [Signatures -> SigWindows]
          /\ SigOK(sig'[s], sigAt'[s], events'[s], clock)
          /\ Len(sigAt'[s]) # 0 /\ sig'[s].lastSeen = now
          /\ obs'[o].shape = obs[o].shape
          /\ \A x \in Observers : x # o => obs'[x] = obs[x]
          /\ obs' \in [Observers -> [sig : Results, shape : Results]]
      <4>1. SigEffect(o, now, s, room) BY <2>1, <2>2, <2>11, SignatureEffect, Zenon
      <4> QED BY <4>1, Zenon DEF SigEffect
    <3>2. sigs'.keys \subseteq Signatures /\ sigs'.keys = room.keys \cup {s}
      <4>1. sigs'.keys = room.keys \cup {s} BY <3>1, EnteredKeys, Zenon
      <4> QED BY <2>4, <2>6, <4>1, Zenon
    <3>3. /\ touched' \in [Keys -> Ticks] /\ \A k \in Keys : touched'[k] <= clock
          /\ touched'[s] = clock /\ \A k \in Keys : k # s => touched'[k] = touched[k]
      BY <2>4, <2>5, <2>7, <2>8, <3>1
    <3>4. \A k \in Shapes : touched'[k] = touched[k] BY <2>4, <3>3, KeySets, Zenon
    <3>5. touched'[s] <= sig'[s].lastSeen + MaxDelay BY <2>5, <3>1, <3>3, Numbers
    <3>6. ASSUME NEW x \in sigs'.keys, x # s
          PROVE  /\ SigOK(sig'[x], sigAt'[x], events'[x], clock) /\ Len(sigAt'[x]) # 0
                 /\ touched'[x] <= sig'[x].lastSeen + MaxDelay
      <4>1. x \in room.keys /\ x \in sigs.keys /\ x \in Signatures /\ x \in Keys
        BY <2>6, <3>2, <3>6, KeySets, Zenon
      <4>2. sig'[x] = sig[x] /\ sigAt'[x] = sigAt[x] /\ events'[x] = events[x]
            /\ touched'[x] = touched[x]
        BY <3>1, <3>3, <3>6, <4>1, Zenon
      <4> QED BY <2>8, <4>1, <4>2, Zenon
    <3>7. \A x \in Signatures : EventsSpaced(events'[x])
      <4>1. EventsSpaced(events'[s]) BY <3>1, Zenon DEF SigOK, EventsOK, EventsSpaced
      <4>2. EventsSpaced(<< >>) BY DEF EventsSpaced
      <4> QED BY <2>9, <3>1, <4>1, <4>2, Zenon
    <3>8. SigsKept BY <3>1, <3>2, <3>3, <3>4, <3>5, <3>6, <3>7, Zenon DEF SigsKept
    <3> QED BY <3>1, <3>8, Zenon
  <2> QED BY <2>10, <2>11, Zenon
<1>4. /\ at \in [Observers -> {"idle", "signature", "shape", "publish"}]
      /\ since \in [Observers -> Ticks] /\ clock \in Ticks
  BY Zenon DEF IInv, Types
<1>5. PICK next \in {"shape", "publish"} : at' = [at EXCEPT ![o] = next] BY <1>1, Zenon
<1>6. /\ at' \in [Observers -> {"idle", "signature", "shape", "publish"}]
      /\ since' \in [Observers -> Ticks]
      /\ at'[o] = next /\ since'[o] = clock
      /\ \A x \in Observers : x # o => at'[x] = at[x] /\ since'[x] = since[x]
  BY <1>1, <1>4, <1>5, Zenon
<1>7. Types' BY <1>2, <1>3, <1>6, Zenon DEF IInv, Types, SigsKept
<1>8. ObserverInv'
  <2> SUFFICES ASSUME NEW x \in Observers
               PROVE  /\ since'[x] <= clock
                      /\ at'[x] # "idle" => req[x].sig \in Signatures /\ req[x].shape \in Shapes
                      /\ at'[x] \in {"idle", "signature"} => obs'[x].sig = Nothing
                      /\ at'[x] \in {"idle", "signature", "shape"} => obs'[x].shape = Nothing
    BY <1>2, Zenon DEF ObserverInv
  <2>1. /\ since[x] <= clock
        /\ at[x] # "idle" => req[x].sig \in Signatures /\ req[x].shape \in Shapes
        /\ at[x] \in {"idle", "signature"} => obs[x].sig = Nothing
        /\ at[x] \in {"idle", "signature", "shape"} => obs[x].shape = Nothing
    BY Zenon DEF IInv, ObserverInv
  <2>2. CASE x # o BY <1>3, <1>6, <2>1, <2>2, Zenon
  <2>3. CASE x = o
    <3>1. clock <= clock BY <1>4, Numbers DEF Ticks
    <3> QED BY <1>1, <1>3, <1>5, <1>6, <2>1, <2>3, <3>1, Zenon
  <2> QED BY <2>2, <2>3, Zenon
<1>9. SigInv' BY <1>2, <1>3, Zenon DEF SigInv, SigsKept
<1>10. ShapeInv'
  <2>1. \A p \in shapes.keys : touched'[p] = touched[p]
    BY <1>3, KeySets, Zenon DEF IInv, SigsKept
  <2> QED BY <1>2, <2>1, Zenon DEF IInv, ShapeInv
<1>11. GoneInv' BY <1>2, Zenon DEF IInv, GoneInv
<1>12. LoggingBounded' BY <1>2, <1>3, Zenon DEF IInv, LoggingBounded, EventsSpaced, SigsKept
<1> QED BY <1>2, <1>3, <1>7, <1>8, <1>9, <1>10, <1>11, <1>12, Zenon DEF IInv, SigsKept

(* A signature's window goes only when it was idle.                        *)
LEMMA SignatureEvicts ==
  ASSUME IInv, NEW o \in Observers, NEW now \in Instants(o), ObserveSignature(o, now),
         NEW k \in sigs.keys, k \notin sigs'.keys
  PROVE  clock - touched[k] >= IdleTicks - MaxDelay
<1>1. PICK s : s = req[o].sig BY Zenon
<1>2. PICK room : room = MakeRoom(sigs, sig, s, now) BY Zenon
<1>3. sigs' = room \/ sigs' = Entered(room, s)
  BY <1>1, <1>2, Zenon DEF ObserveSignature
<1>4. k \notin room.keys BY <1>3 DEF Entered, Insert
<1>5. k \in Signatures /\ k \in Keys
  BY KeySets, Zenon DEF IInv
<1>6. Elapsed(now, sig[k].lastSeen) >= IdleTicks BY <1>2, <1>4, <1>5, RoomOK, Zenon
<1>7. /\ SigOK(sig[k], sigAt[k], events[k], clock) /\ touched[k] <= clock
      /\ touched[k] <= sig[k].lastSeen + MaxDelay /\ touched[k] \in Ticks
  BY <1>5, Zenon DEF IInv, SigInv, Types
<1>8. sig[k].lastSeen \in Nat /\ sig[k].lastSeen <= clock /\ touched[k] \in Nat
  BY <1>7, Numbers DEF SigOK, SigWindows, Ticks
<1>9. clock \in Nat /\ now \in Nat /\ now <= clock BY ObserverFacts, Zenon
<1> QED BY <1>6, <1>7, <1>8, <1>9, IdleLongEnough, Zenon

(* The signature part of FloodsActivate.                                   *)
LEMMA SignatureActivates ==
  ASSUME IInv, NEW o \in Observers, NEW now \in Instants(o), ObserveSignature(o, now),
         Adds(sigAt, req[o].sig)
  PROVE  /\ obs'[o].sig.activate => Flood(sigAt'[req[o].sig], 0)
         /\ Suddenly(sigAt'[req[o].sig]) => obs'[o].sig.activate
<1>1. PICK s : s = req[o].sig BY Zenon
<1>2. PICK room : room = MakeRoom(sigs, sig, s, now) BY Zenon
<1>3. CASE ~Admitted(room, s)
  <2>1. sigAt' = Only(room, sigAt) BY <1>1, <1>2, <1>3, Zenon DEF ObserveSignature
  <2>2. s \in Signatures BY <1>1, Zenon DEF IInv, ObserverInv, ObserveSignature
  <2>3. sigAt \in [Signatures -> Seq(Nat)] BY Zenon DEF IInv, Types
  <2>4. sigAt'[s] = << >> \/ sigAt'[s] = sigAt[s] BY <2>1, <2>2, <2>3, Zenon DEF Only
  <2>5. Len(sigAt'[s]) <= Len(sigAt[s]) BY <2>2, <2>3, <2>4
  <2> QED BY <1>1, <2>2, <2>3, <2>4, <2>5 DEF Adds
<1>4. CASE Admitted(room, s)
  <2>1. SigEffect(o, now, s, room) BY <1>1, <1>2, <1>4, SignatureEffect, Zenon
  <2> QED BY <1>1, <2>1, Zenon DEF SigEffect
<1> QED BY <1>3, <1>4, Zenon
----------------------------------------------------------------------------
(* The path-shape shard.                                                   *)

(* What an observation changes of the windows and their histories.         *)
ShapeEffect(o, now, p, room) ==
  /\ shapes' = Entered(room, p)
  /\ \A x \in Shapes : x # p =>
       /\ shape'[x] = shape[x]
       /\ strongAt'[x] = IF x \in room.keys THEN strongAt[x] ELSE << >>
       /\ samples'[x] = IF x \in room.keys THEN samples[x] ELSE << >>
  /\ touched' = [touched EXCEPT ![p] = clock]
  /\ strongAt' \in [Shapes -> Seq(Nat)] /\ samples' \in [Shapes -> Seq(Nat)]
  /\ shape' \in [Shapes -> ShapeWindows]
  /\ ShapeOK(shape'[p], strongAt'[p], samples'[p], clock) /\ shape'[p].lastSeen = now
  /\ obs'[o].shape \in Results /\ obs'[o].sig = obs[o].sig
  /\ \A x \in Observers : x # o => obs'[x] = obs[x]
  /\ obs' \in [Observers -> [sig : Results, shape : Results]]
  /\ obs'[o].shape.activate => Adds(strongAt, p) /\ Flood(strongAt'[p], MaxDelay)
  /\ Adds(strongAt, p) /\ Suddenly(strongAt'[p]) => obs'[o].shape.activate

LEMMA ShapeEffects ==
  ASSUME IInv, NEW o \in Observers, NEW now \in Instants(o), ObserveShape(o, now),
         NEW p, p = req[o].shape, NEW room, room = MakeRoom(shapes, shape, p, now),
         Admitted(room, p)
  PROVE  ShapeEffect(o, now, p, room)
<1> DEFINE strong   == req[o].reason = "strong"
           w0       == IF p \in room.keys THEN shape[p] ELSE FreshShape(now)
           w        == SampleWindow(w0, now)
           pressure == Pressure(w.bucket, now)
           strongly == strong /\ Pressure(w.strong, now)
           emit     == (pressure \/ strongly) /\ w.emitted < MaxSamples
<1>1. /\ at[o] = "shape"
      /\ shapes' = Entered(room, p)
      /\ shape' = [shape EXCEPT ![p] =
           [w EXCEPT !.bucket = Charged(@, now),
                     !.strong = IF strong THEN Charged(@, now) ELSE @,
                     !.emitted = IF emit THEN @ + 1 ELSE @, !.lastSeen = now]]
      /\ obs' = [obs EXCEPT ![o].shape =
           [activate |-> ShapeActivated(pressure, strongly), emit |-> emit]]
      /\ touched' = [touched EXCEPT ![p] = clock]
      /\ strongAt' = [Only(room, strongAt) EXCEPT ![p] = IF strong THEN Append(@, now) ELSE @]
      /\ samples' = [Only(room, samples) EXCEPT ![p] = IF emit THEN Append(@, now) ELSE @]
  BY Zenon DEF ObserveShape
<1>2. /\ clock \in Ticks /\ now \in Ticks /\ now \in Nat /\ now <= clock
      /\ clock - now <= MaxDelay
  BY ObserverFacts, Zenon
<1>3. p \in Shapes BY <1>1, Zenon DEF IInv, ObserverInv
<1>4. /\ shape \in [Shapes -> ShapeWindows] /\ strongAt \in [Shapes -> Seq(Nat)]
      /\ samples \in [Shapes -> Seq(Nat)]
      /\ obs \in [Observers -> [sig : Results, shape : Results]]
  BY Zenon DEF IInv, Types
<1>5. room.keys \subseteq shapes.keys BY RoomOK
<1>6. PICK h \in Seq(Nat) : h = IF p \in room.keys THEN strongAt[p] ELSE << >>
  <2>1. << >> \in Seq(Nat) /\ strongAt[p] \in Seq(Nat) BY <1>3, <1>4
  <2> QED BY <2>1, Zenon
<1>7. PICK e \in Seq(Nat) : e = IF p \in room.keys THEN samples[p] ELSE << >>
  <2>1. << >> \in Seq(Nat) /\ samples[p] \in Seq(Nat) BY <1>3, <1>4
  <2> QED BY <2>1, Zenon
<1>8. ShapeOK(w0, h, e, clock)
  <2>1. CASE p \in room.keys
    <3>1. ShapeOK(shape[p], strongAt[p], samples[p], clock)
      BY <1>5, <2>1, Zenon DEF IInv, ShapeInv
    <3> QED BY <1>6, <1>7, <2>1, <3>1, Zenon
  <2>2. CASE p \notin room.keys
    <3>1. ShapeOK(FreshShape(now), << >>, << >>, clock)
      BY <1>2, FreshWindows, Zenon
    <3> QED BY <1>6, <1>7, <2>2, <3>1, Zenon
  <2> QED BY <2>1, <2>2, Zenon
<1>9. /\ pressure \in BOOLEAN /\ strong \in BOOLEAN /\ strongly \in BOOLEAN
      /\ emit \in BOOLEAN
  BY Zenon DEF Pressure
<1>10. emit => w.emitted < MaxSamples BY Zenon
<1>11. /\ DOMAIN Only(room, strongAt) = Shapes /\ DOMAIN Only(room, samples) = Shapes
       /\ \A x \in Shapes :
            /\ Only(room, strongAt)[x] = IF x \in room.keys THEN strongAt[x] ELSE << >>
            /\ Only(room, samples)[x] = IF x \in room.keys THEN samples[x] ELSE << >>
  BY <1>4, Zenon DEF Only
<1>12. strongly <=> strong /\ Pressure(w.strong, now) BY Zenon
<1> HIDE DEF w0, pressure, emit, strong, strongly
<1>13. ShapeOK(w, h, e, clock) /\ now < w.start + Second
  <2>1. PICK v : v = SampleWindow(w0, now) BY Zenon
  <2>2. ShapeOK(v, h, e, clock) BY <1>2, <1>8, <2>1, SampleWindowStep, Zenon
  <2>3. now < v.start + Second BY <1>2, <1>8, <2>1, SampleWindowStep, Zenon
  <2> QED BY <2>1, <2>2, <2>3, Zenon
<1> HIDE DEF w
<1>14. strongAt'[p] = Logged(h, now, strong)
  <2>1. Only(room, strongAt)[p] = h BY <1>3, <1>6, <1>11, Zenon
  <2>2. strongAt'[p] = Logged(Only(room, strongAt)[p], now, strong)
    BY <1>1, <1>3, <1>11, Zenon DEF Logged
  <2> QED BY <2>1, <2>2, Zenon
<1>15. samples'[p] = Logged(e, now, emit)
  <2>1. Only(room, samples)[p] = e BY <1>3, <1>7, <1>11, Zenon
  <2>2. samples'[p] = Logged(Only(room, samples)[p], now, emit)
    BY <1>1, <1>3, <1>11, Zenon DEF Logged
  <2> QED BY <2>1, <2>2, Zenon
<1>16. shape' = [shape EXCEPT ![p] = ShapeObserved(w, now, strong, emit)]
  BY <1>1, <1>13, Zenon DEF ShapeObserved, Updated, ShapeOK, ShapeWindows
<1>17. ShapeCounted(w, h, e, now, strong, emit, clock)
  BY <1>2, <1>9, <1>10, <1>13, ShapeWindowStep, Zenon
<1>18. shape'[p] = ShapeObserved(w, now, strong, emit) BY <1>3, <1>4, <1>16, Zenon
<1>19. /\ ShapeOK(shape'[p], strongAt'[p], samples'[p], clock) /\ shape'[p].lastSeen = now
       /\ strongAt'[p] \in Seq(Nat) /\ samples'[p] \in Seq(Nat)
       /\ strong => /\ Len(strongAt'[p]) > Len(h)
                    /\ Pressure(w.strong, now) => Flood(strongAt'[p], MaxDelay)
                    /\ Suddenly(strongAt'[p]) => Pressure(w.strong, now)
  BY <1>14, <1>15, <1>17, <1>18, Zenon DEF ShapeCounted
<1>20. \A x \in Shapes : x # p =>
         /\ shape'[x] = shape[x]
         /\ strongAt'[x] = IF x \in room.keys THEN strongAt[x] ELSE << >>
         /\ samples'[x] = IF x \in room.keys THEN samples[x] ELSE << >>
  <2> SUFFICES ASSUME NEW x \in Shapes, x # p
               PROVE  /\ shape'[x] = shape[x]
                      /\ strongAt'[x] = Only(room, strongAt)[x]
                      /\ samples'[x] = Only(room, samples)[x]
    BY <1>11, Zenon
  <2>1. shape'[x] = shape[x] BY <1>4, <1>16, Zenon
  <2> QED BY <1>1, <1>11, <2>1, Zenon
<1>21. strongAt' \in [Shapes -> Seq(Nat)] /\ samples' \in [Shapes -> Seq(Nat)]
  <2>1. /\ Only(room, strongAt) \in [Shapes -> Seq(Nat)]
        /\ Only(room, samples) \in [Shapes -> Seq(Nat)]
    BY <1>4, OnlySeqs, Zenon
  <2>2. PICK f \in [Shapes -> Seq(Nat)], g \in [Shapes -> Seq(Nat)] :
          /\ f = Only(room, strongAt) /\ g = Only(room, samples)
    BY <2>1, Zenon
  <2>3. /\ strongAt' = [f EXCEPT ![p] = IF strong THEN Append(@, now) ELSE @]
        /\ samples' = [g EXCEPT ![p] = IF emit THEN Append(@, now) ELSE @]
    BY <1>1, <2>2, Zenon
  <2> QED BY <1>2, <1>3, <2>2, <2>3
<1>22. shape' \in [Shapes -> ShapeWindows]
  <2>1. ShapeObserved(w, now, strong, emit) \in ShapeWindows BY <1>18, <1>19, Zenon DEF ShapeOK
  <2>2. PICK v \in ShapeWindows : v = ShapeObserved(w, now, strong, emit) BY <2>1, Zenon
  <2>3. shape' = [shape EXCEPT ![p] = v] BY <1>16, <2>2, Zenon
  <2> QED BY <1>4, <2>3, Zenon
<1>23. /\ obs' \in [Observers -> [sig : Results, shape : Results]]
       /\ obs'[o].shape \in Results /\ obs'[o].sig = obs[o].sig
       /\ obs'[o].shape.activate = strongly
       /\ \A x \in Observers : x # o => obs'[x] = obs[x]
  <2>1. PICK r \in Results : r = [activate |-> strongly, emit |-> emit]
    BY <1>9, Zenon DEF Results
  <2>2. obs' = [obs EXCEPT ![o].shape = r] BY <1>1, <2>1, Zenon DEF ShapeActivated
  <2>3. r.activate = strongly BY <2>1, Zenon
  <2>4. obs' \in [Observers -> [sig : Results, shape : Results]] BY <1>4, <2>2, Zenon
  <2>5. obs'[o].shape = r /\ obs'[o].sig = obs[o].sig BY <1>4, <2>2, Zenon
  <2>6. \A x \in Observers : x # o => obs'[x] = obs[x] BY <1>4, <2>2, Zenon
  <2> QED BY <2>1, <2>3, <2>4, <2>5, <2>6, Zenon
<1>24. strong <=> Adds(strongAt, p)
  <2>1. h = strongAt[p]
    <3>1. CASE p \in room.keys BY <1>6, <3>1, Zenon
    <3>2. CASE p \notin room.keys
      <4>1. p \notin shapes.keys BY <3>2, RoomOK, Zenon
      <4>2. strongAt[p] = << >> BY <1>3, <4>1, Zenon DEF IInv, GoneInv
      <4> QED BY <1>6, <3>2, <4>2, Zenon
    <3> QED BY <3>1, <3>2, Zenon
  <2>2. ~strong => strongAt'[p] = h BY <1>14, Zenon DEF Logged
  <2> QED BY <1>9, <1>19, <2>1, <2>2 DEF Adds
<1> QED BY <1>1, <1>12, <1>19, <1>20, <1>21, <1>22, <1>23, <1>24, Zenon DEF ShapeEffect

(* What the windows in the shard and their histories are after the step.   *)
ShapesKept ==
  /\ shapes'.keys \subseteq Shapes /\ shape' \in [Shapes -> ShapeWindows]
  /\ strongAt' \in [Shapes -> Seq(Nat)] /\ samples' \in [Shapes -> Seq(Nat)]
  /\ touched' \in [Keys -> Ticks] /\ \A k \in Keys : touched'[k] <= clock
  /\ \A k \in Signatures : touched'[k] = touched[k]
  /\ \A x \in shapes'.keys :
       /\ ShapeOK(shape'[x], strongAt'[x], samples'[x], clock)
       /\ touched'[x] <= shape'[x].lastSeen + MaxDelay
  /\ \A x \in Shapes \ shapes'.keys : strongAt'[x] = << >>
  /\ \A x \in Shapes : SamplesSpaced(samples'[x])

LEMMA ShapeStep ==
  ASSUME IInv, NEW o \in Observers, NEW now \in Instants(o), ObserveShape(o, now)
  PROVE  IInv'
<1>1. /\ at[o] = "shape" /\ at' = [at EXCEPT ![o] = "publish"]
      /\ UNCHANGED <<clock, req, since, called, sigs, sig, observed, sigAt, events>>
  BY Zenon DEF ObserveShape
<1>2. /\ clock' = clock /\ req' = req /\ since' = since /\ sigs' = sigs /\ sig' = sig
      /\ observed' = observed /\ sigAt' = sigAt /\ events' = events
  BY <1>1, Zenon
<1>3. /\ ShapesKept
      /\ obs' \in [Observers -> [sig : Results, shape : Results]]
      /\ \A x \in Observers : x # o => obs'[x] = obs[x]
  <2>1. PICK p : p = req[o].shape BY Zenon
  <2>2. PICK room : room = MakeRoom(shapes, shape, p, now) BY Zenon
  <2>3. at[o] = "shape" BY Zenon DEF ObserveShape
  <2>4. p \in Shapes /\ p \in Keys BY <2>1, <2>3, KeySets, Zenon DEF IInv, ObserverInv
  <2>5. /\ clock \in Ticks /\ now \in Ticks /\ now \in Nat /\ now <= clock
        /\ clock - now <= MaxDelay /\ clock \in Nat
    BY ObserverFacts
  <2>6. /\ room.keys \subseteq shapes.keys /\ room.keys \subseteq Shapes
        /\ p \in shapes.keys => p \in room.keys
    BY <2>2, RoomOK, Zenon DEF IInv
  <2>7. /\ shape \in [Shapes -> ShapeWindows] /\ strongAt \in [Shapes -> Seq(Nat)]
        /\ samples \in [Shapes -> Seq(Nat)] /\ touched \in [Keys -> Ticks]
        /\ obs \in [Observers -> [sig : Results, shape : Results]]
    BY Zenon DEF IInv, Types
  <2>8. /\ \A x \in shapes.keys :
             /\ ShapeOK(shape[x], strongAt[x], samples[x], clock)
             /\ touched[x] <= shape[x].lastSeen + MaxDelay
        /\ \A k \in Keys : touched[k] <= clock
        /\ \A x \in Shapes \ shapes.keys : strongAt[x] = << >>
    BY Zenon DEF IInv, ShapeInv, GoneInv
  <2>9. \A x \in Shapes : SamplesSpaced(samples[x])
    BY Zenon DEF IInv, LoggingBounded, SamplesSpaced
  <2>10. CASE ~Admitted(room, p)
    <3>1. /\ shapes' = room /\ strongAt' = Only(room, strongAt)
          /\ samples' = Only(room, samples) /\ UNCHANGED <<obs, shape, touched>>
      BY <2>1, <2>2, <2>10, Zenon DEF ObserveShape
    <3>2. shape' = shape /\ obs' = obs /\ touched' = touched BY <3>1, Zenon
    <3>3. /\ strongAt' \in [Shapes -> Seq(Nat)] /\ samples' \in [Shapes -> Seq(Nat)]
      BY <2>7, <3>1, OnlySeqs, Zenon
    <3>4. \A x \in Shapes :
            /\ strongAt'[x] = IF x \in room.keys THEN strongAt[x] ELSE << >>
            /\ samples'[x] = IF x \in room.keys THEN samples[x] ELSE << >>
      BY <2>7, <3>1, Zenon DEF Only
    <3>5. \A x \in Shapes : SamplesSpaced(samples'[x])
      <4>1. SamplesSpaced(<< >>) BY Numbers DEF SamplesSpaced
      <4> QED BY <2>9, <3>4, <4>1, Zenon
    <3>6. ShapesKept BY <2>6, <2>7, <2>8, <3>1, <3>2, <3>3, <3>4, <3>5, Zenon DEF ShapesKept
    <3> QED BY <2>7, <3>2, <3>6, Zenon
  <2>11. CASE Admitted(room, p)
    <3>1. /\ shapes' = Entered(room, p)
          /\ \A x \in Shapes : x # p =>
               /\ shape'[x] = shape[x]
               /\ strongAt'[x] = IF x \in room.keys THEN strongAt[x] ELSE << >>
               /\ samples'[x] = IF x \in room.keys THEN samples[x] ELSE << >>
          /\ touched' = [touched EXCEPT ![p] = clock]
          /\ strongAt' \in [Shapes -> Seq(Nat)] /\ samples' \in [Shapes -> Seq(Nat)]
          /\ shape' \in [Shapes -> ShapeWindows]
          /\ ShapeOK(shape'[p], strongAt'[p], samples'[p], clock) /\ shape'[p].lastSeen = now
          /\ \A x \in Observers : x # o => obs'[x] = obs[x]
          /\ obs' \in [Observers -> [sig : Results, shape : Results]]
      <4>1. ShapeEffect(o, now, p, room) BY <2>1, <2>2, <2>11, ShapeEffects, Zenon
      <4> QED BY <4>1, Zenon DEF ShapeEffect
    <3>2. shapes'.keys \subseteq Shapes /\ shapes'.keys = room.keys \cup {p}
      <4>1. shapes'.keys = room.keys \cup {p} BY <3>1, EnteredKeys, Zenon
      <4> QED BY <2>4, <2>6, <4>1, Zenon
    <3>3. /\ touched' \in [Keys -> Ticks] /\ \A k \in Keys : touched'[k] <= clock
          /\ touched'[p] = clock /\ \A k \in Keys : k # p => touched'[k] = touched[k]
      BY <2>4, <2>5, <2>7, <2>8, <3>1
    <3>4. \A k \in Signatures : touched'[k] = touched[k] BY <2>4, <3>3, KeySets, Zenon
    <3>5. touched'[p] <= shape'[p].lastSeen + MaxDelay BY <2>5, <3>1, <3>3, Numbers
    <3>6. ASSUME NEW x \in shapes'.keys, x # p
          PROVE  /\ ShapeOK(shape'[x], strongAt'[x], samples'[x], clock)
                 /\ touched'[x] <= shape'[x].lastSeen + MaxDelay
      <4>1. x \in room.keys /\ x \in shapes.keys /\ x \in Shapes /\ x \in Keys
        BY <2>6, <3>2, <3>6, KeySets, Zenon
      <4>2. shape'[x] = shape[x] /\ strongAt'[x] = strongAt[x] /\ samples'[x] = samples[x]
            /\ touched'[x] = touched[x]
        BY <3>1, <3>3, <3>6, <4>1, Zenon
      <4> QED BY <2>8, <4>1, <4>2, Zenon
    <3>7. \A x \in Shapes \ shapes'.keys : strongAt'[x] = << >>
      BY <3>1, <3>2, Zenon
    <3>8. \A x \in Shapes : SamplesSpaced(samples'[x])
      <4>1. SamplesSpaced(samples'[p]) BY <3>1, Zenon DEF ShapeOK, SamplesOK, SamplesSpaced
      <4>2. SamplesSpaced(<< >>) BY Numbers DEF SamplesSpaced
      <4> QED BY <2>9, <3>1, <4>1, <4>2, Zenon
    <3>9. ShapesKept
      BY <3>1, <3>2, <3>3, <3>4, <3>5, <3>6, <3>7, <3>8, Zenon DEF ShapesKept
    <3> QED BY <3>1, <3>9, Zenon
  <2> QED BY <2>10, <2>11, Zenon
<1>4. at \in [Observers -> {"idle", "signature", "shape", "publish"}]
  BY Zenon DEF IInv, Types
<1>5. /\ at' \in [Observers -> {"idle", "signature", "shape", "publish"}]
      /\ at'[o] = "publish" /\ \A x \in Observers : x # o => at'[x] = at[x]
  BY <1>1, <1>4, Zenon
<1>6. Types' BY <1>2, <1>3, <1>5, Zenon DEF IInv, Types, ShapesKept
<1>7. ObserverInv'
  <2> SUFFICES ASSUME NEW x \in Observers
               PROVE  /\ since[x] <= clock
                      /\ at'[x] # "idle" => req[x].sig \in Signatures /\ req[x].shape \in Shapes
                      /\ at'[x] \in {"idle", "signature"} => obs'[x].sig = Nothing
                      /\ at'[x] \in {"idle", "signature", "shape"} => obs'[x].shape = Nothing
    BY <1>2, Zenon DEF ObserverInv
  <2>1. /\ since[x] <= clock
        /\ at[x] # "idle" => req[x].sig \in Signatures /\ req[x].shape \in Shapes
        /\ at[x] \in {"idle", "signature"} => obs[x].sig = Nothing
        /\ at[x] \in {"idle", "signature", "shape"} => obs[x].shape = Nothing
    BY Zenon DEF IInv, ObserverInv
  <2>2. CASE x # o BY <1>3, <1>5, <2>1, <2>2, Zenon
  <2>3. CASE x = o BY <1>1, <1>5, <2>1, <2>3, Zenon
  <2> QED BY <2>2, <2>3, Zenon
<1>8. SigInv'
  <2>1. \A s \in sigs.keys : touched'[s] = touched[s]
    BY <1>3, KeySets, Zenon DEF IInv, ShapesKept
  <2> QED BY <1>2, <2>1, Zenon DEF IInv, SigInv
<1>9. ShapeInv' /\ GoneInv' BY <1>2, <1>3, Zenon DEF ShapeInv, GoneInv, ShapesKept
<1>10. LoggingBounded'
  BY <1>2, <1>3, Zenon DEF IInv, LoggingBounded, SamplesSpaced, ShapesKept
<1> QED BY <1>2, <1>3, <1>6, <1>7, <1>8, <1>9, <1>10, Zenon DEF IInv, ShapesKept

(* A path shape's window goes only when it was idle.                       *)
LEMMA ShapeEvicts ==
  ASSUME IInv, NEW o \in Observers, NEW now \in Instants(o), ObserveShape(o, now),
         NEW k \in shapes.keys, k \notin shapes'.keys
  PROVE  clock - touched[k] >= IdleTicks - MaxDelay
<1>1. PICK p : p = req[o].shape BY Zenon
<1>2. PICK room : room = MakeRoom(shapes, shape, p, now) BY Zenon
<1>3. shapes' = room \/ shapes' = Entered(room, p)
  BY <1>1, <1>2, Zenon DEF ObserveShape
<1>4. k \notin room.keys BY <1>3 DEF Entered, Insert
<1>5. k \in Shapes /\ k \in Keys
  BY KeySets, Zenon DEF IInv
<1>6. Elapsed(now, shape[k].lastSeen) >= IdleTicks BY <1>2, <1>4, <1>5, RoomOK
<1>7. /\ ShapeOK(shape[k], strongAt[k], samples[k], clock) /\ touched[k] <= clock
      /\ touched[k] <= shape[k].lastSeen + MaxDelay /\ touched[k] \in Ticks
  BY <1>5, Zenon DEF IInv, ShapeInv, Types
<1>8. shape[k].lastSeen \in Nat /\ shape[k].lastSeen <= clock /\ touched[k] \in Nat
  BY <1>7, Numbers DEF ShapeOK, ShapeWindows, Ticks
<1>9. clock \in Nat /\ now \in Nat /\ now <= clock BY ObserverFacts
<1> QED BY <1>6, <1>7, <1>8, <1>9, IdleLongEnough, Zenon

(* The path-shape part of FloodsActivate.                                  *)
LEMMA ShapeActivates ==
  ASSUME IInv, NEW o \in Observers, NEW now \in Instants(o), ObserveShape(o, now)
  PROVE  LET p == req[o].shape
         IN  /\ obs'[o].shape.activate => Adds(strongAt, p) /\ Flood(strongAt'[p], MaxDelay)
             /\ Adds(strongAt, p) /\ Suddenly(strongAt'[p]) => obs'[o].shape.activate
<1>1. PICK p : p = req[o].shape BY Zenon
<1>2. PICK room : room = MakeRoom(shapes, shape, p, now) BY Zenon
<1>3. CASE ~Admitted(room, p)
  <2>1. /\ UNCHANGED <<obs, shape, touched>> /\ at[o] = "shape"
        /\ strongAt' = Only(room, strongAt)
    BY <1>1, <1>2, <1>3, Zenon DEF ObserveShape
  <2>2. obs'[o].shape = Nothing BY <2>1, Zenon DEF IInv, ObserverInv
  <2>3. ~obs'[o].shape.activate BY <2>2 DEF Nothing
  <2>4. p \in Shapes BY <1>1, <2>1, Zenon DEF IInv, ObserverInv
  <2>5. strongAt \in [Shapes -> Seq(Nat)] BY Zenon DEF IInv, Types
  <2>6. strongAt'[p] = << >> \/ strongAt'[p] = strongAt[p] BY <2>1, <2>4, <2>5, Zenon DEF Only
  <2>7. ~Adds(strongAt, p) BY <2>4, <2>5, <2>6 DEF Adds
  <2> QED BY <1>1, <2>3, <2>7, Zenon
<1>4. CASE Admitted(room, p)
  <2>1. ShapeEffect(o, now, p, room) BY <1>1, <1>2, <1>4, ShapeEffects, Zenon
  <2> QED BY <1>1, <2>1, Zenon DEF ShapeEffect
<1> QED BY <1>3, <1>4, Zenon
----------------------------------------------------------------------------
(* The other actions.                                                      *)

LEMMA InitInv ==
  ASSUME Init
  PROVE  IInv
<1>1. 0 \in Ticks /\ 0 \in 0..MaxObserved
  BY Numbers, DetectorAssumption DEF Ticks
<1>2. << >> \in Seq(Nat) OBVIOUS
<1>3. FreshSig(0) \in SigWindows /\ FreshShape(0) \in ShapeWindows
  BY <1>1, FreshWindows DEF SigOK, ShapeOK
<1>4. Nothing \in Results BY Zenon DEF Nothing, Results
<1>5. clock \in Ticks /\ observed \in 0..MaxObserved BY <1>1, Zenon DEF Init
<1>6. /\ at \in [Observers -> {"idle", "signature", "shape", "publish"}]
      /\ req \in [Observers -> Requests]
      /\ since \in [Observers -> Ticks]
  BY <1>1, Zenon DEF Init, NoRequest, Requests
<1>7. obs \in [Observers -> [sig : Results, shape : Results]]
  BY <1>4, Zenon DEF Init
<1>8. sig \in [Signatures -> SigWindows] /\ shape \in [Shapes -> ShapeWindows]
  BY <1>3, Zenon DEF Init
<1>9. touched \in [Keys -> Ticks] BY <1>1, Zenon DEF Init
<1>10. /\ sigAt \in [Signatures -> Seq(Nat)] /\ events \in [Signatures -> Seq(Nat)]
       /\ strongAt \in [Shapes -> Seq(Nat)] /\ samples \in [Shapes -> Seq(Nat)]
  BY <1>2, Zenon DEF Init
<1>11. Types BY <1>5, <1>6, <1>7, <1>8, <1>9, <1>10, Zenon DEF Types
<1>13. sigs.keys = {} /\ shapes.keys = {} BY Zenon DEF Init
<1>14. \A k \in Keys : touched[k] <= clock BY DEF Init
<1>15. ObserverInv BY DEF Init, ObserverInv
<1>16. SigInv /\ ShapeInv BY <1>13, Zenon DEF SigInv, ShapeInv
<1>17. GoneInv BY Zenon DEF Init, GoneInv
<1>18. LoggingBounded
  <2>1. EventsSpaced(<< >>) BY DEF EventsSpaced
  <2>2. SamplesSpaced(<< >>) BY Numbers DEF SamplesSpaced
  <2>3. /\ \A s \in Signatures : events[s] = << >>
        /\ \A p \in Shapes : samples[p] = << >>
    BY Zenon DEF Init
  <2> QED BY <2>1, <2>2, <2>3, Zenon DEF LoggingBounded, EventsSpaced, SamplesSpaced
<1> QED BY <1>11, <1>13, <1>14, <1>15, <1>16, <1>17, <1>18, Zenon DEF IInv

LEMMA ObserveStep ==
  ASSUME IInv, NEW o \in Observers, NEW s \in Signatures, NEW p \in Shapes,
         NEW r \in Reasons, Observe(o, s, p, r)
  PROVE  IInv'
<1>1. /\ at[o] = "idle" /\ observed < MaxObserved
      /\ req' = [req EXCEPT ![o] = [sig |-> s, shape |-> p, reason |-> r]]
      /\ at' = [at EXCEPT ![o] = "signature"]
      /\ since' = [since EXCEPT ![o] = clock]
      /\ observed' = observed + 1
      /\ clock' = clock /\ obs' = obs /\ tables' = tables /\ history' = history
  BY Zenon DEF Observe
<1>2. /\ sigs' = sigs /\ sig' = sig /\ shapes' = shapes /\ shape' = shape
      /\ touched' = touched /\ sigAt' = sigAt /\ strongAt' = strongAt
      /\ events' = events /\ samples' = samples
  BY <1>1, Zenon DEF tables, history
<1>3. Types BY Zenon DEF IInv
<1>4. clock \in Ticks /\ clock <= clock BY <1>3, Numbers DEF Types, Ticks
<1>5. PICK q \in Requests : q = [sig |-> s, shape |-> p, reason |-> r]
  <2>1. [sig |-> s, shape |-> p, reason |-> r] \in Requests BY Zenon DEF Requests
  <2> QED BY <2>1, Zenon
<1>6. observed' \in 0..MaxObserved BY <1>1, <1>3, DetectorAssumption DEF Types
<1>7. /\ at' \in [Observers -> {"idle", "signature", "shape", "publish"}]
      /\ req' \in [Observers -> Requests]
      /\ since' \in [Observers -> Ticks]
      /\ at'[o] = "signature" /\ req'[o] = q /\ since'[o] = clock
      /\ \A x \in Observers : x # o =>
           at'[x] = at[x] /\ req'[x] = req[x] /\ since'[x] = since[x]
  <2>1. req' = [req EXCEPT ![o] = q] BY <1>1, <1>5, Zenon
  <2>2. /\ at' \in [Observers -> {"idle", "signature", "shape", "publish"}]
        /\ req' \in [Observers -> Requests]
        /\ since' \in [Observers -> Ticks]
    BY <1>1, <1>3, <1>4, <2>1, Zenon DEF Types
  <2> QED BY <1>1, <1>3, <2>1, <2>2, Zenon DEF Types
<1>8. Types' BY <1>1, <1>2, <1>3, <1>6, <1>7, Zenon DEF Types
<1>9. ObserverInv'
  <2> SUFFICES ASSUME NEW x \in Observers
               PROVE  /\ since'[x] <= clock
                      /\ at'[x] # "idle" => req'[x].sig \in Signatures /\ req'[x].shape \in Shapes
                      /\ at'[x] \in {"idle", "signature"} => obs[x].sig = Nothing
                      /\ at'[x] \in {"idle", "signature", "shape"} => obs[x].shape = Nothing
    BY <1>1, Zenon DEF ObserverInv
  <2>1. /\ since[x] <= clock
        /\ at[x] # "idle" => req[x].sig \in Signatures /\ req[x].shape \in Shapes
        /\ at[x] \in {"idle", "signature"} => obs[x].sig = Nothing
        /\ at[x] \in {"idle", "signature", "shape"} => obs[x].shape = Nothing
    BY Zenon DEF IInv, ObserverInv
  <2>2. CASE x # o BY <1>7, <2>1, <2>2, Zenon
  <2>3. CASE x = o BY <1>1, <1>4, <1>5, <1>7, <2>1, <2>3, Zenon
  <2> QED BY <2>2, <2>3, Zenon
<1> QED BY <1>1, <1>2, <1>8, <1>9, Zenon
        DEF IInv, SigInv, ShapeInv, GoneInv, LoggingBounded

LEMMA PublishStep ==
  ASSUME IInv, NEW o \in Observers, Publish(o)
  PROVE  IInv'
<1>1. /\ at[o] = "publish" /\ at' = [at EXCEPT ![o] = "idle"]
      /\ obs' = [obs EXCEPT ![o] = [sig |-> Nothing, shape |-> Nothing]]
      /\ req' = [req EXCEPT ![o] = NoRequest] /\ since' = [since EXCEPT ![o] = 0]
      /\ clock' = clock /\ observed' = observed /\ tables' = tables /\ history' = history
  BY Zenon DEF Publish
<1>2. /\ sigs' = sigs /\ sig' = sig /\ shapes' = shapes /\ shape' = shape
      /\ touched' = touched /\ sigAt' = sigAt /\ strongAt' = strongAt
      /\ events' = events /\ samples' = samples
  BY <1>1, Zenon DEF tables, history
<1>3. Types BY Zenon DEF IInv
<1>4. 0 \in Ticks /\ 0 <= clock BY <1>3, Numbers DEF Types, Ticks
<1>5. PICK q \in [sig : Results, shape : Results] : q = [sig |-> Nothing, shape |-> Nothing]
  <2>1. Nothing \in Results BY Zenon DEF Nothing, Results
  <2>2. [sig |-> Nothing, shape |-> Nothing] \in [sig : Results, shape : Results]
    BY <2>1, Zenon
  <2> QED BY <2>2, Zenon
<1>6. NoRequest \in Requests BY Zenon DEF NoRequest, Requests
<1>7. obs' = [obs EXCEPT ![o] = q] BY <1>1, <1>5, Zenon
<1>8. /\ at' \in [Observers -> {"idle", "signature", "shape", "publish"}]
      /\ req' \in [Observers -> Requests]
      /\ since' \in [Observers -> Ticks]
      /\ obs' \in [Observers -> [sig : Results, shape : Results]]
  BY <1>1, <1>3, <1>4, <1>6, <1>7 DEF Types
<1>9. /\ at'[o] = "idle" /\ since'[o] = 0 /\ obs'[o] = q
      /\ \A x \in Observers : x # o =>
           at'[x] = at[x] /\ req'[x] = req[x] /\ since'[x] = since[x] /\ obs'[x] = obs[x]
  BY <1>1, <1>3, <1>7, Zenon DEF Types
<1>10. Types' BY <1>1, <1>2, <1>3, <1>8, Zenon DEF Types
<1>11. ObserverInv'
  <2> SUFFICES ASSUME NEW x \in Observers
               PROVE  /\ since'[x] <= clock
                      /\ at'[x] # "idle" => req'[x].sig \in Signatures /\ req'[x].shape \in Shapes
                      /\ at'[x] \in {"idle", "signature"} => obs'[x].sig = Nothing
                      /\ at'[x] \in {"idle", "signature", "shape"} => obs'[x].shape = Nothing
    BY <1>1, Zenon DEF ObserverInv
  <2>1. /\ since[x] <= clock
        /\ at[x] # "idle" => req[x].sig \in Signatures /\ req[x].shape \in Shapes
        /\ at[x] \in {"idle", "signature"} => obs[x].sig = Nothing
        /\ at[x] \in {"idle", "signature", "shape"} => obs[x].shape = Nothing
    BY Zenon DEF IInv, ObserverInv
  <2>2. CASE x # o BY <1>9, <2>1, <2>2, Zenon
  <2>3. CASE x = o BY <1>4, <1>5, <1>9, <2>3
  <2> QED BY <2>2, <2>3, Zenon
<1> QED BY <1>1, <1>2, <1>10, <1>11, Zenon
        DEF IInv, SigInv, ShapeInv, GoneInv, LoggingBounded

LEMMA TickStep ==
  ASSUME IInv, Tick
  PROVE  IInv'
<1>1. /\ clock < MaxClock /\ clock' = clock + 1
      /\ at' = at /\ req' = req /\ since' = since /\ obs' = obs /\ observed' = observed
      /\ tables' = tables /\ history' = history
  BY Zenon DEF Tick
<1>2. /\ sigs' = sigs /\ sig' = sig /\ shapes' = shapes /\ shape' = shape
      /\ touched' = touched /\ sigAt' = sigAt /\ strongAt' = strongAt
      /\ events' = events /\ samples' = samples
  BY <1>1, Zenon DEF tables, history
<1>3. Types BY Zenon DEF IInv
<1>4. clock \in Ticks /\ clock \in Nat BY <1>3, Numbers DEF Types, Ticks
<1>5. clock' \in Ticks /\ clock <= clock' BY <1>1, <1>4, Numbers DEF Ticks
<1>6. \A t \in Ticks : t <= clock => t <= clock' BY <1>1, <1>4, Numbers DEF Ticks
<1>7. Types' BY <1>1, <1>2, <1>3, <1>5, Zenon DEF Types
<1>8. \A k \in Keys : touched'[k] <= clock'
  BY <1>2, <1>3, <1>6, Zenon DEF IInv, Types
<1>9. ObserverInv' BY <1>1, <1>3, <1>6, Zenon DEF IInv, Types, ObserverInv
<1>10. SigInv'
  <2>1. ASSUME NEW s \in sigs.keys
        PROVE  SigOK(sig[s], sigAt[s], events[s], clock')
    <3>1. s \in Signatures BY Zenon DEF IInv
    <3>2. events[s] \in Seq(Nat) BY <1>3, <3>1, Zenon DEF Types
    <3>3. SigOK(sig[s], sigAt[s], events[s], clock) BY Zenon DEF IInv, SigInv
    <3> QED BY <1>4, <1>5, <3>2, <3>3, LaterOK, Zenon
  <2> QED BY <1>2, <2>1, Zenon DEF IInv, SigInv
<1>11. ShapeInv'
  <2>1. ASSUME NEW p \in shapes.keys
        PROVE  ShapeOK(shape[p], strongAt[p], samples[p], clock')
    <3>1. ShapeOK(shape[p], strongAt[p], samples[p], clock) BY Zenon DEF IInv, ShapeInv
    <3> QED BY <1>4, <1>5, <3>1, LaterOK, Zenon
  <2> QED BY <1>2, <2>1, Zenon DEF IInv, ShapeInv
<1> QED BY <1>2, <1>7, <1>8, <1>9, <1>10, <1>11, Zenon DEF IInv, GoneInv, LoggingBounded

LEMMA NextInv ==
  ASSUME IInv, [Next]_vars
  PROVE  IInv'
<1>1. CASE \E o \in Observers : \E s \in Signatures, p \in Shapes, r \in Reasons :
             Observe(o, s, p, r)
  BY <1>1, ObserveStep, Zenon
<1>2. CASE \E o \in Observers : \E now \in Instants(o) : ObserveSignature(o, now)
  BY <1>2, SignatureStep, Zenon
<1>3. CASE \E o \in Observers : \E now \in Instants(o) : ObserveShape(o, now)
  BY <1>3, ShapeStep, Zenon
<1>4. CASE \E o \in Observers : Publish(o) BY <1>4, PublishStep, Zenon
<1>5. CASE Tick BY <1>5, TickStep, Zenon
<1>6. CASE UNCHANGED vars
  <2>1. /\ clock' = clock /\ at' = at /\ req' = req /\ since' = since /\ obs' = obs
        /\ observed' = observed /\ tables' = tables /\ history' = history
    BY <1>6, Zenon DEF vars
  <2>2. /\ sigs' = sigs /\ sig' = sig /\ shapes' = shapes /\ shape' = shape
        /\ touched' = touched /\ sigAt' = sigAt /\ strongAt' = strongAt
        /\ events' = events /\ samples' = samples
    BY <2>1, Zenon DEF tables, history
  <2> QED BY <2>1, <2>2, Zenon
          DEF IInv, Types, ObserverInv, SigInv, ShapeInv, GoneInv, LoggingBounded
<1> QED BY <1>1, <1>2, <1>3, <1>4, <1>5, <1>6, Zenon DEF Next

----------------------------------------------------------------------------
(* However many observers flood the detector, and whatever instants they   *)
(* bring into its locks, a signature has at most two events in a cooldown  *)
(* and a path shape two budgets of samples in a second, each shortened by  *)
(* no more than the delay between reading the clock and taking the lock.   *)
THEOREM LoggingBoundedHolds == Spec => []LoggingBounded
<1>1. Init => IInv BY InitInv, Zenon
<1>2. IInv /\ [Next]_vars => IInv' BY NextInv, Zenon
<1>3. IInv => LoggingBounded BY Zenon DEF IInv
<1> QED BY <1>1, <1>2, <1>3, PTL DEF Spec

(* ensure_window_capacity never makes room by dropping a window that was   *)
(* observed less than the idle time ago, the delay before the lock apart.  *)
THEOREM EvidenceKeptHolds == Spec => EvidenceKept
<1> DEFINE Gone == (sigs.keys \cup shapes.keys) \ (sigs'.keys \cup shapes'.keys)
           Kept == \A k \in Gone : clock - touched[k] >= IdleTicks - MaxDelay
<1>1. Init => IInv BY InitInv
<1>2. IInv /\ [Next]_vars => IInv' BY NextInv
<1>3. ASSUME IInv, Next
      PROVE  Kept
  <2>1. CASE \E o \in Observers : \E s \in Signatures, p \in Shapes, r \in Reasons :
               Observe(o, s, p, r)
    <3>1. sigs' = sigs /\ shapes' = shapes BY <2>1, Zenon DEF Observe, tables
    <3> QED BY <3>1, Zenon
  <2>2. ASSUME NEW o \in Observers, NEW now \in Instants(o), ObserveSignature(o, now)
        PROVE  Kept
    <3>1. UNCHANGED <<clock, req, called, shapes, shape, observed, strongAt, samples>>
      BY <2>2, Zenon DEF ObserveSignature
    <3>2. \A k \in Gone : k \in sigs.keys /\ k \notin sigs'.keys BY <3>1, Zenon
    <3> QED BY <1>3, <2>2, <3>2, SignatureEvicts, Zenon
  <2>3. ASSUME NEW o \in Observers, NEW now \in Instants(o), ObserveShape(o, now)
        PROVE  Kept
    <3>1. UNCHANGED <<clock, req, since, called, sigs, sig, observed, sigAt, events>>
      BY <2>3, Zenon DEF ObserveShape
    <3>2. \A k \in Gone : k \in shapes.keys /\ k \notin shapes'.keys BY <3>1, Zenon
    <3> QED BY <1>3, <2>3, <3>2, ShapeEvicts, Zenon
  <2>4. CASE \E o \in Observers : Publish(o)
    <3>1. sigs' = sigs /\ shapes' = shapes BY <2>4, Zenon DEF Publish, tables
    <3> QED BY <3>1
  <2>5. CASE Tick
    <3>1. sigs' = sigs /\ shapes' = shapes BY <2>5, Zenon DEF Tick, tables
    <3> QED BY <3>1
  <2> HIDE DEF Kept
  <2> QED BY <1>3, <2>1, <2>2, <2>3, <2>4, <2>5, Zenon DEF Next
<1>4. IInv /\ [Next]_vars => [Kept]_vars BY <1>3, Zenon
<1> QED BY <1>1, <1>2, <1>4, PTL DEF Spec, EvidenceKept

(* A filter is activated by floods only, and by every flood that comes at  *)
(* once, in whatever state the observations before left the window; a path *)
(* shape's filter is activated by denied requests alone.                   *)
THEOREM FloodsActivateHolds == Spec => FloodsActivate
<1> DEFINE Justified ==
             \A o \in Observers :
               LET s == req[o].sig
                   p == req[o].shape
               IN  /\ at[o] = "signature" /\ at'[o] # "signature" /\ Adds(sigAt, s) =>
                        /\ obs'[o].sig.activate => Flood(sigAt'[s], 0)
                        /\ Suddenly(sigAt'[s]) => obs'[o].sig.activate
                   /\ at[o] = "shape" /\ at'[o] # "shape" =>
                        /\ obs'[o].shape.activate =>
                             Adds(strongAt, p) /\ Flood(strongAt'[p], MaxDelay)
                        /\ Adds(strongAt, p) /\ Suddenly(strongAt'[p]) =>
                             obs'[o].shape.activate
<1>1. Init => IInv BY InitInv
<1>2. IInv /\ [Next]_vars => IInv' BY NextInv
<1>3. ASSUME IInv, Next
      PROVE  Justified
  <2>0. at \in [Observers -> {"idle", "signature", "shape", "publish"}]
    BY <1>3, Zenon DEF IInv, Types
  <2>1. ASSUME NEW o \in Observers, NEW s \in Signatures, NEW p \in Shapes,
               NEW r \in Reasons, Observe(o, s, p, r)
        PROVE  Justified
    <3>1. at[o] = "idle" /\ at' = [at EXCEPT ![o] = "signature"] BY <2>1, Zenon DEF Observe
    <3>2. \A x \in Observers : /\ at[x] = "signature" => at'[x] = "signature"
                               /\ at[x] = "shape" => at'[x] = "shape"
      BY <2>0, <3>1, Zenon
    <3> QED BY <3>2, Zenon
  <2>2. ASSUME NEW o \in Observers, NEW now \in Instants(o), ObserveSignature(o, now)
        PROVE  Justified
    <3>1. /\ at[o] = "signature"
          /\ at' = [at EXCEPT ![o] = IF TracksShape(req[o].reason) THEN "shape" ELSE "publish"]
      BY <2>2, Zenon DEF ObserveSignature
    <3>2. \A x \in Observers : x # o => at'[x] = at[x] BY <2>0, <3>1, Zenon
    <3>3. Adds(sigAt, req[o].sig) =>
            /\ obs'[o].sig.activate => Flood(sigAt'[req[o].sig], 0)
            /\ Suddenly(sigAt'[req[o].sig]) => obs'[o].sig.activate
      BY <1>3, <2>2, SignatureActivates, Zenon
    <3> QED BY <3>1, <3>2, <3>3, Zenon
  <2>3. ASSUME NEW o \in Observers, NEW now \in Instants(o), ObserveShape(o, now)
        PROVE  Justified
    <3>1. at[o] = "shape" /\ at' = [at EXCEPT ![o] = "publish"]
      BY <2>3, Zenon DEF ObserveShape
    <3>2. \A x \in Observers : x # o => at'[x] = at[x] BY <2>0, <3>1, Zenon
    <3>3. /\ obs'[o].shape.activate =>
               /\ Adds(strongAt, req[o].shape)
               /\ Flood(strongAt'[req[o].shape], MaxDelay)
          /\ Adds(strongAt, req[o].shape) /\ Suddenly(strongAt'[req[o].shape]) =>
               obs'[o].shape.activate
      BY <1>3, <2>3, ShapeActivates, Zenon
    <3> QED BY <3>1, <3>2, <3>3, Zenon
  <2>4. ASSUME NEW o \in Observers, Publish(o)
        PROVE  Justified
    <3>1. at[o] = "publish" /\ at' = [at EXCEPT ![o] = "idle"] BY <2>4, Zenon DEF Publish
    <3>2. \A x \in Observers : /\ at[x] = "signature" => at'[x] = "signature"
                               /\ at[x] = "shape" => at'[x] = "shape"
      BY <2>0, <3>1, Zenon
    <3> QED BY <3>2, Zenon
  <2>5. CASE Tick
    <3>1. at' = at BY <2>5, Zenon DEF Tick
    <3> QED BY <3>1, Zenon
  <2> HIDE DEF Justified
  <2> QED BY <1>3, <2>1, <2>2, <2>3, <2>4, <2>5, Zenon DEF Next
<1>4. IInv /\ [Next]_vars => [Justified]_vars BY <1>3, Zenon
<1> QED BY <1>1, <1>2, <1>4, PTL DEF Spec, FloodsActivate
=============================================================================

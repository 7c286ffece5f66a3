------------------------- MODULE RequestRateProofs -------------------------
(***************************************************************************)
(* For every set of requests and keys and every setting of the rates: the  *)
(* tokens taken from a bucket stay within its burst and the elapsed time,  *)
(* although the shard forgets buckets and makes them anew, whenever the    *)
(* idle time suffices to refill it (RequestRate).                          *)
(***************************************************************************)
EXTENDS RequestRate, LimiterCoreProofs

(* The instants a request's checks use are not older than MaxDelay.        *)
DelayInv ==
  \A r \in Requests : Checking(r) => since[r] <= clock /\ clock - since[r] <= MaxDelay

(* What a bucket holds and what was taken from it never exceed the burst   *)
(* and what it was refilled with.                                          *)
Funded(b, taken, rate, burst) == b.tokens + taken <= burst + rate * b.last

(* What was taken for a key that is not tracked was paid for MaxDelay ago, *)
(* so that even a late instant starts no bucket that is too full.          *)
Forgotten(taken, rate) == taken = 0 \/ taken <= rate * (clock - MaxDelay)

KeyInv ==
  \A d \in Dims, k \in Keys :
    IF k \in table[d].keys
    THEN /\ d \in Refilling => Funded(bucket[d][k], spent[d][k], Rate[d], Burst[d])
         /\ bucket[d][k].last <= clock
         /\ d = "sibling" => bucket[d][k].last <= lastSeen[k] + MaxDelay
    ELSE d \in Refilling => Forgotten(spent[d][k], Rate[d])

GlobalInv ==
  /\ Funded(globalBucket, globalSpent, GlobalRate, GlobalBurst)
  /\ globalBucket.last <= clock

IInv ==
  /\ TypeOK /\ DelayInv /\ KeyInv /\ GlobalInv
  /\ \A d \in Dims : OrderMatches(table[d])

----------------------------------------------------------------------------
(* Products of a rate and an instant.                                      *)
LEMMA RateMonotone ==
  ASSUME NEW rate \in Nat, NEW a \in Int, NEW b \in Int, a <= b
  PROVE  rate * a <= rate * b /\ rate * a \in Int /\ rate * b \in Int
<1>1. PICK c \in Nat : b = a + c
  <2>1. b - a \in Nat /\ b = a + (b - a) OBVIOUS
  <2> QED BY <2>1, Zenon
<1>2. rate * b = rate * a + rate * c /\ rate * c \in Nat BY <1>1
<1> QED BY <1>2

LEMMA RateSum ==
  ASSUME NEW rate \in Nat, NEW a \in Int, NEW b \in Int
  PROVE  rate * (a + b) = rate * a + rate * b
OBVIOUS

(* Refilling adds no more than the time since the last refill pays for.    *)
LEMMA RefillFunded ==
  ASSUME NEW rate \in Nat, NEW burst \in Nat, NEW b \in Bucket(burst),
         NEW now \in 0..MaxClock, NEW taken \in Nat,
         NEW r, r = Refill(b, rate, burst, now)
  PROVE  /\ r \in Bucket(burst)
         /\ r.last = IF now > b.last THEN now ELSE b.last
         /\ Funded(b, taken, rate, burst) => Funded(r, taken, rate, burst)
<1>1. /\ r \in Bucket(burst)
      /\ r.last = IF now > b.last THEN now ELSE b.last
      /\ r.tokens <= b.tokens + rate * r.last - rate * b.last
  BY RefillProperties
<1>2. /\ r.tokens \in Nat /\ r.last \in Nat /\ b.tokens \in Nat /\ b.last \in Nat
      /\ rate * r.last \in Nat /\ rate * b.last \in Nat
  BY <1>1, CoreAssumption DEF Bucket
<1>3. Funded(b, taken, rate, burst) => Funded(r, taken, rate, burst)
  BY <1>1, <1>2 DEF Funded
<1> QED BY <1>1, <1>3, Zenon

(* What the assumptions and the type invariant say of one dimension.       *)
LEMMA DimFacts ==
  ASSUME TypeOK, NEW d \in Dims
  PROVE  /\ Rate[d] \in Nat /\ Burst[d] \in Nat \ {0} /\ MaxDelay \in Nat
         /\ IdleTicks \in Nat /\ MaxClock \in Nat /\ clock \in Nat /\ clock <= MaxClock
         /\ table[d] \in LimiterShard
         /\ bucket[d] \in [Keys -> Bucket(Burst[d])]
         /\ spent[d] \in [Keys -> Nat]
         /\ \A k \in Keys : /\ bucket[d][k].tokens \in 0..Burst[d]
                            /\ bucket[d][k].last \in 0..MaxClock
                            /\ lastSeen[k] \in 0..MaxClock
BY RateAssumption, CoreAssumption DEF TypeOK, Bucket

(* An idle key had a full bucket again when it was forgotten.              *)
LEMMA EvictedPaid ==
  ASSUME IInv, NEW d \in Refilling, Rate[d] > 0, NEW k \in table[d].keys,
         NEW now \in 0..clock, k \in StaleKeys(d, now)
  PROVE  Forgotten(spent[d][k], Rate[d])
<1> DEFINE b == bucket[d][k]
<1>0. d \in Dims /\ k \in Keys
  <2>1. d \in Dims BY Zenon DEF Refilling
  <2> QED BY <2>1, DimFacts, Zenon DEF IInv, LimiterShard
<1>1. /\ Rate[d] \in Nat /\ Burst[d] \in Nat /\ MaxDelay \in Nat /\ IdleTicks \in Nat
      /\ clock \in Nat /\ now \in Nat /\ now <= clock
      /\ spent[d][k] \in Nat /\ b.tokens \in Nat /\ b.last \in Nat /\ lastSeen[k] \in Nat
  BY <1>0, DimFacts DEF IInv
<1>2. /\ b.tokens + spent[d][k] <= Burst[d] + Rate[d] * b.last
      /\ d = "sibling" => b.last <= lastSeen[k] + MaxDelay
  BY <1>0, Zenon DEF IInv, KeyInv, Funded
<1>3. IF d = "sibling" THEN now - lastSeen[k] >= IdleTicks ELSE now - b.last > IdleTicks
  BY <1>0, Zenon DEF StaleKeys, Stale
<1>4. Burst[d] <= Rate[d] * (IdleTicks - 2 * MaxDelay)
  BY Zenon DEF Refilling
<1> HIDE DEF b
<1>5. b.last + (IdleTicks - 2 * MaxDelay) <= clock - MaxDelay
  BY <1>1, <1>2, <1>3
<1>6. /\ Rate[d] * (b.last + (IdleTicks - 2 * MaxDelay)) <= Rate[d] * (clock - MaxDelay)
      /\ Rate[d] * (clock - MaxDelay) \in Int
  <2>1. b.last + (IdleTicks - 2 * MaxDelay) \in Int /\ clock - MaxDelay \in Int BY <1>1
  <2> QED BY <1>1, <1>5, <2>1, RateMonotone, Zenon
<1>7. Rate[d] * (b.last + (IdleTicks - 2 * MaxDelay))
        = Rate[d] * b.last + Rate[d] * (IdleTicks - 2 * MaxDelay)
  <2>1. IdleTicks - 2 * MaxDelay \in Int BY <1>1
  <2> QED BY <1>1, <2>1, RateSum
<1>8. Rate[d] * b.last \in Int /\ Rate[d] * (IdleTicks - 2 * MaxDelay) \in Int
  BY <1>1
<1>9. spent[d][k] <= Rate[d] * (clock - MaxDelay)
  BY <1>1, <1>2, <1>4, <1>6, <1>7, <1>8
<1> QED BY <1>9, Zenon DEF Forgotten

(* The shard after making room for a key.                                  *)
LEMMA RoomProperties ==
  ASSUME IInv, NEW d \in Dims, Rate[d] > 0, NEW k \in Keys, NEW now \in 0..clock,
         NEW sh, sh = Room(d, k, now)
  PROVE  /\ sh \in LimiterShard /\ OrderMatches(sh)
         /\ sh.keys \subseteq table[d].keys
         /\ k \in table[d].keys => k \in sh.keys
         /\ d \in Refilling => \A x \in table[d].keys \ sh.keys : Forgotten(spent[d][x], Rate[d])
<1>1. table[d] \in LimiterShard /\ OrderMatches(table[d])
  BY DimFacts, Zenon DEF IInv
<1>2. CASE k \in table[d].keys \/ HasRoom(table[d])
  BY <1>1, <1>2, Zenon DEF Room
<1>3. CASE ~(k \in table[d].keys \/ HasRoom(table[d]))
  <2>1. sh = EvictFirst(table[d], StaleKeys(d, now)) BY <1>3, Zenon DEF Room
  <2>2. /\ sh \in LimiterShard /\ OrderMatches(sh)
        /\ sh.keys \subseteq table[d].keys
        /\ table[d].keys \ sh.keys \subseteq StaleKeys(d, now)
    BY <1>1, <2>1, EvictFirstProperties, Zenon
  <2> QED BY <1>3, <2>2, EvictedPaid, Zenon
<1> QED BY <1>2, <1>3, Zenon

LEMMA TrackedProperties ==
  ASSUME NEW sh \in LimiterShard, OrderMatches(sh), NEW k \in Keys, Fits(sh, k),
         NEW e, e = Tracked(sh, k)
  PROVE  e \in LimiterShard /\ OrderMatches(e) /\ e.keys = sh.keys \cup {k}
<1>1. CASE k \in sh.keys BY <1>1, Zenon DEF Tracked
<1>2. CASE k \notin sh.keys
  BY <1>2, InsertProperties, Zenon DEF Tracked, Fits, Insert
<1> QED BY <1>1, <1>2, Zenon

(* The bucket a check looks at, old or new, has what it was paid for.      *)
LEMMA RefilledProperties ==
  ASSUME IInv, NEW d \in Dims, NEW k \in Keys, NEW now \in 0..clock, clock - now <= MaxDelay,
         NEW b, b = Refilled(d, k, now)
  PROVE  /\ b \in Bucket(Burst[d])
         /\ b.last <= clock /\ b.last <= now + MaxDelay
         /\ d \in Refilling => Funded(b, spent[d][k], Rate[d], Burst[d])
<1>1. /\ Rate[d] \in Nat /\ Burst[d] \in Nat /\ MaxDelay \in Nat /\ MaxClock \in Nat
      /\ clock \in Nat /\ clock <= MaxClock /\ now \in Nat /\ now <= clock /\ now \in 0..MaxClock
      /\ spent[d][k] \in Nat
  BY DimFacts DEF IInv
<1>2. CASE k \in table[d].keys
  <2> DEFINE old == bucket[d][k]
  <2>1. old \in Bucket(Burst[d]) /\ b = Refill(old, Rate[d], Burst[d], now)
    BY <1>2, DimFacts, Zenon DEF IInv, Refilled
  <2>2. /\ d \in Refilling => Funded(old, spent[d][k], Rate[d], Burst[d])
        /\ old.last <= clock
    BY <1>2, Zenon DEF IInv, KeyInv
  <2> HIDE DEF old
  <2>3. /\ b \in Bucket(Burst[d])
        /\ b.last = IF now > old.last THEN now ELSE old.last
        /\ Funded(old, spent[d][k], Rate[d], Burst[d])
             => Funded(b, spent[d][k], Rate[d], Burst[d])
    BY <1>1, <2>1, RefillFunded, Zenon
  <2>4. b.last \in Nat /\ old.last \in Nat
    BY <1>1, <2>1, <2>3 DEF Bucket
  <2>5. d \in Refilling => Funded(b, spent[d][k], Rate[d], Burst[d])
    BY <2>2, <2>3, Zenon
  <2>6. b.last <= clock /\ b.last <= now + MaxDelay
    BY <1>1, <2>2, <2>3, <2>4
  <2> QED BY <2>3, <2>5, <2>6, Zenon
<1>3. CASE k \notin table[d].keys
  <2>1. b = FullBucket(Burst[d], now)
    BY <1>1, <1>3 DEF Refilled, Refill, FullBucket
  <2>2. b.tokens = Burst[d] /\ b.last = now /\ b \in Bucket(Burst[d])
    BY <1>1, <2>1 DEF FullBucket, Bucket
  <2>3. d \in Refilling => spent[d][k] = 0 \/ spent[d][k] <= Rate[d] * (clock - MaxDelay)
    BY <1>3, Zenon DEF IInv, KeyInv, Forgotten
  <2>4. /\ Rate[d] * (clock - MaxDelay) <= Rate[d] * now
        /\ Rate[d] * (clock - MaxDelay) \in Int /\ Rate[d] * now \in Nat
    <3>1. clock - MaxDelay \in Int /\ clock - MaxDelay <= now BY <1>1
    <3> QED BY <1>1, <3>1, RateMonotone
  <2>5. d \in Refilling => Funded(b, spent[d][k], Rate[d], Burst[d])
    BY <1>1, <2>2, <2>3, <2>4 DEF Funded
  <2> QED BY <1>1, <2>2, <2>5
<1> QED BY <1>2, <1>3, Zenon

(* What a check leaves of the keyed limiters.                              *)
TablesOK ==
  /\ table \in [Dims -> LimiterShard]
  /\ bucket \in [Dims -> [Keys -> [tokens : Nat, last : Nat]]]
  /\ \A d \in Dims : bucket[d] \in [Keys -> Bucket(Burst[d])]
  /\ spent \in [Dims -> [Keys -> Nat]]
  /\ \A d \in Dims : OrderMatches(table[d])
  /\ KeyInv

(* A check that finds no room, or leaves its key untracked.                *)
LEMMA KeyForgets ==
  ASSUME IInv, NEW d \in Dims, Rate[d] > 0, NEW k \in Keys, NEW now \in 0..clock,
         table' = [table EXCEPT ![d] = Room(d, k, now)],
         UNCHANGED <<clock, bucket, lastSeen, spent>>
  PROVE  TablesOK'
<1> DEFINE sh == Room(d, k, now)
<1>1. /\ sh \in LimiterShard /\ OrderMatches(sh)
      /\ sh.keys \subseteq table[d].keys
      /\ d \in Refilling => \A x \in table[d].keys \ sh.keys : Forgotten(spent[d][x], Rate[d])
  BY RoomProperties, Zenon
<1> HIDE DEF sh
<1>2. /\ table \in [Dims -> LimiterShard] /\ table'[d] = sh
      /\ \A e \in Dims \ {d} : table'[e] = table[e]
  BY Zenon DEF IInv, TypeOK, sh
<1>3. table' \in [Dims -> LimiterShard] /\ \A e \in Dims : OrderMatches(table'[e])
  BY <1>1, <1>2, Zenon DEF IInv, sh
<1>4. KeyInv'
  <2> SUFFICES ASSUME NEW e \in Dims, NEW x \in Keys
      PROVE  (IF x \in table[e].keys
              THEN /\ e \in Refilling => Funded(bucket[e][x], spent[e][x], Rate[e], Burst[e])
                   /\ bucket[e][x].last <= clock
                   /\ e = "sibling" => bucket[e][x].last <= lastSeen[x] + MaxDelay
              ELSE e \in Refilling => Forgotten(spent[e][x], Rate[e]))'
    BY Zenon DEF KeyInv
  <2>1. Forgotten(spent[e][x], Rate[e])' <=> Forgotten(spent[e][x], Rate[e])
    BY Zenon DEF Forgotten
  <2>2. Funded(bucket[e][x], spent[e][x], Rate[e], Burst[e])'
          <=> Funded(bucket[e][x], spent[e][x], Rate[e], Burst[e])
    BY Zenon DEF Funded
  <2>3. x \in table'[e].keys => x \in table[e].keys
    BY <1>1, <1>2, Zenon
  <2>4. e \in Refilling /\ x \in table[e].keys /\ x \notin table'[e].keys
          => Forgotten(spent[e][x], Rate[e])
    BY <1>1, <1>2, Zenon
  <2> QED BY <2>1, <2>2, <2>3, <2>4, Zenon DEF IInv, KeyInv
<1> QED BY <1>3, <1>4, Zenon DEF TablesOK, IInv, TypeOK

(* A check that leaves its key tracked, with a token taken or without.     *)
LEMMA KeyCharges ==
  ASSUME IInv, NEW d \in Dims, Rate[d] > 0, NEW k \in Keys,
         NEW now \in 0..clock, clock - now <= MaxDelay,
         NEW sh, sh = Room(d, k, now), Fits(sh, k),
         NEW b, b = Refilled(d, k, now),
         table' = [table EXCEPT ![d] = Tracked(sh, k)],
         \/ bucket' = [bucket EXCEPT ![d][k] = b] /\ spent' = spent
         \/ /\ b.tokens >= 1
            /\ bucket' = [bucket EXCEPT ![d][k] = Consume(b)]
            /\ spent' = [spent EXCEPT ![d][k] = @ + 1],
         IF d = "sibling" THEN lastSeen' = [lastSeen EXCEPT ![k] = now] ELSE lastSeen' = lastSeen,
         UNCHANGED clock
  PROVE  TablesOK'
<1> DEFINE e == Tracked(sh, k)
<1>0. /\ Rate[d] \in Nat /\ Burst[d] \in Nat /\ MaxDelay \in Nat /\ MaxClock \in Nat
      /\ now \in Nat /\ clock \in Nat
      /\ table \in [Dims -> LimiterShard]
      /\ bucket \in [Dims -> [Keys -> [tokens : Nat, last : Nat]]]
      /\ \A x \in Dims : bucket[x] \in [Keys -> Bucket(Burst[x])]
      /\ spent \in [Dims -> [Keys -> Nat]]
      /\ lastSeen \in [Keys -> 0..MaxClock]
  <2>1. TypeOK BY Zenon DEF IInv
  <2>2. now \in Nat BY <2>1, DimFacts
  <2> QED BY <2>1, <2>2, DimFacts, Zenon DEF TypeOK
<1>1. /\ sh \in LimiterShard /\ OrderMatches(sh)
      /\ sh.keys \subseteq table[d].keys
      /\ d \in Refilling => \A x \in table[d].keys \ sh.keys : Forgotten(spent[d][x], Rate[d])
      /\ k \in table[d].keys => k \in sh.keys
  BY RoomProperties, Zenon
<1>2. e \in LimiterShard /\ OrderMatches(e) /\ e.keys = sh.keys \cup {k}
  BY <1>1, TrackedProperties, Zenon
<1> HIDE DEF e
<1>3. /\ table' = [table EXCEPT ![d] = e] /\ table'[d] = e
      /\ \A x \in Dims \ {d} : table'[x] = table[x]
  BY <1>0, Zenon DEF e
<1>4. table' \in [Dims -> LimiterShard] /\ \A x \in Dims : OrderMatches(table'[x])
  BY <1>0, <1>2, <1>3, Zenon DEF IInv
<1>5. /\ b \in Bucket(Burst[d])
      /\ b.last <= clock /\ b.last <= now + MaxDelay
      /\ d \in Refilling => b.tokens + spent[d][k] <= Burst[d] + Rate[d] * b.last
      /\ b.tokens \in 0..Burst[d] /\ b.last \in 0..MaxClock
  BY RefilledProperties DEF Funded, Bucket
<1>6. PICK c : /\ c \in Bucket(Burst[d]) /\ c.last = b.last
               /\ bucket' = [bucket EXCEPT ![d][k] = c]
               /\ d \in Refilling => c.tokens + spent'[d][k] <= Burst[d] + Rate[d] * c.last
               /\ spent' \in [Dims -> [Keys -> Nat]]
               /\ \A x \in Dims, y \in Keys : x # d \/ y # k => spent'[x][y] = spent[x][y]
  <2>1. Rate[d] * b.last \in Nat /\ spent[d][k] \in Nat BY <1>0, <1>5
  <2>2. CASE bucket' = [bucket EXCEPT ![d][k] = b] /\ spent' = spent
    BY <1>0, <1>5, <2>2, Zenon
  <2>3. CASE /\ b.tokens >= 1
             /\ bucket' = [bucket EXCEPT ![d][k] = Consume(b)]
             /\ spent' = [spent EXCEPT ![d][k] = @ + 1]
    <3>1. /\ Consume(b) \in Bucket(Burst[d]) /\ Consume(b).last = b.last
          /\ Consume(b).tokens = b.tokens - 1
      <4>1. b = [tokens |-> b.tokens, last |-> b.last] BY <1>5, Zenon DEF Bucket
      <4>2. Consume(b) = [tokens |-> b.tokens - 1, last |-> b.last] BY <4>1 DEF Consume
      <4> QED BY <1>0, <1>5, <2>3, <4>2 DEF Bucket
    <3>2. /\ spent'[d][k] = spent[d][k] + 1 /\ spent' \in [Dims -> [Keys -> Nat]]
          /\ \A x \in Dims, y \in Keys : x # d \/ y # k => spent'[x][y] = spent[x][y]
      BY <1>0, <2>3
    <3>3. d \in Refilling =>
            Consume(b).tokens + spent'[d][k] <= Burst[d] + Rate[d] * Consume(b).last
      BY <1>0, <1>5, <2>1, <3>1, <3>2
    <3> QED BY <2>3, <3>1, <3>2, <3>3, Zenon
  <2> QED BY <2>2, <2>3, Zenon
<1>7. /\ bucket' \in [Dims -> [Keys -> [tokens : Nat, last : Nat]]]
      /\ \A x \in Dims : bucket'[x] \in [Keys -> Bucket(Burst[x])]
      /\ bucket'[d][k] = c
      /\ \A x \in Dims, y \in Keys : x # d \/ y # k => bucket'[x][y] = bucket[x][y]
  <2>1. c \in [tokens : Nat, last : Nat] BY <1>0, <1>6 DEF Bucket
  <2> QED BY <1>0, <1>6, <2>1
<1>8. KeyInv'
  <2> SUFFICES ASSUME NEW x \in Dims, NEW y \in Keys
      PROVE  (IF y \in table[x].keys
              THEN /\ x \in Refilling => Funded(bucket[x][y], spent[x][y], Rate[x], Burst[x])
                   /\ bucket[x][y].last <= clock
                   /\ x = "sibling" => bucket[x][y].last <= lastSeen[y] + MaxDelay
              ELSE x \in Refilling => Forgotten(spent[x][y], Rate[x]))'
    BY Zenon DEF KeyInv
  <2>1. CASE x = d /\ y = k
    <3>1. y \in table'[x].keys BY <1>2, <1>3, <2>1, Zenon
    <3>2. x \in Refilling => Funded(bucket'[x][y], spent'[x][y], Rate[x], Burst[x])
      BY <1>6, <1>7, <2>1, Zenon DEF Funded
    <3>3. bucket'[x][y].last <= clock' BY <1>5, <1>6, <1>7, <2>1, Zenon
    <3>4. x = "sibling" => bucket'[x][y].last <= lastSeen'[y] + MaxDelay
      BY <1>0, <1>5, <1>6, <1>7, <2>1
    <3> QED BY <3>1, <3>2, <3>3, <3>4, Zenon
  <2>2. CASE x # d \/ y # k
    <3>1. /\ bucket'[x][y] = bucket[x][y] /\ spent'[x][y] = spent[x][y]
          /\ x = "sibling" => lastSeen'[y] = lastSeen[y]
      BY <1>0, <1>6, <1>7, <2>2
    <3>2. y \in table'[x].keys => y \in table[x].keys
      BY <1>1, <1>2, <1>3, <2>2, Zenon
    <3>3. x \in Refilling /\ y \in table[x].keys /\ y \notin table'[x].keys
            => Forgotten(spent[x][y], Rate[x])
      BY <1>1, <1>2, <1>3, <2>2, Zenon
    <3>4. Forgotten(spent[x][y], Rate[x])' <=> Forgotten(spent[x][y], Rate[x])
      BY <3>1, Zenon DEF Forgotten
    <3>5. Funded(bucket[x][y], spent[x][y], Rate[x], Burst[x])'
            <=> Funded(bucket[x][y], spent[x][y], Rate[x], Burst[x])
      BY <3>1, Zenon DEF Funded
    <3> QED BY <3>1, <3>2, <3>3, <3>4, <3>5, Zenon DEF IInv, KeyInv
  <2> QED BY <2>1, <2>2, Zenon
<1> QED BY <1>4, <1>6, <1>7, <1>8, Zenon DEF TablesOK

(* The global bucket, refilled and perhaps charged.                        *)
LEMMA GlobalRefills ==
  ASSUME IInv, NEW now \in 0..clock, NEW g, g = GlobalRefilled(now)
  PROVE  /\ g \in Bucket(GlobalBurst)
         /\ g.last <= clock
         /\ Funded(g, globalSpent, GlobalRate, GlobalBurst)
         /\ g.tokens >= 1 =>
              /\ Consume(g) \in Bucket(GlobalBurst)
              /\ Consume(g).last <= clock
              /\ Funded(Consume(g), globalSpent + 1, GlobalRate, GlobalBurst)
<1> DEFINE old == globalBucket
<1>1. /\ GlobalRate \in Nat /\ GlobalBurst \in Nat /\ MaxClock \in Nat /\ clock \in Nat
      /\ clock <= MaxClock /\ now \in Nat /\ now <= clock /\ now \in 0..MaxClock
      /\ globalSpent \in Nat /\ old \in Bucket(GlobalBurst)
      /\ g = Refill(old, GlobalRate, GlobalBurst, now)
  BY RateAssumption, CoreAssumption DEF IInv, TypeOK, GlobalRefilled
<1>2. Funded(old, globalSpent, GlobalRate, GlobalBurst) /\ old.last <= clock
  BY Zenon DEF IInv, GlobalInv
<1> HIDE DEF old
<1>3. /\ g \in Bucket(GlobalBurst)
      /\ g.last = IF now > old.last THEN now ELSE old.last
      /\ Funded(g, globalSpent, GlobalRate, GlobalBurst)
  BY <1>1, <1>2, RefillFunded, SMTT(30)
<1>4. /\ g.tokens \in 0..GlobalBurst /\ g.last \in 0..MaxClock
      /\ old.last \in Nat /\ GlobalRate * g.last \in Nat
      /\ g = [tokens |-> g.tokens, last |-> g.last]
  BY <1>1, <1>3 DEF Bucket
<1>5. g.last <= clock BY <1>1, <1>2, <1>3, <1>4, Zenon
<1>6. g.tokens + globalSpent <= GlobalBurst + GlobalRate * g.last
  BY <1>3, Zenon DEF Funded
<1>7. ASSUME g.tokens >= 1
      PROVE  /\ Consume(g) \in Bucket(GlobalBurst)
             /\ Consume(g).last <= clock
             /\ Funded(Consume(g), globalSpent + 1, GlobalRate, GlobalBurst)
  <2>1. Consume(g) = [tokens |-> g.tokens - 1, last |-> g.last]
    BY <1>4 DEF Consume
  <2>2. g.tokens - 1 \in 0..GlobalBurst BY <1>1, <1>4, <1>7
  <2> QED BY <1>1, <1>4, <1>5, <1>6, <2>1, <2>2 DEF Bucket, Funded
<1> QED BY <1>3, <1>5, <1>6, <1>7, Zenon DEF Funded

(* What a check leaves of everything but the keyed limiters.               *)
RestOK ==
  /\ clock \in 0..MaxClock /\ arrivals \in 0..MaxArrivals
  /\ kind \in [Requests -> Kinds]
  /\ lastSeen \in [Keys -> 0..MaxClock] /\ siblings \in [Keys -> Seq(Tokens)]
  /\ globalBucket \in Bucket(GlobalBurst) /\ globalSpent \in Nat
  /\ paid \in [Requests -> SUBSET (Dims \cup {"global"})]
  /\ GlobalInv

FlowOK ==
  /\ pc \in [Requests -> Dims \cup {"idle", "admit", "admitted", "denied"}]
  /\ since \in [Requests -> 0..MaxClock]
  /\ DelayInv

LEMMA Parts == IInv <=> TablesOK /\ RestOK /\ FlowOK
  BY Zenon DEF IInv, TypeOK, TablesOK, RestOK, FlowOK

LEMMA PartsPrimed == IInv' <=> TablesOK' /\ RestOK' /\ FlowOK'
  BY Zenon DEF IInv, TypeOK, TablesOK, RestOK, FlowOK

(* The request is passed on or denied.                                     *)
LEMMA FlowStep ==
  ASSUME FlowOK, NEW r \in Requests, Checking(r), UNCHANGED clock,
         clock \in 0..MaxClock,
         Deny(r) \/ \E d \in Dims : Pass(r, d)
  PROVE  FlowOK'
<1> USE CoreAssumption DEF FlowOK
<1>1. CASE Deny(r)
  BY <1>1 DEF Deny, DelayInv, Checking
<1>2. ASSUME NEW d \in Dims, Pass(r, d) PROVE FlowOK'
  <2>1. After(d) \in Dims \cup {"admitted"}
    BY Zenon DEF After, Dims
  <2>2. \A q \in Requests : q # r => pc'[q] = pc[q] /\ since'[q] = since[q]
    BY <1>2, Zenon DEF Pass
  <2>3. /\ pc'[r] = After(d) /\ since'[r] = IF After(d) = "admitted" THEN 0 ELSE since[r]
    BY <1>2, Zenon DEF Pass
  <2>4. /\ pc' \in [Requests -> Dims \cup {"idle", "admit", "admitted", "denied"}]
        /\ since' \in [Requests -> 0..MaxClock]
    BY <1>2, <2>1 DEF Pass
  <2>5. DelayInv' BY <2>2, <2>3, Zenon DEF DelayInv, Checking
  <2> QED BY <2>4, <2>5, Zenon
<1> QED BY <1>1, <1>2, Zenon

----------------------------------------------------------------------------
LEMMA InitInv == Init => IInv
<1> SUFFICES ASSUME Init PROVE IInv
  BY Zenon
<1>0. /\ MaxClock \in Nat /\ MaxArrivals \in Nat /\ MaxDelay \in Nat
      /\ Rate \in [Dims -> Nat] /\ Burst \in [Dims -> Nat \ {0}]
      /\ GlobalRate \in Nat /\ GlobalBurst \in Nat \ {0} /\ Kinds # {}
  BY RateAssumption, CoreAssumption, Zenon
<1>1. FullBucket(GlobalBurst, 0) \in Bucket(GlobalBurst)
      /\ \A d \in Dims : /\ FullBucket(Burst[d], 0) \in Bucket(Burst[d])
                         /\ FullBucket(Burst[d], 0) \in [tokens : Nat, last : Nat]
  BY <1>0 DEF FullBucket, Bucket
<1>2. TablesOK
  <2>1. bucket \in [Dims -> [Keys -> [tokens : Nat, last : Nat]]]
        /\ \A d \in Dims : bucket[d] \in [Keys -> Bucket(Burst[d])]
    BY <1>1, Zenon DEF Init
  <2>2. table \in [Dims -> LimiterShard] /\ \A d \in Dims : table[d].keys = {}
    BY DEF Init, LimiterShard
  <2>3. \A d \in Dims : OrderMatches(table[d])
    BY DEF Init, OrderMatches, KeysIn, Distinct
  <2>4. spent \in [Dims -> [Keys -> Nat]] /\ \A d \in Dims, k \in Keys : spent[d][k] = 0
    BY Zenon DEF Init
  <2>5. KeyInv BY <2>2, <2>4, Zenon DEF KeyInv, Forgotten
  <2> QED BY <2>1, <2>2, <2>3, <2>4, <2>5, Zenon DEF TablesOK
<1>3. RestOK
  <2>1. kind \in [Requests -> Kinds] BY <1>0, Zenon DEF Init
  <2>2. GlobalInv
    <3>1. globalBucket = [tokens |-> GlobalBurst, last |-> 0] /\ globalSpent = 0 /\ clock = 0
      BY Zenon DEF Init, FullBucket
    <3> QED BY <1>0, <3>1, SMTT(30) DEF GlobalInv, Funded
  <2> QED BY <1>0, <1>1, <2>1, <2>2 DEF Init, RestOK
<1>4. FlowOK
  BY <1>0 DEF Init, FlowOK, DelayInv, Checking
<1> QED BY <1>2, <1>3, <1>4, Parts, Zenon

(* The clock and the keyed tables are left alone.                          *)
LEMMA TablesKept ==
  ASSUME TablesOK, UNCHANGED <<clock, table, bucket, lastSeen, spent>>
  PROVE  TablesOK'
<1>1. KeyInv' BY Zenon DEF TablesOK, KeyInv, Funded, Forgotten
<1> QED BY <1>1, Zenon DEF TablesOK

LEMMA KeyCheckInv ==
  ASSUME IInv, NEW r \in Requests, NEW d \in {"signature", "path_shape", "proxy"}, KeyCheck(r, d)
  PROVE  IInv'
<1> DEFINE k == KeyOf[kind[r]][d]
<1>0. TablesOK /\ RestOK /\ FlowOK BY Parts, Zenon
<1>1. /\ d \in Dims /\ d # "sibling" /\ Checking(r) /\ pc[r] = d
      /\ clock \in 0..MaxClock /\ kind[r] \in Kinds /\ k \in Keys \cup {NoKey}
  <2>1. d \in Dims /\ d # "sibling" /\ pc[r] = d /\ Checking(r)
    BY Zenon DEF KeyCheck, Dims, Checking
  <2>2. clock \in 0..MaxClock /\ kind[r] \in Kinds BY <1>0, Zenon DEF RestOK
  <2> QED BY <2>1, <2>2, RateAssumption, Zenon
<1>2. UNCHANGED <<clock, arrivals, kind, lastSeen, siblings, globalBucket, globalSpent>>
  BY Zenon DEF KeyCheck
<1>3. Pass(r, d) \/ Deny(r) BY Zenon DEF KeyCheck
<1>4. FlowOK' BY <1>0, <1>1, <1>2, <1>3, FlowStep, Zenon
<1>5. paid' \in [Requests -> SUBSET (Dims \cup {"global"})]
  <2>1. paid' = paid \/ paid' = [paid EXCEPT ![r] = @ \cup {d}]
    BY Zenon DEF KeyCheck, Spend
  <2>2. paid \in [Requests -> SUBSET (Dims \cup {"global"})] BY <1>0, Zenon DEF RestOK
  <2>3. paid[r] \cup {d} \in SUBSET (Dims \cup {"global"}) BY <1>1, <2>2, Zenon
  <2> QED BY <2>1, <2>2, <2>3, SMTT(30)
<1>6. RestOK' BY <1>0, <1>2, <1>5, Zenon DEF RestOK, GlobalInv, Funded
<1>7. TablesOK'
  <2>1. CASE UNCHANGED <<table, bucket, spent>>
    BY <1>0, <1>2, <2>1, TablesKept, Zenon
  <2>2. CASE Rate[d] > 0 /\ k # NoKey
    <3>1. PICK now \in since[r]..clock :
            \/ /\ table' = [table EXCEPT ![d] = Room(d, k, now)]
               /\ UNCHANGED <<bucket, spent>>
            \/ /\ Fits(Room(d, k, now), k)
               /\ table' = [table EXCEPT ![d] = Tracked(Room(d, k, now), k)]
               /\ \/ bucket' = [bucket EXCEPT ![d][k] = Refilled(d, k, now)] /\ spent' = spent
                  \/ /\ Refilled(d, k, now).tokens >= 1
                     /\ bucket' = [bucket EXCEPT ![d][k] = Consume(Refilled(d, k, now))]
                     /\ spent' = [spent EXCEPT ![d][k] = @ + 1]
      <4>1. Rate[d] # 0 BY <2>2
      <4> QED BY <2>2, <4>1, ZenonT(30) DEF KeyCheck, Spend
    <3>2. now \in 0..clock /\ clock - now <= MaxDelay /\ k \in Keys
      BY <1>0, <1>1, <2>2, RateAssumption DEF FlowOK, DelayInv
    <3> HIDE DEF k
    <3> QED BY <1>1, <1>2, <2>2, <3>1, <3>2, KeyForgets, KeyCharges
  <2> QED BY <2>1, <2>2, Zenon DEF KeyCheck
<1> QED BY <1>4, <1>6, <1>7, PartsPrimed, Zenon

LEMMA RememberType ==
  ASSUME NEW q \in Seq(Tokens), NEW token \in Tokens
  PROVE  Remember(q, token) \in Seq(Tokens)
<1>1. Append(q, token) \in Seq(Tokens) /\ Append(q, token) # << >>
  <2>1. Append(q, token) \in Seq(Tokens) OBVIOUS
  <2>2. Len(Append(q, token)) = Len(q) + 1 /\ Len(q) \in Nat /\ Len(<< >>) = 0 OBVIOUS
  <2> QED BY <2>1, <2>2
<1>2. Tail(Append(q, token)) \in Seq(Tokens)
  BY <1>1
<1> QED BY <1>1, <1>2, Zenon DEF Remember

LEMMA SiblingCheckInv ==
  ASSUME IInv, NEW r \in Requests, SiblingCheck(r)
  PROVE  IInv'
<1> DEFINE d == "sibling"
           k == KeyOf[kind[r]][d]
<1>0. TablesOK /\ RestOK /\ FlowOK BY Parts, Zenon
<1>1. /\ d \in Dims /\ Checking(r) /\ pc[r] = d
      /\ clock \in 0..MaxClock /\ kind[r] \in Kinds /\ k \in Keys \cup {NoKey}
      /\ TokenOf[kind[r]] \in Tokens
  <2>1. d \in Dims /\ pc[r] = d /\ Checking(r)
    BY Zenon DEF SiblingCheck, Dims, Checking
  <2>2. clock \in 0..MaxClock /\ kind[r] \in Kinds BY <1>0, Zenon DEF RestOK
  <2> QED BY <2>1, <2>2, RateAssumption, Zenon
<1>2. UNCHANGED <<clock, arrivals, kind, globalBucket, globalSpent>>
  BY Zenon DEF SiblingCheck
<1>3. Pass(r, d) \/ Deny(r) BY Zenon DEF SiblingCheck
<1>4. FlowOK' BY <1>0, <1>1, <1>2, <1>3, FlowStep, Zenon
<1>5. paid' \in [Requests -> SUBSET (Dims \cup {"global"})]
  <2>1. paid' = paid \/ paid' = [paid EXCEPT ![r] = @ \cup {d}]
    BY Zenon DEF SiblingCheck, Spend
  <2> QED BY <1>0, <1>1, <2>1 DEF RestOK
<1>6. CASE UNCHANGED <<table, bucket, lastSeen, siblings, spent>>
  <2>1. TablesOK' BY <1>0, <1>2, <1>6, TablesKept, Zenon
  <2>2. RestOK' BY <1>0, <1>2, <1>5, <1>6, Zenon DEF RestOK, GlobalInv, Funded
  <2> QED BY <1>4, <2>1, <2>2, PartsPrimed, Zenon
<1>7. CASE Rate[d] > 0 /\ k # NoKey
  <2>1. PICK now \in since[r]..clock :
          \/ /\ table' = [table EXCEPT ![d] = Room(d, k, now)]
             /\ UNCHANGED <<bucket, lastSeen, siblings, spent>>
          \/ /\ Fits(Room(d, k, now), k)
             /\ table' = [table EXCEPT ![d] = Tracked(Room(d, k, now), k)]
             /\ lastSeen' = [lastSeen EXCEPT ![k] = now]
             /\ siblings' = [siblings EXCEPT ![k] =
                  Remember(IF k \in table[d].keys THEN siblings[k] ELSE << >>, TokenOf[kind[r]])]
             /\ \/ bucket' = [bucket EXCEPT ![d][k] = Refilled(d, k, now)] /\ spent' = spent
                \/ /\ Refilled(d, k, now).tokens >= 1
                   /\ bucket' = [bucket EXCEPT ![d][k] = Consume(Refilled(d, k, now))]
                   /\ spent' = [spent EXCEPT ![d][k] = @ + 1]
    <3>1. Rate[d] # 0 BY <1>7
    <3> QED BY <1>7, <3>1, ZenonT(30) DEF SiblingCheck, Spend
  <2>2. now \in 0..clock /\ clock - now <= MaxDelay /\ k \in Keys /\ now \in 0..MaxClock
    BY <1>0, <1>1, <1>7, RateAssumption, CoreAssumption DEF FlowOK, DelayInv
  <2>3. TablesOK'
    <3> HIDE DEF k
    <3>1. CASE UNCHANGED <<bucket, lastSeen, siblings, spent>>
               /\ table' = [table EXCEPT ![d] = Room(d, k, now)]
      BY <1>1, <1>2, <1>7, <2>2, <3>1, KeyForgets, Zenon
    <3> QED BY <1>1, <1>2, <1>7, <2>1, <2>2, <3>1, KeyCharges, SMTT(30)
  <2>4. lastSeen' \in [Keys -> 0..MaxClock] /\ siblings' \in [Keys -> Seq(Tokens)]
    <3>1. Remember(IF k \in table[d].keys THEN siblings[k] ELSE << >>, TokenOf[kind[r]])
            \in Seq(Tokens)
      <4>1. (IF k \in table[d].keys THEN siblings[k] ELSE << >>) \in Seq(Tokens)
        BY <1>0, <2>2 DEF RestOK
      <4> QED BY <1>1, <4>1, RememberType, Zenon
    <3>2. lastSeen \in [Keys -> 0..MaxClock] /\ siblings \in [Keys -> Seq(Tokens)]
      BY <1>0, Zenon DEF RestOK
    <3>3. \/ lastSeen' = lastSeen /\ siblings' = siblings
          \/ /\ lastSeen' = [lastSeen EXCEPT ![k] = now]
             /\ siblings' = [siblings EXCEPT ![k] = Remember(
                  IF k \in table[d].keys THEN siblings[k] ELSE << >>, TokenOf[kind[r]])]
      BY <2>1, Zenon
    <3> QED BY <2>2, <3>1, <3>2, <3>3
  <2>5. RestOK' BY <1>0, <1>2, <1>5, <2>4, Zenon DEF RestOK, GlobalInv, Funded
  <2> QED BY <1>4, <2>3, <2>5, PartsPrimed, Zenon
<1> QED BY <1>6, <1>7, Zenon DEF SiblingCheck

LEMMA ProbeInv ==
  ASSUME IInv, NEW r \in Requests, Probe(r)
  PROVE  IInv'
<1>0. TablesOK /\ RestOK /\ FlowOK BY Parts
<1>1. PICK now \in since[r]..clock :
        /\ globalBucket' = IF GlobalRate > 0 THEN GlobalRefilled(now) ELSE globalBucket
        /\ \/ Deny(r)
           \/ pc' = [pc EXCEPT ![r] = "admit"] /\ since' = [since EXCEPT ![r] = now]
  BY Zenon DEF Probe
<1>2. /\ UNCHANGED <<clock, arrivals, kind, table, bucket, lastSeen, siblings, paid, spent,
                     globalSpent>>
      /\ Checking(r) /\ clock \in 0..MaxClock
  BY <1>0, Zenon DEF Probe, Checking, RestOK
<1>3. now \in 0..clock /\ now \in 0..MaxClock /\ clock - now <= MaxDelay /\ now <= clock
  BY <1>0, <1>2, RateAssumption, CoreAssumption DEF FlowOK, DelayInv
<1>4. TablesOK' BY <1>0, <1>2, TablesKept, Zenon
<1>5. globalBucket' \in Bucket(GlobalBurst) /\ GlobalInv'
  <2>1. CASE GlobalRate > 0
    BY <1>1, <1>2, <1>3, <2>1, GlobalRefills, Zenon DEF GlobalInv
  <2>2. CASE ~(GlobalRate > 0)
    BY <1>0, <1>1, <1>2, <2>2, Zenon DEF RestOK, GlobalInv, Funded
  <2> QED BY <2>1, <2>2, Zenon
<1>6. RestOK' BY <1>0, <1>2, <1>5, Zenon DEF RestOK
<1>7. FlowOK'
  <2>1. CASE Deny(r) BY <1>0, <1>2, <2>1, FlowStep, Zenon
  <2>2. CASE pc' = [pc EXCEPT ![r] = "admit"] /\ since' = [since EXCEPT ![r] = now]
    BY <1>0, <1>2, <1>3, <2>2, Zenon DEF FlowOK, DelayInv, Checking
  <2> QED BY <1>1, <2>1, <2>2, Zenon
<1> QED BY <1>4, <1>6, <1>7, PartsPrimed, Zenon

LEMMA AdmitInv ==
  ASSUME IInv, NEW r \in Requests, Admit(r)
  PROVE  IInv'
<1> DEFINE k    == KeyOf[kind[r]]["client"]
           now  == since[r]
           on   == Rate["client"] > 0
           sh   == Room("client", k, now)
           b    == Refilled("client", k, now)
           g    == GlobalRefilled(now)
           open == GlobalRate > 0 => g.tokens >= 1
           d    == "client"
<1>0. TablesOK /\ RestOK /\ FlowOK BY Parts
<1>1. /\ d \in Dims /\ Checking(r) /\ pc[r] = "admit" /\ clock \in 0..MaxClock
      /\ k \in Keys /\ now \in 0..clock /\ clock - now <= MaxDelay
  <2>1. d \in Dims /\ pc[r] = "admit" /\ Checking(r)
    BY Zenon DEF Admit, Dims, Checking
  <2>2. clock \in 0..MaxClock /\ kind[r] \in Kinds BY <1>0 DEF RestOK
  <2>3. k \in Keys BY <2>1, <2>2, RateAssumption
  <2>4. now \in 0..clock /\ clock - now <= MaxDelay
    BY <1>0, <2>1, <2>2, CoreAssumption, SMTT(30) DEF FlowOK, DelayInv
  <2> QED BY <2>1, <2>2, <2>3, <2>4, SMTT(30)
<1>2. UNCHANGED <<clock, arrivals, kind, lastSeen, siblings>>
  BY Zenon DEF Admit
<1>3. Pass(r, d) \/ Deny(r) BY Zenon DEF Admit
<1>4. FlowOK' BY <1>0, <1>1, <1>2, <1>3, FlowStep, Zenon
<1>5. paid' \in [Requests -> SUBSET (Dims \cup {"global"})]
  <2>1. \/ paid' = paid
        \/ \E x \in SUBSET (Dims \cup {"global"}) : paid' = [paid EXCEPT ![r] = @ \cup x]
    <3>1. CASE paid' = paid BY <3>1, Zenon
    <3>2. CASE paid' = [paid EXCEPT ![r] = @ \cup {e \in {"global"} : GlobalRate > 0}
                                             \cup {e \in {"client"} : Rate["client"] > 0}]
      <4> DEFINE x == {e \in {"global"} : GlobalRate > 0} \cup {e \in {"client"} : Rate["client"] > 0}
      <4>1. x \in SUBSET (Dims \cup {"global"}) BY <1>1, Zenon
      <4>2. paid' = [paid EXCEPT ![r] = @ \cup x] BY <3>2, Zenon
      <4> HIDE DEF x
      <4> QED BY <4>1, <4>2, Zenon
    <3> QED BY <3>1, <3>2, Zenon DEF Admit
  <2> QED BY <1>0, <2>1, Zenon DEF RestOK
<1>6. globalBucket' \in Bucket(GlobalBurst) /\ globalSpent' \in Nat /\ GlobalInv'
  <2>1. \/ UNCHANGED <<globalBucket, globalSpent>>
        \/ globalBucket' = g /\ globalSpent' = globalSpent
        \/ g.tokens >= 1 /\ globalBucket' = Consume(g) /\ globalSpent' = globalSpent + 1
    BY Zenon DEF Admit
  <2>2. CASE UNCHANGED <<globalBucket, globalSpent>>
    BY <1>0, <1>2, <2>2, Zenon DEF RestOK, GlobalInv, Funded
  <2>3. /\ g \in Bucket(GlobalBurst) /\ g.last <= clock
        /\ Funded(g, globalSpent, GlobalRate, GlobalBurst)
        /\ g.tokens >= 1 =>
              /\ Consume(g) \in Bucket(GlobalBurst)
              /\ Consume(g).last <= clock
              /\ Funded(Consume(g), globalSpent + 1, GlobalRate, GlobalBurst)
    BY <1>1, GlobalRefills, Zenon
  <2> HIDE DEF g
  <2>4. CASE globalBucket' = g /\ globalSpent' = globalSpent
    BY <1>0, <1>2, <2>3, <2>4, Zenon DEF GlobalInv, RestOK
  <2>5. CASE g.tokens >= 1 /\ globalBucket' = Consume(g) /\ globalSpent' = globalSpent + 1
    BY <1>0, <1>2, <2>3, <2>5 DEF GlobalInv, RestOK
  <2> QED BY <2>1, <2>2, <2>4, <2>5, Zenon
<1>7. RestOK' BY <1>0, <1>2, <1>5, <1>6, Zenon DEF RestOK
<1>8. TablesOK'
  <2>1. CASE ~on
    <3>1. UNCHANGED <<table, bucket, spent>> BY <2>1, Zenon DEF Admit
    <3> QED BY <1>0, <1>2, <3>1, TablesKept, Zenon
  <2>2. CASE on
    <3>1. \/ /\ table' = [table EXCEPT ![d] = sh] /\ UNCHANGED <<bucket, spent>>
          \/ /\ Fits(sh, k)
             /\ table' = [table EXCEPT ![d] = Tracked(sh, k)]
             /\ \/ bucket' = [bucket EXCEPT ![d][k] = b] /\ spent' = spent
                \/ /\ b.tokens >= 1
                   /\ bucket' = [bucket EXCEPT ![d][k] = Consume(b)]
                   /\ spent' = [spent EXCEPT ![d][k] = @ + 1]
      <4>1. k \in sh.keys => Fits(sh, k) /\ Tracked(sh, k) = sh BY Zenon DEF Fits, Tracked
      <4> QED BY <2>2, <4>1, ZenonT(60) DEF Admit
    <3>2. d # "sibling" BY Zenon
    <3> HIDE DEF k, now, sh, b
    <3>3. CASE table' = [table EXCEPT ![d] = sh] /\ UNCHANGED <<bucket, spent>>
      BY <1>1, <1>2, <2>2, <3>3, KeyForgets, Zenon DEF sh
    <3> QED BY <1>1, <1>2, <2>2, <3>1, <3>2, <3>3, KeyCharges DEF sh, b
  <2> QED BY <2>1, <2>2, Zenon
<1> QED BY <1>4, <1>7, <1>8, PartsPrimed, Zenon

LEMMA ArriveInv ==
  ASSUME IInv, NEW r \in Requests, NEW kd \in Kinds, Arrive(r, kd)
  PROVE  IInv'
<1>0. TablesOK /\ RestOK /\ FlowOK BY Parts, Zenon
<1>1. TablesOK' BY <1>0, TablesKept, Zenon DEF Arrive
<1>2. GlobalInv' BY <1>0, Zenon DEF Arrive, RestOK, GlobalInv, Funded
<1>3. RestOK' BY <1>0, <1>2, RateAssumption DEF Arrive, RestOK
<1>4. FlowOK'
  <2>1. clock \in 0..MaxClock /\ clock' = clock /\ "signature" \in Dims
    BY <1>0, Zenon DEF Arrive, RestOK, Dims
  <2> QED BY <1>0, <2>1, RateAssumption, CoreAssumption DEF Arrive, FlowOK, DelayInv, Checking
<1> QED BY <1>1, <1>3, <1>4, PartsPrimed, Zenon

LEMMA TickInv ==
  ASSUME IInv, Tick
  PROVE  IInv'
<1>0. TablesOK /\ RestOK /\ FlowOK BY Parts, Zenon
<1>1. /\ clock \in Nat /\ clock' = clock + 1 /\ clock' \in 0..MaxClock /\ MaxDelay \in Nat
      /\ UNCHANGED <<arrivals, kind, pc, since, table, bucket, lastSeen, siblings, globalBucket,
                     paid, spent, globalSpent>>
  <2>1. MaxDelay \in Nat /\ MaxClock \in Nat BY RateAssumption, CoreAssumption, Zenon
  <2>2. clock \in 0..MaxClock BY <1>0, Zenon DEF RestOK
  <2>3. clock < MaxClock /\ clock' = clock + 1 BY Zenon DEF Tick
  <2>4. clock \in Nat /\ clock' \in 0..MaxClock BY <2>1, <2>2, <2>3
  <2> QED BY <2>1, <2>3, <2>4, Zenon DEF Tick
<1>2. KeyInv'
  <2> SUFFICES ASSUME NEW d \in Dims, NEW k \in Keys
      PROVE  (IF k \in table[d].keys
              THEN /\ d \in Refilling => Funded(bucket[d][k], spent[d][k], Rate[d], Burst[d])
                   /\ bucket[d][k].last <= clock
                   /\ d = "sibling" => bucket[d][k].last <= lastSeen[k] + MaxDelay
              ELSE d \in Refilling => Forgotten(spent[d][k], Rate[d]))'
    BY Zenon DEF KeyInv
  <2>1. Rate[d] \in Nat /\ bucket[d][k].last \in Nat /\ spent[d][k] \in Nat
    <3>1. TypeOK BY Zenon DEF IInv
    <3>2. bucket[d][k].last \in 0..MaxClock /\ Rate[d] \in Nat /\ spent[d] \in [Keys -> Nat]
      BY <3>1, DimFacts, Zenon
    <3> QED BY <3>2
  <2>2. CASE k \in table[d].keys
    <3>1. /\ d \in Refilling => Funded(bucket[d][k], spent[d][k], Rate[d], Burst[d])
          /\ bucket[d][k].last <= clock
          /\ d = "sibling" => bucket[d][k].last <= lastSeen[k] + MaxDelay
      BY <2>2, Zenon DEF IInv, KeyInv
    <3>2. d \in Refilling => Funded(bucket[d][k], spent[d][k], Rate[d], Burst[d])'
      BY <1>1, <3>1, Zenon DEF Funded
    <3> QED BY <1>1, <2>1, <2>2, <3>1, <3>2, SMTT(30)
  <2>3. CASE k \notin table[d].keys
    <3>1. d \in Refilling => spent[d][k] = 0 \/ spent[d][k] <= Rate[d] * (clock - MaxDelay)
      BY <2>3, Zenon DEF IInv, KeyInv, Forgotten
    <3>2. /\ Rate[d] * (clock - MaxDelay) <= Rate[d] * (clock' - MaxDelay)
          /\ Rate[d] * (clock - MaxDelay) \in Int /\ Rate[d] * (clock' - MaxDelay) \in Int
      <4>1. clock - MaxDelay \in Int /\ clock' - MaxDelay \in Int
            /\ clock - MaxDelay <= clock' - MaxDelay
        BY <1>1
      <4> QED BY <2>1, <4>1, RateMonotone, Zenon
    <3>3. d \in Refilling => spent'[d][k] = 0 \/ spent'[d][k] <= Rate[d] * (clock' - MaxDelay)
      BY <1>1, <2>1, <3>1, <3>2
    <3> QED BY <1>1, <2>3, <3>3, Zenon DEF Forgotten
  <2> QED BY <2>2, <2>3, Zenon
<1>3. TablesOK' BY <1>0, <1>1, <1>2, Zenon DEF TablesOK
<1>4. GlobalInv'
  <2>1. globalBucket.last \in Nat BY <1>0 DEF RestOK, Bucket
  <2> QED BY <1>0, <1>1, <2>1 DEF RestOK, GlobalInv, Funded
<1>5. RestOK' BY <1>0, <1>1, <1>4, Zenon DEF RestOK
<1>6. FlowOK'
  <2> SUFFICES ASSUME NEW r \in Requests, Checking(r)'
      PROVE  since'[r] <= clock' /\ clock' - since'[r] <= MaxDelay
    BY <1>0, <1>1, Zenon DEF FlowOK, DelayInv
  <2>1. Checking(r) /\ since[r] \in Nat BY <1>0, <1>1 DEF Checking, FlowOK
  <2>2. since[r] <= clock /\ clock - since[r] < MaxDelay
    BY <1>0, <2>1, Zenon DEF FlowOK, DelayInv, Tick
  <2> QED BY <1>1, <2>1, <2>2
<1> QED BY <1>3, <1>5, <1>6, PartsPrimed, Zenon

LEMMA NextInv == IInv /\ [Next]_vars => IInv'
<1> SUFFICES ASSUME IInv, [Next]_vars PROVE IInv'
  BY Zenon
<1>1. CASE UNCHANGED vars
  <2>0. TablesOK /\ RestOK /\ FlowOK BY Parts, Zenon
  <2>1. TablesOK' BY <1>1, <2>0, TablesKept, Zenon DEF vars
  <2>2. RestOK' BY <1>1, <2>0, Zenon DEF vars, RestOK, GlobalInv, Funded
  <2>3. FlowOK' BY <1>1, <2>0, Zenon DEF vars, FlowOK, DelayInv, Checking
  <2> QED BY <2>1, <2>2, <2>3, PartsPrimed, Zenon
<1> QED BY <1>1, ArriveInv, KeyCheckInv, SiblingCheckInv, ProbeInv, AdmitInv, TickInv, Zenon DEF Next

----------------------------------------------------------------------------
(* What every bucket holds and what was taken from it was paid for by the  *)
(* burst and the time, at every step of every check, and a forgotten key   *)
(* was paid for long enough ago (TokenBucket, ensure_key_shard_capacity).  *)
THEOREM RateInvariant == Spec => []IInv
<1> QED BY InitInv, NextInv, PTL DEF Spec

(* signature_rps, global_rps and the others: for any number of keys and of *)
(* requests checked at once, the tokens ever taken for one key, and from   *)
(* the global bucket, stay within the burst and the elapsed time, although *)
(* the shard forgets a key's bucket and later makes it anew, full; for a   *)
(* key's bucket, if the idle time suffices to refill it (Refilling).       *)
THEOREM RateBoundHolds == Spec => []RateBound
<1>1. IInv => RateBound
  <2> SUFFICES ASSUME IInv PROVE RateBound
    BY Zenon
  <2>1. clock \in Nat /\ MaxDelay \in Nat /\ GlobalRate \in Nat /\ GlobalBurst \in Nat
    BY RateAssumption, CoreAssumption DEF IInv, TypeOK
  <2>2. ASSUME NEW d \in Refilling, NEW k \in Keys
        PROVE  spent[d][k] <= Burst[d] + Rate[d] * clock
    <3>0. d \in Dims BY Zenon DEF Refilling
    <3>1. /\ Rate[d] \in Nat /\ Burst[d] \in Nat /\ spent[d][k] \in Nat
          /\ bucket[d][k].tokens \in Nat /\ bucket[d][k].last \in Nat
      <4>1. TypeOK BY Zenon DEF IInv
      <4>2. /\ bucket[d][k].last \in 0..MaxClock /\ bucket[d][k].tokens \in 0..Burst[d]
            /\ Rate[d] \in Nat /\ Burst[d] \in Nat /\ spent[d] \in [Keys -> Nat]
        BY <3>0, <4>1, DimFacts, Zenon
      <4> QED BY <4>2
    <3>2. CASE k \in table[d].keys
      <4>1. /\ bucket[d][k].tokens + spent[d][k] <= Burst[d] + Rate[d] * bucket[d][k].last
            /\ bucket[d][k].last <= clock
        BY <3>0, <3>2, Zenon DEF IInv, KeyInv, Funded
      <4>2. /\ Rate[d] * bucket[d][k].last <= Rate[d] * clock
            /\ Rate[d] * bucket[d][k].last \in Int /\ Rate[d] * clock \in Int
        BY <2>1, <3>1, <4>1, RateMonotone
      <4> QED BY <3>1, <4>1, <4>2
    <3>3. CASE k \notin table[d].keys
      <4>1. spent[d][k] = 0 \/ spent[d][k] <= Rate[d] * (clock - MaxDelay)
        BY <3>0, <3>3, Zenon DEF IInv, KeyInv, Forgotten
      <4>2. /\ Rate[d] * (clock - MaxDelay) <= Rate[d] * clock
            /\ Rate[d] * (clock - MaxDelay) \in Int /\ Rate[d] * clock \in Int
            /\ Rate[d] * clock >= 0
        <5>1. clock - MaxDelay \in Int /\ clock - MaxDelay <= clock BY <2>1
        <5>2. Rate[d] * clock \in Nat BY <2>1, <3>1
        <5> QED BY <2>1, <3>1, <5>1, <5>2, RateMonotone
      <4> QED BY <3>1, <4>1, <4>2
    <3> QED BY <3>2, <3>3, Zenon
  <2>3. globalSpent <= GlobalBurst + GlobalRate * clock
    <3>1. /\ globalBucket.tokens + globalSpent <= GlobalBurst + GlobalRate * globalBucket.last
          /\ globalBucket.last <= clock
      BY Zenon DEF IInv, GlobalInv, Funded
    <3>2. globalBucket.tokens \in Nat /\ globalBucket.last \in Nat /\ globalSpent \in Nat
      BY DEF IInv, TypeOK, Bucket
    <3>3. /\ GlobalRate * globalBucket.last <= GlobalRate * clock
          /\ GlobalRate * globalBucket.last \in Int /\ GlobalRate * clock \in Int
      BY <2>1, <3>1, <3>2, RateMonotone
    <3> QED BY <2>1, <3>1, <3>2, <3>3
  <2> QED BY <2>2, <2>3, Zenon DEF RateBound
<1> QED BY <1>1, RateInvariant, PTL

=============================================================================

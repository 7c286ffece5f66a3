------------------------- MODULE LimiterCoreProofs -------------------------
(***************************************************************************)
(* Lemmas about the token bucket and the shard of tracked keys, for any    *)
(* keys, capacity and scan limit.                                          *)
(***************************************************************************)
EXTENDS LimiterCore, FiniteSetTheorems, TLAPS

(* Rotate moves a prefix of the queue behind the rest.                     *)
LEMMA RotateElements ==
  ASSUME NEW q \in Seq(Keys), NEW m \in 1..Len(q)+1, NEW n \in 0..Len(q)
  PROVE  /\ Rotate(q, m, n) \in Seq(Keys)
         /\ Len(Rotate(q, m, n)) = (Len(q) - m + 1) + n
         /\ \A j \in 1..(Len(q) - m + 1) + n :
              Rotate(q, m, n)[j] = IF j <= Len(q) - m + 1
                                   THEN q[m + j - 1]
                                   ELSE q[j - (Len(q) - m + 1)]
<1> DEFINE a == SubSeq(q, m, Len(q))
           b == SubSeq(q, 1, n)
<1>1. Len(q) \in Nat /\ \A i \in 1..Len(q) : q[i] \in Keys
  OBVIOUS
<1>2. /\ a \in Seq(Keys)
      /\ Len(a) = Len(q) - m + 1
      /\ \A i \in 1..Len(q) - m + 1 : a[i] = q[m + i - 1]
  <2>1. m \in Int /\ Len(q) \in Int /\ \A i \in m..Len(q) : q[i] \in Keys
    BY <1>1
  <2> HIDE DEF a
  <2>2. /\ a \in Seq(Keys)
        /\ Len(a) = IF m <= Len(q) THEN Len(q) - m + 1 ELSE 0
        /\ \A i \in 1..Len(q) - m + 1 : a[i] = q[m + i - 1]
    BY <2>1 DEF a
  <2> QED
    BY <1>1, <2>2
<1>3. /\ b \in Seq(Keys)
      /\ Len(b) = n
      /\ \A i \in 1..n : b[i] = q[i]
  <2>1. 1 \in Int /\ n \in Int /\ \A i \in 1..n : q[i] \in Keys
    BY <1>1
  <2> HIDE DEF b
  <2>2. /\ b \in Seq(Keys)
        /\ Len(b) = IF 1 <= n THEN n - 1 + 1 ELSE 0
        /\ \A i \in 1..n - 1 + 1 : b[i] = q[1 + i - 1]
    BY <2>1 DEF b
  <2> QED
    BY <1>1, <2>1, <2>2
<1>4. Rotate(q, m, n) = a \o b
  BY DEF Rotate
<1> HIDE DEF a, b
<1>5. /\ a \o b \in Seq(Keys)
      /\ Len(a \o b) = Len(a) + Len(b)
      /\ \A i \in 1..Len(a) + Len(b) :
           (a \o b)[i] = IF i <= Len(a) THEN a[i] ELSE b[i - Len(a)]
  <2>1. a \o b \in Seq(Keys) BY <1>2, <1>3
  <2>2. Len(a \o b) = Len(a) + Len(b)
    <3>1. a \in Seq(Keys) /\ b \in Seq(Keys) BY <1>2, <1>3
    <3> QED BY <3>1
  <2>3. \A i \in 1..Len(a) + Len(b) :
          (a \o b)[i] = IF i <= Len(a) THEN a[i] ELSE b[i - Len(a)]
    BY <1>2, <1>3
  <2> QED BY <2>1, <2>2, <2>3
<1>6. ASSUME NEW j \in 1..(Len(q) - m + 1) + n
      PROVE  Rotate(q, m, n)[j] = IF j <= Len(q) - m + 1 THEN q[m + j - 1]
                                                         ELSE q[j - (Len(q) - m + 1)]
  <2>1. Rotate(q, m, n)[j] = IF j <= Len(a) THEN a[j] ELSE b[j - Len(a)]
    BY <1>2, <1>3, <1>4, <1>5, Zenon
  <2>2. CASE j <= Len(q) - m + 1
    <3>1. j \in 1..Len(q) - m + 1 BY <1>1, <2>2
    <3> QED BY <1>2, <2>1, <2>2, <3>1, Zenon
  <2>3. CASE ~(j <= Len(q) - m + 1)
    <3>1. j - (Len(q) - m + 1) \in 1..n BY <1>1, <2>3
    <3> QED BY <1>2, <1>3, <2>1, <2>3, <3>1, Zenon
  <2> QED BY <2>2, <2>3, Zenon
<1> QED BY <1>2, <1>3, <1>4, <1>5, <1>6, Zenon

(* Rotating loses exactly the keys between the two pieces: the result is q *)
(* re-indexed by f, whose inverse is g.                                    *)
LEMMA RotateKeys ==
  ASSUME NEW q \in Seq(Keys), NEW m \in 1..Len(q)+1, NEW n \in 0..Len(q), n < m,
         NEW r, r = Rotate(q, m, n)
  PROVE  /\ r \in Seq(Keys)
         /\ KeysIn(r) = {q[i] : i \in (1..n) \cup (m..Len(q))}
         /\ Distinct(q) => Distinct(r)
<1>1. PICK len \in Nat : len = Len(q)
  OBVIOUS
<1>2. m \in Int /\ n \in Nat /\ 1 <= m /\ m <= len + 1
  BY <1>1
<1>3. PICK I \in SUBSET (1..len) : I = (1..n) \cup (m..len)
  <2>1. (1..n) \cup (m..len) \in SUBSET (1..len)
    BY <1>1, <1>2
  <2> QED
    BY <2>1, Zenon
<1>4. PICK d \in Nat : d = len - m + 1
  BY <1>1, <1>2
<1>5. PICK f : f = [j \in 1..d + n |-> IF j <= d THEN m + j - 1 ELSE j - d]
  BY Zenon
<1>6. PICK g : g = [i \in I |-> IF i <= n THEN i + d ELSE i - m + 1]
  BY Zenon
<1>7. r \in Seq(Keys) /\ Len(r) = d + n /\ \A j \in 1..d + n : r[j] = q[f[j]]
  <2>1. /\ r \in Seq(Keys)
        /\ Len(r) = (Len(q) - m + 1) + n
        /\ \A j \in 1..(Len(q) - m + 1) + n :
              r[j] = IF j <= Len(q) - m + 1
                     THEN q[m + j - 1] ELSE q[j - (Len(q) - m + 1)]
    BY RotateElements, Zenon
  <2>2. /\ r \in Seq(Keys)
        /\ Len(r) = d + n
        /\ \A j \in 1..d + n : r[j] = IF j <= d THEN q[m + j - 1] ELSE q[j - d]
    BY <1>1, <1>4, <2>1, Zenon
  <2> QED
    BY <1>5, <2>2, Zenon
<1>8. f \in [1..d + n -> I] /\ g \in [I -> 1..d + n]
  BY <1>2, <1>3, <1>4, <1>5, <1>6
<1>9. \A j \in 1..d + n : g[f[j]] = j
  BY <1>2, <1>3, <1>4, <1>5, <1>6
<1>10. \A i \in I : f[g[i]] = i
  BY <1>2, <1>3, <1>4, <1>5, <1>6
<1>11. \A i \in I : r[g[i]] = q[i] /\ g[i] \in 1..Len(r)
  BY <1>7, <1>8, <1>10
<1>12. \A j \in 1..Len(r) : r[j] = q[f[j]] /\ f[j] \in I /\ g[f[j]] = j
  BY <1>7, <1>8, <1>9
<1>13. KeysIn(r) \subseteq {q[i] : i \in I}
  <2>1. ASSUME NEW j \in 1..Len(r) PROVE \E i \in I : r[j] = q[i]
    BY <1>12, Zenon
  <2> QED
    BY <2>1 DEF KeysIn
<1>14. {q[i] : i \in I} \subseteq KeysIn(r)
  <2>1. ASSUME NEW i \in I PROVE \E j \in 1..Len(r) : q[i] = r[j]
    BY <1>11
  <2>2. ASSUME NEW x \in {q[i] : i \in I} PROVE x \in {r[j] : j \in 1..Len(r)}
    <3>1. PICK i \in I : x = q[i]
      BY <2>2, Zenon
    <3>2. PICK j \in 1..Len(r) : x = r[j]
      BY <2>1, <3>1, Zenon
    <3> QED
      BY <3>2, Zenon
  <2> QED
    BY <2>2, Zenon DEF KeysIn
<1>15. ASSUME Distinct(q), NEW i \in 1..Len(r), NEW j \in 1..Len(r), r[i] = r[j]
       PROVE  i = j
  <2>1. f[i] \in 1..Len(q) /\ f[j] \in 1..Len(q) /\ q[f[i]] = q[f[j]]
    BY <1>1, <1>12, <1>15, Zenon
  <2>2. f[i] = f[j]
    BY <1>15, <2>1, Zenon DEF Distinct
  <2> QED
    BY <1>12, <2>2
<1> QED
  BY <1>1, <1>3, <1>7, <1>13, <1>14, <1>15 DEF Distinct

(* evict_one takes at most one key, a victim, and leaves order listing the *)
(* remaining keys once each.                                               *)
LEMMA EvictFirstProperties ==
  ASSUME NEW sh \in LimiterShard, OrderMatches(sh), NEW victims,
         NEW e, e = EvictFirst(sh, victims)
  PROVE  /\ e \in LimiterShard
         /\ OrderMatches(e)
         /\ e.keys \subseteq sh.keys
         /\ sh.keys \ e.keys \subseteq victims
<1>1. PICK q \in Seq(Keys) : q = sh.order
  BY DEF LimiterShard
<1>2. PICK scan \in Nat : /\ scan <= Len(q)
                          /\ scan = IF Len(q) < ScanLimit THEN Len(q) ELSE ScanLimit
  BY CoreAssumption
<1>3. PICK first :
        first = {n \in 1..scan : /\ q[n] \in sh.keys \cap victims
                                 /\ \A m \in 1..n - 1 : ~(q[m] \in sh.keys \cap victims)}
  BY Zenon
<1>4. sh.keys \subseteq Keys /\ KeysIn(q) = sh.keys /\ Distinct(q)
  BY <1>1 DEF LimiterShard, OrderMatches
<1>5. CASE first = {}
  <2>1. PICK r : r = Rotate(q, scan + 1, scan)
    OBVIOUS
  <2>2. e = [keys |-> sh.keys, order |-> r]
    BY <1>1, <1>2, <1>3, <1>5, <2>1 DEF EvictFirst
  <2>3. /\ r \in Seq(Keys)
        /\ KeysIn(r) = {q[i] : i \in (1..scan) \cup (scan + 1..Len(q))}
        /\ Distinct(r)
    <3>1. scan + 1 \in 1..Len(q)+1 /\ scan \in 0..Len(q) /\ scan < scan + 1
      BY <1>2
    <3>2. PICK m \in 1..Len(q)+1 : m = scan + 1
      BY <3>1
    <3>3. scan < m /\ r = Rotate(q, m, scan)
      BY <2>1, <3>1, <3>2
    <3>4. /\ r \in Seq(Keys)
          /\ KeysIn(r) = {q[i] : i \in (1..scan) \cup (m..Len(q))}
          /\ Distinct(q) => Distinct(r)
      BY <3>1, <3>3, RotateKeys, Zenon
    <3> QED
      BY <1>4, <3>2, <3>4, Zenon
  <2>4. (1..scan) \cup (scan + 1..Len(q)) = 1..Len(q)
    BY <1>2
  <2>5. KeysIn(r) = sh.keys
    BY <1>4, <2>3, <2>4, Zenon DEF KeysIn
  <2> QED
    BY <1>4, <2>2, <2>3, <2>5 DEF OrderMatches, LimiterShard
<1>6. CASE first # {}
  <2>1. PICK v : v = CHOOSE n \in first : TRUE
    OBVIOUS
  <2>2. PICK r : r = Rotate(q, v + 1, v - 1)
    OBVIOUS
  <2>3. e = [keys |-> sh.keys \ {q[v]}, order |-> r]
    BY <1>1, <1>2, <1>3, <1>6, <2>1, <2>2 DEF EvictFirst
  <2>4. v \in first BY <1>6, <2>1, Zenon
  <2>5. v \in 1..Len(q) /\ q[v] \in victims
    BY <1>2, <1>3, <2>4
  <2>6. /\ r \in Seq(Keys)
        /\ KeysIn(r) = {q[i] : i \in (1..v - 1) \cup (v + 1..Len(q))}
        /\ Distinct(r)
    <3>1. v + 1 \in 1..Len(q)+1 /\ v - 1 \in 0..Len(q) /\ v - 1 < v + 1
      BY <2>5
    <3>2. PICK m \in 1..Len(q)+1, n \in 0..Len(q) : m = v + 1 /\ n = v - 1
      BY <3>1
    <3>3. n < m /\ r = Rotate(q, m, n)
      BY <2>2, <3>1, <3>2
    <3>4. /\ r \in Seq(Keys)
          /\ KeysIn(r) = {q[i] : i \in (1..n) \cup (m..Len(q))}
          /\ Distinct(q) => Distinct(r)
      BY <3>3, RotateKeys, Zenon
    <3> QED
      BY <1>4, <3>2, <3>4, Zenon
  <2>7. (1..v - 1) \cup (v + 1..Len(q)) = (1..Len(q)) \ {v}
    BY <2>5
  <2>8. KeysIn(r) = sh.keys \ {q[v]}
    <3>1. KeysIn(r) = {q[i] : i \in (1..Len(q)) \ {v}}
      BY <2>6, <2>7
    <3>2. \A i \in 1..Len(q) : i # v => q[i] # q[v]
      BY <1>4, <2>5, Zenon DEF Distinct
    <3>3. sh.keys = {q[i] : i \in 1..Len(q)}
      BY <1>4 DEF KeysIn
    <3> QED
      BY <3>1, <3>2, <3>3, Zenon
  <2> QED
    BY <1>4, <2>3, <2>5, <2>6, <2>8 DEF OrderMatches, LimiterShard
<1> QED
  BY <1>5, <1>6

(* The keys of a queue are finite in number.                               *)
LEMMA KeysInFinite ==
  ASSUME NEW q \in Seq(Keys)
  PROVE  IsFiniteSet(KeysIn(q)) /\ Cardinality(KeysIn(q)) \in Nat
<1>1. q \in Surjection(1..Len(q), KeysIn(q))
  BY DEF Surjection, KeysIn
<1>2. IsFiniteSet(1..Len(q))
  BY FS_Interval
<1> QED
  BY <1>1, <1>2, FS_Surjection, FS_CardinalityType

(* A new key inserted into a shard that has room.                          *)
LEMMA InsertProperties ==
  ASSUME NEW sh \in LimiterShard, OrderMatches(sh), HasRoom(sh),
         NEW k \in Keys, k \notin sh.keys,
         NEW e, e = Insert(sh, k)
  PROVE  /\ e \in LimiterShard
         /\ OrderMatches(e)
         /\ Cardinality(e.keys) <= Capacity
<1>1. PICK q \in Seq(Keys) : q = sh.order
  BY DEF LimiterShard
<1>2. PICK r : r = Append(q, k)
  BY Zenon
<1>3. /\ r \in Seq(Keys)
      /\ Len(r) = Len(q) + 1
      /\ \A i \in 1..Len(q) : r[i] = q[i]
      /\ r[Len(q) + 1] = k
  BY <1>2
<1>4. KeysIn(q) = sh.keys /\ Distinct(q) /\ sh.keys \subseteq Keys
  BY <1>1 DEF OrderMatches, LimiterShard
<1>5. e.keys = sh.keys \cup {k} /\ e.order = r /\ e \in LimiterShard
  BY <1>1, <1>2, <1>3, <1>4 DEF LimiterShard, Insert
<1>6. \A i \in 1..Len(r) : i \in 1..Len(q) \/ i = Len(q) + 1
  BY <1>3
<1>7. KeysIn(r) = sh.keys \cup {k}
  <2>1. KeysIn(r) \subseteq sh.keys \cup {k}
    <3>1. \A i \in 1..Len(r) : r[i] \in KeysIn(q) \cup {k}
      BY <1>3, <1>6 DEF KeysIn
    <3> QED
      BY <1>4, <3>1 DEF KeysIn
  <2>2. Len(q) + 1 \in 1..Len(r) /\ 1..Len(q) \subseteq 1..Len(r)
    BY <1>3
  <2>3. k \in KeysIn(r)
    BY <1>3, <2>2 DEF KeysIn
  <2>4. \A i \in 1..Len(q) : \E j \in 1..Len(r) : q[i] = r[j]
    BY <1>3, <2>2
  <2>5. KeysIn(q) \subseteq KeysIn(r)
    BY <2>4 DEF KeysIn
  <2> QED
    BY <1>4, <2>1, <2>3, <2>5
<1>8. Distinct(r)
  <2>1. \A i \in 1..Len(q) : q[i] # k
    BY <1>4 DEF KeysIn
  <2>2. ASSUME NEW i \in 1..Len(r), NEW j \in 1..Len(r), r[i] = r[j]
        PROVE  i = j
    <3>1. CASE i \in 1..Len(q) /\ j \in 1..Len(q)
      BY <1>3, <1>4, <2>2, <3>1 DEF Distinct
    <3>2. CASE i = Len(q) + 1 \/ j = Len(q) + 1
      BY <1>3, <1>6, <2>1, <2>2, <3>2
    <3> QED
      BY <1>6, <3>1, <3>2
  <2> QED
    BY <2>2 DEF Distinct
<1>9. Cardinality(sh.keys \cup {k}) = Cardinality(sh.keys) + 1
  BY <1>4, KeysInFinite, FS_AddElement, Zenon
<1>10. Cardinality(sh.keys) + 1 <= Capacity
  BY <1>4, KeysInFinite, CoreAssumption DEF HasRoom
<1> QED
  BY <1>5, <1>7, <1>8, <1>9, <1>10, Zenon DEF OrderMatches

(* A refill keeps a bucket within its burst, moves last forward to at most *)
(* the given instant, and adds no more tokens than the time it moves over. *)
LEMMA RefillProperties ==
  ASSUME NEW burst \in Nat, NEW rate \in Nat, NEW b \in Bucket(burst),
         NEW at \in 0..MaxClock, NEW r, r = Refill(b, rate, burst, at)
  PROVE  /\ r \in Bucket(burst)
         /\ r.last = IF at > b.last THEN at ELSE b.last
         /\ r.tokens <= b.tokens + rate * r.last - rate * b.last
<1>1. /\ b.tokens \in 0..burst /\ b.last \in 0..MaxClock
      /\ MaxClock \in Nat /\ at \in Nat
  BY CoreAssumption DEF Bucket
<1>2. CASE at > b.last
  <2>1. PICK add \in Nat : add = (at - b.last) * rate
    BY <1>1, <1>2
  <2>2. rate * at - rate * b.last = add
    BY <1>1, <2>1
  <2>3. r = [tokens |-> IF b.tokens + add > burst THEN burst ELSE b.tokens + add,
             last |-> at]
    BY <1>2, <2>1 DEF Refill
  <2> QED
    BY <1>1, <1>2, <2>1, <2>2, <2>3 DEF Bucket
<1>3. CASE ~(at > b.last)
  BY <1>1, <1>3 DEF Refill
<1> QED
  BY <1>2, <1>3
=============================================================================

---------------------------- MODULE LimiterCore ----------------------------
(***************************************************************************)
(* What the limiters of src/limiter.rs share: the token bucket, and the    *)
(* shard of tracked keys with its bounded eviction queue.                  *)
(*                                                                         *)
(* Time is a counter of ticks and tokens are whole: rates are in tokens    *)
(* per tick.                                                               *)
(***************************************************************************)
EXTENDS Integers, Sequences, FiniteSets

CONSTANTS
  Keys,        \* what is tracked: client addresses, signatures, path shapes
  Capacity,    \* shard_capacity of the configured maximum of tracked keys
  ScanLimit,   \* EVICTION_SCAN_LIMIT
  IdleTicks,   \* TRACKED_IP_IDLE_SECONDS, TRACKED_SIGNATURE_IDLE_SECONDS
  MaxClock     \* bound on the clock

ASSUME CoreAssumption ==
  /\ Capacity \in Nat \ {0} /\ ScanLimit \in Nat \ {0}
  /\ IdleTicks \in Nat /\ MaxClock \in Nat

----------------------------------------------------------------------------
(* TokenBucket.                                                            *)

Bucket(burst) == [tokens : 0..burst, last : 0..MaxClock]

FullBucket(burst, at) == [tokens |-> burst, last |-> at]

\* Mutant: last is left behind, so the same time is paid out again.
RefillTwice(b, rate, burst, at) ==
  IF at > b.last
  THEN [b EXCEPT !.tokens = IF @ + (at - b.last) * rate > burst
                            THEN burst ELSE @ + (at - b.last) * rate]
  ELSE b

(* refill: nothing happens when no time has elapsed since last, which      *)
(* includes an instant read before another task's later one.               *)
Refill(b, rate, burst, at) ==
  IF at > b.last
  THEN [tokens |-> IF b.tokens + (at - b.last) * rate > burst
                   THEN burst ELSE b.tokens + (at - b.last) * rate,
        last |-> at]
  ELSE b

Consume(b) == [b EXCEPT !.tokens = @ - 1]

Stale(b, at) == at - b.last > IdleTicks

----------------------------------------------------------------------------
(* Eviction from a shard: entries is represented by its set of keys.       *)

LimiterShard == [keys : SUBSET Keys, order : Seq(Keys)]

KeysIn(q) == {q[i] : i \in 1..Len(q)}

Distinct(q) == \A i, j \in 1..Len(q) : q[i] = q[j] => i = j

OrderMatches(sh) == KeysIn(sh.order) = sh.keys /\ Distinct(sh.order)

(* evict_stale_or_oldest and evict_one: pop keys off the front of order,   *)
(* at most ScanLimit of them; the first victim is dropped and ends the     *)
(* scan, every other key goes to the back.  The code also drops a popped   *)
(* key that has no entry; ShardBounded shows there is none.                *)
Rotate(q, from, upto) == SubSeq(q, from, Len(q)) \o SubSeq(q, 1, upto)

EvictFirst(sh, victims) ==
  LET scan == IF Len(sh.order) < ScanLimit THEN Len(sh.order) ELSE ScanLimit
      hit(n) == sh.order[n] \in sh.keys \cap victims
      first == {n \in 1..scan : hit(n) /\ \A m \in 1..n - 1 : ~hit(m)}
      i == CHOOSE n \in first : TRUE
  IN  IF first = {}
      THEN [keys  |-> sh.keys,
            order |-> Rotate(sh.order, scan + 1, scan)]
      ELSE [keys  |-> sh.keys \ {sh.order[i]},
            order |-> Rotate(sh.order, i + 1, i - 1)]

HasRoom(sh) == Cardinality(sh.keys) < Capacity

(* A new key: push_back on order and the entry.                            *)
Insert(sh, k) == [keys |-> sh.keys \cup {k}, order |-> Append(sh.order, k)]
=============================================================================

--------------------------- MODULE PermitLimiter ---------------------------
(***************************************************************************)
(* The three permit limiters of src/limiter.rs: ConnectionLimiter (raw     *)
(* TCP), HttpConnectionLimiter and RequestConcurrencyLimiter.  They share  *)
(* one algorithm and differ in their per-client checks; Flavour selects    *)
(* one of them.                                                            *)
(*                                                                         *)
(* A task is the slot of one connection or request of one client: it calls *)
(* try_acquire, holds the permit, and drops it.  A step of a task is what  *)
(* the code does atomically: one operation on the atomic global_active,    *)
(* one critical section of the global bucket, or work on a shard whose     *)
(* mutex the task holds.  Keys are normalised client addresses.            *)
(*                                                                         *)
(* Time is a counter of ticks and tokens are whole: rates are in tokens    *)
(* per tick.                                                               *)
(***************************************************************************)
EXTENDS LimiterCore

CONSTANTS
  Tasks,             \* connection or request slots
  KeyOf,             \* the client of each task
  Shards,            \* 0..SHARDS-1 in the code
  ShardOf,           \* shard_for: the shard of each key
  Flavour,           \* "tcp", "http" or "request"
  MaxConnections,    \* max_connections / max_in_flight, 0 is unlimited
  MaxPerIp,          \* max_connections_per_ip / max_in_flight_per_ip
  PerIpRate,         \* per_ip_connects_per_second, 0 is disabled
  PerIpBurst,
  GlobalRate,        \* global_connects_per_second, 0 is disabled
  GlobalBurst,
  NoTask             \* the owner of a free mutex

ASSUME PermitAssumption ==
  /\ IsFiniteSet(Tasks) /\ NoTask \notin Tasks
  /\ KeyOf \in [Tasks -> Keys]
  /\ ShardOf \in [Keys -> Shards]
  /\ Flavour \in {"tcp", "http", "request"}
  /\ MaxConnections \in Nat /\ MaxPerIp \in Nat
  /\ Flavour = "tcp" => MaxPerIp > 0          \* ConnectionLimiter::new
  /\ Flavour = "request" => PerIpRate = 0 /\ GlobalRate = 0
  /\ PerIpRate \in Nat /\ PerIpBurst \in Nat \ {0}
  /\ GlobalRate \in Nat /\ GlobalBurst \in Nat \ {0}

VARIABLES
  clock,        \* Instant::now()
  pc,           \* where each task is in try_acquire or release
  now,          \* the instant a task read when its attempt began
  seen,         \* the value of global_active a task loaded for its CAS
  globalActive, \* AtomicUsize global_active
  globalBucket, \* the Mutex<TokenBucket> global_connects
  owner,        \* the task that holds each shard's mutex, or NoTask
  shards,       \* LimiterShard: the keys of entries, and order
  active,       \* entry.active of the tracked keys
  bucket,       \* entry.bucket of the tracked keys
  arriving,     \* clients still arrive (the environment)
  granted       \* history: permits charged to the global bucket

vars == <<clock, pc, now, seen, globalActive, globalBucket, owner, shards,
          active, bucket, arriving, granted>>

Shard(t) == ShardOf[KeyOf[t]]

(* Where a task is.  Every location but "idle" and "holding" is inside a   *)
(* call of try_acquire or release.                                         *)
Locations == {"idle", "probe", "lock", "load", "cas", "charge", "rollback",
              "holding", "releasing"}

(* The task holds its shard's mutex.                                       *)
Critical == {"load", "cas", "charge", "rollback"}

(* The task's slot is counted in global_active.                            *)
Counted == {"charge", "rollback", "holding"}

(* The task is counted in its entry's active.                              *)
Held == {"holding", "releasing"}

At(locs) == {t \in Tasks : pc[t] \in locs}

(* The tasks of one client among those at the given locations.             *)
AtOf(locs, k) == {t \in Tasks : pc[t] \in locs /\ KeyOf[t] = k}

----------------------------------------------------------------------------
(* Making room in a shard.                                                 *)

(* Entries whose eviction predicate calls them stale.  The connection      *)
(* limiters read bucket.last; RequestEntry has no bucket and reads         *)
(* last_seen, which bucket.last stands for in that flavour.                *)
IdleKeys(at) ==
  {k \in Keys : /\ active[k] = 0
                /\ IF Flavour = "request"
                   THEN at - bucket[k].last >= IdleTicks
                   ELSE Stale(bucket[k], at)}

\* Mutant: a key is evicted whether or not a permit of it is live.
AnyKeys == Keys

InactiveKeys == {k \in Keys : active[k] = 0}

(* ensure_connection_shard_capacity and its two siblings.                  *)
EnsureCapacity(sh, at) ==
  LET idle == IF HasRoom(sh) THEN sh ELSE EvictFirst(sh, IdleKeys(at))
  IN  IF HasRoom(idle) THEN idle ELSE EvictFirst(idle, InactiveKeys)

----------------------------------------------------------------------------
(* The checks made on the entry.                                           *)

(* The entry's bucket as the checks leave it: only a call of has_tokens    *)
(* refills it, and ConnectionLimiter returns before that call when the     *)
(* client is at its cap.                                                   *)
CheckedBucket(a, b, at) ==
  IF PerIpRate = 0 \/ (Flavour = "tcp" /\ a >= MaxPerIp)
  THEN b ELSE Refill(b, PerIpRate, PerIpBurst, at)

(* ConnectionLimiter's cap is never disabled.                              *)
UnderCap(a) ==
  IF Flavour = "tcp" THEN a < MaxPerIp ELSE MaxPerIp > 0 => a < MaxPerIp

HasToken(b) == PerIpRate > 0 => b.tokens >= 1

----------------------------------------------------------------------------
(* try_acquire                                                             *)

Goto(t, loc) == pc' = [pc EXCEPT ![t] = loc]

(* Return to the caller without a permit.                                  *)
Return(t) ==
  /\ Goto(t, "idle")
  /\ now' = [now EXCEPT ![t] = 0]
  /\ seen' = [seen EXCEPT ![t] = 0]

Unlock(t) == owner' = [owner EXCEPT ![Shard(t)] = NoTask]

(* A client arrives: read the clock and ask the global bucket for a token, *)
(* without taking it.                                                      *)
Attempt(t) ==
  LET g == Refill(globalBucket, GlobalRate, GlobalBurst, clock)
  IN  /\ arriving
      /\ pc[t] = "idle"
      /\ globalBucket' = IF GlobalRate > 0 THEN g ELSE globalBucket
      /\ IF GlobalRate > 0 /\ g.tokens < 1
         THEN UNCHANGED <<pc, now>>
         ELSE /\ Goto(t, "probe")
              /\ now' = [now EXCEPT ![t] = clock]
      /\ UNCHANGED <<clock, seen, globalActive, owner, shards, active, bucket,
                     arriving, granted>>

(* The early load of global_active, before any per-client state exists.    *)
(* RequestConcurrencyLimiter reads the clock only after it.                *)
Probe(t) ==
  /\ pc[t] = "probe"
  /\ IF MaxConnections > 0 /\ globalActive >= MaxConnections
     THEN Return(t)
     ELSE /\ Goto(t, "lock")
          /\ now' = IF Flavour = "request" THEN [now EXCEPT ![t] = clock] ELSE now
          /\ UNCHANGED seen
  /\ UNCHANGED <<clock, globalActive, globalBucket, owner, shards, active,
                 bucket, arriving, granted>>

(* Lock the shard, make room for a new key, insert its entry, and make the *)
(* per-client checks.  A key denied by the checks stays tracked.           *)
Admit(t) ==
  LET k     == KeyOf[t]
      s     == Shard(t)
      known == k \in shards[s].keys
      sh    == IF known THEN shards[s] ELSE EnsureCapacity(shards[s], now[t])
      a     == IF known THEN active[k] ELSE 0
      b     == IF known THEN bucket[k] ELSE FullBucket(PerIpBurst, now[t])
      r     == CheckedBucket(a, b, now[t])
  IN  /\ pc[t] = "lock"
      /\ owner[s] = NoTask
      /\ \/ /\ ~known /\ ~HasRoom(sh)
            /\ shards' = [shards EXCEPT ![s] = sh]
            /\ Return(t)
            /\ UNCHANGED <<owner, active, bucket>>
         \/ /\ known \/ HasRoom(sh)
            /\ shards' = IF known THEN shards
                         ELSE [shards EXCEPT ![s] = Insert(sh, k)]
            /\ active' = [active EXCEPT ![k] = a]
            /\ bucket' = [bucket EXCEPT ![k] = r]
            /\ IF UnderCap(a) /\ HasToken(r)
               THEN /\ Goto(t, IF MaxConnections > 0 THEN "load" ELSE "charge")
                    /\ owner' = [owner EXCEPT ![s] = t]
                    /\ UNCHANGED <<now, seen>>
               ELSE Return(t) /\ UNCHANGED owner
      /\ UNCHANGED <<clock, globalActive, globalBucket, arriving, granted>>

\* Mutant: off by one at the global cap.
LoadActiveOneMore(t) ==
  /\ pc[t] = "load" \/ (pc[t] = "cas" /\ globalActive # seen[t])
  /\ IF globalActive > MaxConnections
     THEN Return(t) /\ Unlock(t)
     ELSE /\ Goto(t, "cas")
          /\ seen' = [seen EXCEPT ![t] = globalActive]
          /\ UNCHANGED <<now, owner>>
  /\ UNCHANGED <<clock, globalActive, globalBucket, shards, active, bucket,
                 arriving, granted>>

\* Mutant: a failed compare_exchange_weak is not followed by a reload.
LoadActiveOnce(t) ==
  /\ pc[t] = "load"
  /\ IF globalActive >= MaxConnections
     THEN Return(t) /\ Unlock(t)
     ELSE /\ Goto(t, "cas")
          /\ seen' = [seen EXCEPT ![t] = globalActive]
          /\ UNCHANGED <<now, owner>>
  /\ UNCHANGED <<clock, globalActive, globalBucket, shards, active, bucket,
                 arriving, granted>>

(* The load that starts the compare-and-swap loop, and the reload after a  *)
(* failed compare_exchange_weak.                                           *)
LoadActive(t) ==
  /\ pc[t] = "load" \/ (pc[t] = "cas" /\ globalActive # seen[t])
  /\ IF globalActive >= MaxConnections
     THEN Return(t) /\ Unlock(t)
     ELSE /\ Goto(t, "cas")
          /\ seen' = [seen EXCEPT ![t] = globalActive]
          /\ UNCHANGED <<now, owner>>
  /\ UNCHANGED <<clock, globalActive, globalBucket, shards, active, bucket,
                 arriving, granted>>

\* Mutant: a plain store of the loaded value plus one.
BlindStore(t) ==
  /\ pc[t] = "cas"
  /\ globalActive' = seen[t] + 1
  /\ Goto(t, "charge")
  /\ seen' = [seen EXCEPT ![t] = 0]
  /\ UNCHANGED <<clock, now, globalBucket, owner, shards, active, bucket,
                 arriving, granted>>

CompareExchange(t) ==
  /\ pc[t] = "cas"
  /\ globalActive = seen[t]
  /\ globalActive' = seen[t] + 1
  /\ Goto(t, "charge")
  /\ seen' = [seen EXCEPT ![t] = 0]
  /\ UNCHANGED <<clock, now, globalBucket, owner, shards, active, bucket,
                 arriving, granted>>

(* bucket_try_consume on the global bucket; on success the per-client      *)
(* token is taken, active is counted and the shard is unlocked.            *)
Charge(t) ==
  LET k == KeyOf[t]
      g == Refill(globalBucket, GlobalRate, GlobalBurst, now[t])
  IN  /\ pc[t] = "charge"
      /\ IF GlobalRate > 0 /\ g.tokens < 1
         THEN /\ Goto(t, "rollback")
              /\ globalBucket' = g
              /\ UNCHANGED <<now, owner, active, bucket, granted>>
         ELSE /\ Goto(t, "holding")
              /\ globalBucket' = IF GlobalRate > 0 THEN Consume(g) ELSE globalBucket
              /\ granted' = IF GlobalRate > 0 THEN granted + 1 ELSE granted
              /\ bucket' = [bucket EXCEPT ![k] =
                              IF PerIpRate > 0 THEN Consume(@)
                              ELSE IF Flavour = "request" THEN [@ EXCEPT !.last = now[t]]
                              ELSE @]
              /\ active' = [active EXCEPT ![k] = @ + 1]
              /\ now' = [now EXCEPT ![t] = 0]
              /\ Unlock(t)
      /\ UNCHANGED <<clock, seen, globalActive, shards, arriving>>

(* release_global: fetch_sub on an unsigned counter.                       *)
ReleaseGlobal ==
  globalActive' = IF MaxConnections > 0 THEN globalActive - 1 ELSE globalActive

Rollback(t) ==
  /\ pc[t] = "rollback"
  /\ ReleaseGlobal
  /\ Return(t)
  /\ Unlock(t)
  /\ UNCHANGED <<clock, globalBucket, shards, active, bucket, arriving, granted>>

----------------------------------------------------------------------------
(* Dropping a permit: the global slot first, then the entry.               *)

Drop(t) ==
  /\ pc[t] = "holding"
  /\ ReleaseGlobal
  /\ Goto(t, "releasing")
  /\ UNCHANGED <<clock, now, seen, globalBucket, owner, shards, active, bucket,
                 arriving, granted>>

ReleaseEntry(t) ==
  LET k == KeyOf[t]
  IN  /\ pc[t] = "releasing"
      /\ owner[Shard(t)] = NoTask
      /\ IF k \in shards[Shard(t)].keys
         THEN /\ active' = [active EXCEPT ![k] = IF @ = 0 THEN 0 ELSE @ - 1]
              /\ bucket' = IF Flavour = "request"
                           THEN [bucket EXCEPT ![k].last = clock] ELSE bucket
         ELSE UNCHANGED <<active, bucket>>
      /\ Return(t)
      /\ UNCHANGED <<clock, globalActive, globalBucket, owner, shards, arriving,
                     granted>>

----------------------------------------------------------------------------
Tick ==
  /\ clock < MaxClock
  /\ clock' = clock + 1
  /\ UNCHANGED <<pc, now, seen, globalActive, globalBucket, owner, shards,
                 active, bucket, arriving, granted>>

(* The environment: no further client arrives.                             *)
ArrivalsStop ==
  /\ arriving
  /\ arriving' = FALSE
  /\ UNCHANGED <<clock, pc, now, seen, globalActive, globalBucket, owner,
                 shards, active, bucket, granted>>

Init ==
  /\ clock = 0
  /\ pc = [t \in Tasks |-> "idle"]
  /\ now = [t \in Tasks |-> 0]
  /\ seen = [t \in Tasks |-> 0]
  /\ globalActive = 0
  /\ globalBucket = FullBucket(GlobalBurst, 0)
  /\ owner = [s \in Shards |-> NoTask]
  /\ shards = [s \in Shards |-> [keys |-> {}, order |-> << >>]]
  /\ active = [k \in Keys |-> 0]
  /\ bucket = [k \in Keys |-> FullBucket(PerIpBurst, 0)]
  /\ arriving = TRUE
  /\ granted = 0

(* What a task does once it has begun: its own code, never waiting for a   *)
(* client.                                                                 *)
Step(t) ==
  \/ Probe(t) \/ Admit(t) \/ LoadActive(t) \/ CompareExchange(t)
  \/ Charge(t) \/ Rollback(t) \/ Drop(t) \/ ReleaseEntry(t)

Next ==
  \/ \E t \in Tasks : Attempt(t) \/ Step(t)
  \/ Tick
  \/ ArrivalsStop

Spec == Init /\ [][Next]_vars

(* Every task that has begun keeps being scheduled; connections end        *)
(* because their duration is bounded.                                      *)
FairSpec == Spec /\ \A t \in Tasks : WF_vars(Step(t))

----------------------------------------------------------------------------
TypeOK ==
  /\ clock \in 0..MaxClock
  /\ pc \in [Tasks -> Locations]
  /\ now \in [Tasks -> 0..MaxClock]
  /\ seen \in [Tasks -> Nat]
  /\ globalActive \in Nat
  /\ globalBucket \in Bucket(GlobalBurst)
  /\ owner \in [Shards -> Tasks \cup {NoTask}]
  /\ shards \in [Shards -> LimiterShard]
  /\ active \in [Keys -> Nat]
  /\ bucket \in [Keys -> Bucket(PerIpBurst)]
  /\ arriving \in BOOLEAN
  /\ granted \in Nat

(* global_active counts exactly the tasks that hold a permit or are past   *)
(* their compare-and-swap: no interleaving of acquire, rollback and drop   *)
(* loses or duplicates a slot, so fetch_sub never wraps.                   *)
GlobalExact ==
  MaxConnections > 0 => globalActive = Cardinality(At(Counted))

(* max_connections: never more permits out than the configured cap, though *)
(* the cap is tested on a loaded value and the tests race in every shard.  *)
GlobalCap ==
  MaxConnections > 0 => Cardinality(At({"holding"})) <= MaxConnections

(* entry.active counts exactly the permits of the client not yet returned  *)
(* to the entry, and such a client is always tracked: eviction and         *)
(* re-insertion never forget a live permit, and saturating_sub never hides *)
(* a second release.                                                       *)
PerIpExact ==
  \A k \in Keys :
    /\ active[k] = Cardinality(AtOf(Held, k))
    /\ AtOf(Held, k) # {} => k \in shards[ShardOf[k]].keys

(* max_connections_per_ip: never more permits out for one client than the  *)
(* cap.                                                                    *)
PerIpCap ==
  MaxPerIp > 0 => \A k \in Keys : Cardinality(AtOf({"holding"}, k)) <= MaxPerIp

(* The eviction queue of a shard lists each tracked key of that shard      *)
(* exactly once (so every key can be evicted, and no scan slot is wasted), *)
(* and the shard never tracks more than shard_capacity keys.               *)
ShardBounded ==
  \A s \in Shards :
    /\ OrderMatches(shards[s])
    /\ Cardinality(shards[s].keys) <= Capacity
    /\ \A k \in shards[s].keys : ShardOf[k] = s

(* global_connects_per_second: the permits granted by any time are within  *)
(* the burst and what the elapsed time refilled, whatever the order in     *)
(* which tasks present the instants they read.                             *)
GlobalRateBound ==
  GlobalRate > 0 => granted <= GlobalBurst + GlobalRate * clock

(* The limiter implements the pool of permits its caller relies on: the    *)
(* caps are respected at the moment of every grant, by the steps of every  *)
(* task in every shard together.                                           *)
Pool == INSTANCE PermitPool WITH held <- At({"holding"})

ImplementsPool == Pool!Spec

(* The inductive invariant behind the safety properties: who owns a shard, *)
(* what a task has established under the shard's mutex and may rely on     *)
(* until it unlocks, and the two exact counts.                             *)
CriticalInv ==
  \A t \in Tasks : pc[t] \in Critical =>
    /\ owner[Shard(t)] = t
    /\ KeyOf[t] \in shards[Shard(t)].keys
    /\ pc[t] \in {"load", "cas"} => MaxConnections > 0
    /\ pc[t] = "cas" => seen[t] < MaxConnections
    /\ MaxPerIp > 0 => active[KeyOf[t]] < MaxPerIp
    /\ PerIpRate > 0 => bucket[KeyOf[t]].tokens >= 1

CountInv ==
  /\ GlobalExact
  /\ PerIpExact
  /\ IF MaxConnections > 0 THEN globalActive <= MaxConnections ELSE globalActive = 0
  /\ MaxPerIp > 0 => \A k \in Keys : active[k] <= MaxPerIp

TimeInv ==
  /\ \A t \in Tasks : now[t] <= clock
  /\ globalBucket.last <= clock
  /\ GlobalRate > 0 =>
       globalBucket.tokens + granted <= GlobalBurst + GlobalRate * globalBucket.last

IInv == TypeOK /\ CriticalInv /\ CountInv /\ TimeInv /\ ShardBounded

(* Once clients stop arriving every call ends and every counter is back to *)
(* zero: nothing leaks on any path, and no task waits on another forever.  *)
Drained ==
  ~arriving ~> /\ At(Locations \ {"idle"}) = {}
               /\ globalActive = 0
               /\ \A k \in Keys : active[k] = 0
=============================================================================

---------------------------- MODULE RequestRate ----------------------------
(***************************************************************************)
(* The request-rate checks handle_http makes, in its order: the signature, *)
(* path-shape and short-token-sibling limiters, then RateLimiter with its  *)
(* global bucket, then the aggregate limiter of a trusted proxy.  Requests *)
(* for the admin endpoints, which make these checks in another order and   *)
(* are answered by the proxy itself, are left out.                         *)
(*                                                                         *)
(* A request is one slot that serves one request after another.  A check   *)
(* reads the clock, then locks a shard and does all its work under that    *)
(* lock: it is one step, taken with an instant between the request's       *)
(* arrival and the clock.  RateLimiter::check touches the global bucket    *)
(* twice and is two steps; in its second the global bucket is locked       *)
(* inside the shard's lock, which no other task can tell from one atomic   *)
(* step.  Shards share nothing, so each limiter is represented by one of   *)
(* its shards.                                                             *)
(***************************************************************************)
EXTENDS LimiterCore

CONSTANTS
  Requests,     \* request slots
  Kinds,        \* the requests that differ for the checks
  KeyOf,        \* the key of a kind in each dimension, or NoKey
  NoKey,        \* the dimension does not apply to the request
  Tokens,       \* short path tokens
  TokenOf,      \* the short token of a kind
  Rate,         \* tokens per tick of each dimension, 0 is disabled
  Burst,
  GlobalRate,   \* global_rps, 0 is disabled
  GlobalBurst,
  Threshold,    \* SHORT_TOKEN_SIBLING_DISTINCT_THRESHOLD
  DistinctCap,  \* SHORT_TOKEN_SIBLING_DISTINCT_CAP
  MaxDelay,     \* bound on the time the checks of a request take
  MaxArrivals   \* bound on the requests

Dims == {"signature", "path_shape", "sibling", "client", "proxy"}

ASSUME RateAssumption ==
  /\ Kinds # {} /\ KeyOf \in [Kinds -> [Dims -> Keys \cup {NoKey}]] /\ NoKey \notin Keys
  /\ \A kd \in Kinds : KeyOf[kd]["client"] # NoKey
  /\ TokenOf \in [Kinds -> Tokens]
  /\ Rate \in [Dims -> Nat] /\ Burst \in [Dims -> Nat \ {0}]
  /\ GlobalRate \in Nat /\ GlobalBurst \in Nat \ {0}
  /\ Threshold \in Nat /\ DistinctCap \in Nat /\ MaxDelay \in Nat
  /\ MaxArrivals \in Nat

VARIABLES
  clock,         \* Instant::now()
  arrivals,      \* the number of requests so far
  kind,          \* the request each slot serves
  pc,            \* the next check of each request
  since,         \* when the request arrived, or the instant RateLimiter::check
                 \* read; 0 when it is through
  table,         \* the shard of each dimension's limiter
  bucket,        \* entry.bucket of the tracked keys, by dimension
  lastSeen,      \* entry.last_seen of the sibling limiter's parents
  siblings,      \* entry.token_order of those parents
  globalBucket,  \* the Mutex<TokenBucket> global
  paid,          \* history: the buckets the request took a token from
  spent,         \* history: tokens taken from each key's bucket
  globalSpent    \* history: tokens taken from the global bucket

vars == <<clock, arrivals, kind, pc, since, table, bucket, lastSeen, siblings,
          globalBucket, paid, spent, globalSpent>>

After(d) ==
  CASE d = "signature"  -> "path_shape"
    [] d = "path_shape" -> "sibling"
    [] d = "sibling"    -> "client"
    [] d = "client"     -> "proxy"
    [] OTHER            -> "admitted"

Deny(r) ==
  /\ pc' = [pc EXCEPT ![r] = "denied"]
  /\ since' = [since EXCEPT ![r] = 0]

Pass(r, d) ==
  /\ pc' = [pc EXCEPT ![r] = After(d)]
  /\ since' = [since EXCEPT ![r] = IF After(d) = "admitted" THEN 0 ELSE @]

----------------------------------------------------------------------------
(* The keyed limiters.                                                     *)

StaleKeys(d, at) ==
  {k \in Keys : IF d = "sibling" THEN at - lastSeen[k] >= IdleTicks
                ELSE Stale(bucket[d][k], at)}

\* Mutant: a full shard gives up its oldest key, whether or not it is idle.
RoomAtAnyCost(d, k, at) ==
  IF k \in table[d].keys \/ HasRoom(table[d]) THEN table[d]
  ELSE EvictFirst(table[d], Keys)

(* ensure_key_shard_capacity and its siblings, called for a new key only.  *)
Room(d, k, at) ==
  IF k \in table[d].keys \/ HasRoom(table[d]) THEN table[d]
  ELSE EvictFirst(table[d], StaleKeys(d, at))

Fits(sh, k) == k \in sh.keys \/ HasRoom(sh)

Tracked(sh, k) == IF k \in sh.keys THEN sh ELSE Insert(sh, k)

(* The key's bucket, new or refilled, as has_tokens leaves it.             *)
Refilled(d, k, at) ==
  Refill(IF k \in table[d].keys THEN bucket[d][k] ELSE FullBucket(Burst[d], at),
         Rate[d], Burst[d], at)

Spend(r, d, k) ==
  /\ paid' = [paid EXCEPT ![r] = @ \cup {d}]
  /\ spent' = [spent EXCEPT ![d][k] = @ + 1]

(* KeyRateLimiter::check, and RateLimiter::check of the trusted proxy      *)
(* limiter, which has no global bucket.                                    *)
KeyCheck(r, d) ==
  LET k == KeyOf[kind[r]][d]
  IN  /\ pc[r] = d
      /\ \/ /\ Rate[d] = 0 \/ k = NoKey
            /\ Pass(r, d)
            /\ UNCHANGED <<table, bucket, paid, spent>>
         \/ /\ Rate[d] > 0 /\ k # NoKey
            /\ \E at \in since[r]..clock :
                 LET sh == Room(d, k, at)
                     b  == Refilled(d, k, at)
                 IN  \/ /\ ~Fits(sh, k)
                        /\ table' = [table EXCEPT ![d] = sh]
                        /\ Deny(r)
                        /\ UNCHANGED <<bucket, paid, spent>>
                     \/ /\ Fits(sh, k)
                        /\ table' = [table EXCEPT ![d] = Tracked(sh, k)]
                        /\ IF b.tokens >= 1
                           THEN /\ bucket' = [bucket EXCEPT ![d][k] = Consume(b)]
                                /\ Spend(r, d, k)
                                /\ Pass(r, d)
                           ELSE /\ bucket' = [bucket EXCEPT ![d][k] = b]
                                /\ Deny(r)
                                /\ UNCHANGED <<paid, spent>>
      /\ UNCHANGED <<clock, arrivals, kind, lastSeen, siblings, globalBucket, globalSpent>>

(* The parent's tokens after this one, the oldest forgotten over the cap.  *)
Remember(q, token) ==
  IF token \in KeysIn(q) THEN q
  ELSE LET all == Append(q, token)
       IN  IF Len(all) > DistinctCap THEN Tail(all) ELSE all

(* ShortTokenSiblingRateLimiter::check: over budget, a parent with few     *)
(* distinct tokens still passes.                                           *)
SiblingCheck(r) ==
  LET d == "sibling"
      k == KeyOf[kind[r]][d]
  IN  /\ pc[r] = d
      /\ \/ /\ Rate[d] = 0 \/ k = NoKey
            /\ Pass(r, d)
            /\ UNCHANGED <<table, bucket, lastSeen, siblings, paid, spent>>
         \/ /\ Rate[d] > 0 /\ k # NoKey
            /\ \E at \in since[r]..clock :
                 LET sh == Room(d, k, at)
                     b  == Refilled(d, k, at)
                     q  == Remember(IF k \in table[d].keys THEN siblings[k] ELSE << >>,
                                    TokenOf[kind[r]])
                 IN  \/ /\ ~Fits(sh, k)
                        /\ table' = [table EXCEPT ![d] = sh]
                        /\ Deny(r)
                        /\ UNCHANGED <<bucket, lastSeen, siblings, paid, spent>>
                     \/ /\ Fits(sh, k)
                        /\ table' = [table EXCEPT ![d] = Tracked(sh, k)]
                        /\ lastSeen' = [lastSeen EXCEPT ![k] = at]
                        /\ siblings' = [siblings EXCEPT ![k] = q]
                        /\ IF b.tokens >= 1
                           THEN /\ bucket' = [bucket EXCEPT ![d][k] = Consume(b)]
                                /\ Spend(r, d, k)
                           ELSE /\ bucket' = [bucket EXCEPT ![d][k] = b]
                                /\ UNCHANGED <<paid, spent>>
                        /\ IF b.tokens >= 1 \/ Len(q) < Threshold
                           THEN Pass(r, d) ELSE Deny(r)
      /\ UNCHANGED <<clock, arrivals, kind, globalBucket, globalSpent>>

----------------------------------------------------------------------------
(* RateLimiter::check.                                                     *)

GlobalRefilled(at) == Refill(globalBucket, GlobalRate, GlobalBurst, at)

(* Read the clock and ask the global bucket, without taking a token.       *)
Probe(r) ==
  /\ pc[r] = "client"
  /\ \E at \in since[r]..clock :
       /\ globalBucket' = IF GlobalRate > 0 THEN GlobalRefilled(at) ELSE globalBucket
       /\ IF GlobalRate > 0 /\ GlobalRefilled(at).tokens < 1
          THEN Deny(r)
          ELSE /\ pc' = [pc EXCEPT ![r] = "admit"]
               /\ since' = [since EXCEPT ![r] = at]
  /\ UNCHANGED <<clock, arrivals, kind, table, bucket, lastSeen, siblings, paid, spent,
                 globalSpent>>

(* The client's bucket is checked, then the global token is taken, then    *)
(* the client's.  A client tracked for this request only is forgotten when *)
(* the global bucket refuses.                                              *)
Admit(r) ==
  LET k    == KeyOf[kind[r]]["client"]
      at   == since[r]
      on   == Rate["client"] > 0
      sh   == Room("client", k, at)
      b    == Refilled("client", k, at)
      g    == GlobalRefilled(at)
      open == GlobalRate > 0 => g.tokens >= 1
  IN  /\ pc[r] = "admit"
      /\ \/ /\ on /\ (~Fits(sh, k) \/ b.tokens < 1)
            /\ table' = [table EXCEPT !["client"] =
                           IF Fits(sh, k) THEN Tracked(sh, k) ELSE sh]
            /\ bucket' = IF Fits(sh, k) THEN [bucket EXCEPT !["client"][k] = b] ELSE bucket
            /\ Deny(r)
            /\ UNCHANGED <<globalBucket, globalSpent, paid, spent>>
         \/ /\ on => Fits(sh, k) /\ b.tokens >= 1
            /\ ~open
            /\ globalBucket' = g
            /\ table' = IF on THEN [table EXCEPT !["client"] = sh] ELSE table
            /\ bucket' = IF on /\ k \in sh.keys THEN [bucket EXCEPT !["client"][k] = b]
                         ELSE bucket
            /\ Deny(r)
            /\ UNCHANGED <<globalSpent, paid, spent>>
         \/ /\ on => Fits(sh, k) /\ b.tokens >= 1
            /\ open
            /\ IF GlobalRate > 0
               THEN globalBucket' = Consume(g) /\ globalSpent' = globalSpent + 1
               ELSE UNCHANGED <<globalBucket, globalSpent>>
            /\ paid' = [paid EXCEPT ![r] = @ \cup {d \in {"global"} : GlobalRate > 0}
                                             \cup {d \in {"client"} : on}]
            /\ IF on
               THEN /\ table' = [table EXCEPT !["client"] = Tracked(sh, k)]
                    /\ bucket' = [bucket EXCEPT !["client"][k] = Consume(b)]
                    /\ spent' = [spent EXCEPT !["client"][k] = @ + 1]
               ELSE UNCHANGED <<table, bucket, spent>>
            /\ Pass(r, "client")
      /\ UNCHANGED <<clock, arrivals, kind, lastSeen, siblings>>

----------------------------------------------------------------------------
Arrive(r, kd) ==
  /\ pc[r] \in {"idle", "admitted", "denied"}
  /\ arrivals < MaxArrivals
  /\ arrivals' = arrivals + 1
  /\ kind' = [kind EXCEPT ![r] = kd]
  /\ pc' = [pc EXCEPT ![r] = "signature"]
  /\ since' = [since EXCEPT ![r] = clock]
  /\ paid' = [paid EXCEPT ![r] = {}]
  /\ UNCHANGED <<clock, table, bucket, lastSeen, siblings, globalBucket, spent,
                 globalSpent>>

Checking(r) == pc[r] \notin {"idle", "admitted", "denied"}

(* Time passes, but no request is checked for longer than MaxDelay.        *)
Tick ==
  /\ clock < MaxClock
  /\ \A r \in Requests : Checking(r) => clock - since[r] < MaxDelay
  /\ clock' = clock + 1
  /\ UNCHANGED <<arrivals, kind, pc, since, table, bucket, lastSeen, siblings, globalBucket,
                 paid, spent, globalSpent>>

Init ==
  /\ clock = 0
  /\ arrivals = 0
  /\ kind = [r \in Requests |-> CHOOSE kd \in Kinds : TRUE]
  /\ pc = [r \in Requests |-> "idle"]
  /\ since = [r \in Requests |-> 0]
  /\ table = [d \in Dims |-> [keys |-> {}, order |-> << >>]]
  /\ bucket = [d \in Dims |-> [k \in Keys |-> FullBucket(Burst[d], 0)]]
  /\ lastSeen = [k \in Keys |-> 0]
  /\ siblings = [k \in Keys |-> << >>]
  /\ globalBucket = FullBucket(GlobalBurst, 0)
  /\ paid = [r \in Requests |-> {}]
  /\ spent = [d \in Dims |-> [k \in Keys |-> 0]]
  /\ globalSpent = 0

Next ==
  \/ \E r \in Requests :
       \/ \E kd \in Kinds : Arrive(r, kd)
       \/ \E d \in {"signature", "path_shape", "proxy"} : KeyCheck(r, d)
       \/ SiblingCheck(r)
       \/ Probe(r)
       \/ Admit(r)
  \/ Tick

Spec == Init /\ [][Next]_vars

----------------------------------------------------------------------------
TypeOK ==
  /\ clock \in 0..MaxClock
  /\ arrivals \in 0..MaxArrivals
  /\ kind \in [Requests -> Kinds]
  /\ pc \in [Requests -> Dims \cup {"idle", "admit", "admitted", "denied"}]
  /\ since \in [Requests -> 0..MaxClock]
  /\ table \in [Dims -> LimiterShard]
  /\ bucket \in [Dims -> [Keys -> [tokens : Nat, last : Nat]]]
  /\ \A d \in Dims : bucket[d] \in [Keys -> Bucket(Burst[d])]
  /\ lastSeen \in [Keys -> 0..MaxClock]
  /\ siblings \in [Keys -> Seq(Tokens)]
  /\ globalBucket \in Bucket(GlobalBurst)
  /\ paid \in [Requests -> SUBSET (Dims \cup {"global"})]
  /\ spent \in [Dims -> [Keys -> Nat]]
  /\ globalSpent \in Nat

(* The limiters whose buckets are full again after the idle time. With the *)
(* other settings, which config.rs accepts, eviction renews the burst.     *)
Refilling == {d \in Dims : Rate[d] > 0 => Burst[d] <= Rate[d] * (IdleTicks - 2 * MaxDelay)}

(* signature_rps, global_rps and the others, when a burst refills within   *)
(* the idle time: the tokens ever taken for one key stay within the burst  *)
(* and the elapsed time, although its bucket is forgotten and made anew,   *)
(* full, when the shard evicts it; and so do those of the global bucket,   *)
(* which is asked first and charged later.                                 *)
RateBound ==
  /\ \A d \in Refilling, k \in Keys : spent[d][k] <= Burst[d] + Rate[d] * clock
  /\ globalSpent <= GlobalBurst + GlobalRate * clock

(* docs/ARCHITECTURE.md: "A request denied by one rate dimension does not  *)
(* consume tokens from another dimension".                                 *)
DeniedPaysNothing == \A r \in Requests : pc[r] = "denied" => paid[r] = {}
=============================================================================

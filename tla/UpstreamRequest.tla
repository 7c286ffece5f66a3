-------------------------- MODULE UpstreamRequest --------------------------
(***************************************************************************)
(* The origin-bound half of handle_http in src/http_proxy.rs, from the     *)
(* circuit check of a request to the end of its response body: the passive *)
(* upstream failure circuit, the two in-flight permits, and what the       *)
(* origin's answer does to both.                                           *)
(*                                                                         *)
(* The request limiters are used by their promise, PermitPool, which       *)
(* PermitLimiter is shown to implement.  The circuit keeps its entries in  *)
(* a shard like the limiters'; one shard is modelled, and the key of an    *)
(* entry is a path shape.                                                  *)
(***************************************************************************)
EXTENDS LimiterCore

CONSTANTS
  Requests,       \* request slots
  ShapeOf,        \* the path shape of a slot's requests, in Keys
  ClientOf,       \* the resolved client of a slot's requests
  PeerOf,         \* the trusted proxy they come through, NoPeer for a direct client
  NoPeer,
  Threshold,      \* upstream_failure_threshold, positive by validation
  OpenTicks,      \* upstream_failure_open_ms
  MaxInFlight, MaxInFlightPerIp,  \* caps of the request limiter, 0 is unlimited
  MaxPerProxy,    \* trusted_proxy_max_in_flight_requests
  MaxDelay,       \* bound on the time between reading now_ms and the shard lock
  MaxArrivals     \* bound on the requests

ASSUME UpstreamAssumption ==
  /\ ShapeOf \in [Requests -> Keys]
  /\ Threshold \in Nat \ {0} /\ OpenTicks \in Nat \ {0}
  /\ MaxInFlight \in Nat /\ MaxInFlightPerIp \in Nat /\ MaxPerProxy \in Nat
  /\ MaxDelay \in Nat /\ MaxArrivals \in Nat

VARIABLES
  clock,
  at,         \* where each request is
  since,      \* the earliest instant record_failure may have read
  shard,      \* the circuit's tracked path shapes
  failures,   \* consecutive_failures, 0 for a shape that is not tracked
  until,      \* open_until_ms, 0 for a shape that is not tracked
  clientHeld, \* requests with a permit of request_limiter
  proxyHeld,  \* requests with a permit of trusted_proxy_request_limiter
  arrivals,
  streak      \* history: upstream failures since the last success, by shape

circuit == <<shard, failures, until>>
permits == <<clientHeld, proxyHeld>>
vars == <<clock, at, since, circuit, permits, arrivals, streak>>

ClientPool == INSTANCE PermitPool WITH Tasks <- Requests, KeyOf <- ClientOf,
  MaxConnections <- MaxInFlight, MaxPerIp <- MaxInFlightPerIp, held <- clientHeld

ProxyPool == INSTANCE PermitPool WITH Tasks <- Requests, KeyOf <- PeerOf,
  MaxConnections <- 0, MaxPerIp <- MaxPerProxy, held <- proxyHeld

Goto(r, loc) == at' = [at EXCEPT ![r] = loc]

Open(s) == clock < until[s]

(* Every return of handle_http drops the permits it holds.                 *)
Return(r) ==
  /\ Goto(r, "idle")
  /\ clientHeld' = clientHeld \ {r}
  /\ proxyHeld' = proxyHeld \ {r}

----------------------------------------------------------------------------
(* The circuit.                                                            *)

\* Mutant: any entry may be evicted.
AnyShapes(now) == Keys

(* What ensure_upstream_circuit_shard_capacity may evict.                  *)
ClosedShapes(now) == {s \in Keys : now >= until[s]}

Room(now) == IF HasRoom(shard) THEN shard ELSE EvictFirst(shard, ClosedShapes(now))

(* record_failure with the instant now, in the shard's lock.               *)
Fail(s, now) ==
  LET room    == IF s \in shard.keys THEN shard ELSE Room(now)
      tracked == s \in shard.keys \/ HasRoom(room)
      opens   == failures[s] + 1 >= Threshold
      keep(f) == [x \in Keys |-> IF x \in room.keys THEN f[x] ELSE 0]
  IN  IF tracked
      THEN /\ shard' = IF s \in shard.keys THEN shard ELSE Insert(room, s)
           /\ failures' = [keep(failures) EXCEPT ![s] = IF opens THEN 0 ELSE failures[s] + 1]
           /\ until' = [keep(until) EXCEPT ![s] = IF opens THEN now + OpenTicks ELSE until[s]]
      ELSE /\ shard' = room
           /\ UNCHANGED <<failures, until>>

(* record_success.                                                         *)
Succeed(s) ==
  /\ failures' = [failures EXCEPT ![s] = 0]
  /\ until' = [until EXCEPT ![s] = 0]
  /\ UNCHANGED shard

----------------------------------------------------------------------------
(* The request.                                                            *)

Arrive(r) ==
  /\ at[r] = "idle" /\ arrivals < MaxArrivals
  /\ arrivals' = arrivals + 1
  /\ Goto(r, "check")
  /\ UNCHANGED <<clock, since, circuit, permits, streak>>

(* is_open sheds the request; otherwise rewrite_request may still refuse   *)
(* it.                                                                     *)
CheckCircuit(r) ==
  /\ at[r] = "check"
  /\ \/ Goto(r, "idle")
     \/ ~Open(ShapeOf[r]) /\ Goto(r, "proxy")
  /\ UNCHANGED <<clock, since, circuit, permits, arrivals, streak>>

(* maybe_trusted_proxy_request_permit; a direct client needs none.         *)
AcquireProxy(r) ==
  /\ at[r] = "proxy"
  /\ \/ PeerOf[r] = NoPeer /\ Goto(r, "client") /\ UNCHANGED proxyHeld
     \/ PeerOf[r] # NoPeer /\ ProxyPool!Grant(r) /\ Goto(r, "client")
     \/ PeerOf[r] # NoPeer /\ Goto(r, "idle") /\ UNCHANGED proxyHeld
  /\ UNCHANGED <<clock, since, circuit, clientHeld, arrivals, streak>>

\* Mutant: a request the second limiter refuses keeps the first permit.
AcquireClientLeaks(r) ==
  /\ at[r] = "client"
  /\ \/ ClientPool!Grant(r) /\ Goto(r, "await")
     \/ Goto(r, "idle") /\ UNCHANGED clientHeld
  /\ UNCHANGED <<clock, since, circuit, proxyHeld, arrivals, streak>>

(* request_limiter.try_acquire.                                            *)
AcquireClient(r) ==
  /\ at[r] = "client"
  /\ \/ ClientPool!Grant(r) /\ Goto(r, "await") /\ UNCHANGED proxyHeld
     \/ Return(r)
  /\ UNCHANGED <<clock, since, circuit, arrivals, streak>>

(* client.request under its timeout: the origin's headers arrive and pass  *)
(* the checks, or fail them, or the connection fails, or time is up.       *)
Answered(r) ==
  /\ at[r] = "await"
  /\ \E loc \in {"succeeded", "failed"} : Goto(r, loc)
  /\ since' = [since EXCEPT ![r] = clock]
  /\ UNCHANGED <<clock, circuit, permits, arrivals, streak>>

(* The request body violates a body guard, or the client's connection ends *)
(* and handle_http is dropped at its await.                                *)
ClientFault(r) ==
  /\ at[r] = "await"
  /\ Return(r)
  /\ UNCHANGED <<clock, since, circuit, arrivals, streak>>

RecordFailure(r) ==
  /\ at[r] = "failed"
  /\ \E now \in since[r]..clock : Fail(ShapeOf[r], now)
  /\ streak' = [streak EXCEPT ![ShapeOf[r]] = @ + 1]
  /\ Return(r)
  /\ since' = [since EXCEPT ![r] = 0]
  /\ UNCHANGED <<clock, arrivals>>

\* Mutant: the permits are dropped with the response headers.
RecordSuccessDropsPermits(r) ==
  /\ at[r] = "succeeded"
  /\ Succeed(ShapeOf[r])
  /\ streak' = [streak EXCEPT ![ShapeOf[r]] = 0]
  /\ Goto(r, "body")
  /\ since' = [since EXCEPT ![r] = 0]
  /\ clientHeld' = clientHeld \ {r} /\ proxyHeld' = proxyHeld \ {r}
  /\ UNCHANGED <<clock, arrivals>>

(* record_success; the permits move into the response body, a PermitBody.  *)
RecordSuccess(r) ==
  /\ at[r] = "succeeded"
  /\ Succeed(ShapeOf[r])
  /\ streak' = [streak EXCEPT ![ShapeOf[r]] = 0]
  /\ Goto(r, "body")
  /\ since' = [since EXCEPT ![r] = 0]
  /\ UNCHANGED <<clock, permits, arrivals>>

(* The response body ends, fails a guard of ResponseGuardBody, or is       *)
(* dropped with the client's connection.                                   *)
DropBody(r) ==
  /\ at[r] = "body"
  /\ Return(r)
  /\ UNCHANGED <<clock, since, circuit, arrivals, streak>>

Recording == {r \in Requests : at[r] \in {"succeeded", "failed"}}

Tick ==
  /\ clock < MaxClock
  /\ \A r \in Recording : clock - since[r] < MaxDelay
  /\ clock' = clock + 1
  /\ UNCHANGED <<at, since, circuit, permits, arrivals, streak>>

Init ==
  /\ clock = 0
  /\ at = [r \in Requests |-> "idle"] /\ since = [r \in Requests |-> 0]
  /\ shard = [keys |-> {}, order |-> << >>]
  /\ failures = [s \in Keys |-> 0] /\ until = [s \in Keys |-> 0]
  /\ ClientPool!Init /\ ProxyPool!Init
  /\ arrivals = 0
  /\ streak = [s \in Keys |-> 0]

Step(r) ==
  \/ CheckCircuit(r) \/ AcquireProxy(r) \/ AcquireClient(r)
  \/ Answered(r) \/ ClientFault(r)
  \/ RecordFailure(r) \/ RecordSuccess(r) \/ DropBody(r)

Next == Tick \/ \E r \in Requests : Arrive(r) \/ Step(r)

Spec == Init /\ [][Next]_vars

(* A request never stays where it is: upstream_timeout_ms ends the await,  *)
(* and the idle timeouts and size caps of the guards end a body.           *)
FairSpec == Spec /\ \A r \in Requests : WF_vars(Step(r))

----------------------------------------------------------------------------
Places == {"idle", "check", "proxy", "client", "await", "succeeded", "failed", "body"}

TypeOK ==
  /\ clock \in 0..MaxClock
  /\ at \in [Requests -> Places]
  /\ since \in [Requests -> 0..MaxClock]
  /\ shard \in [keys : SUBSET Keys, order : Seq(Keys)]
  /\ failures \in [Keys -> 0..(Threshold - 1)]
  /\ until \in [Keys -> 0..(MaxClock + OpenTicks)]
  /\ clientHeld \subseteq Requests /\ proxyHeld \subseteq Requests

(* "Circuit state preserves currently open entries under high-cardinality  *)
(* churn": only a success of the same shape closes an open circuit.  Late  *)
(* failures that read now_ms before they waited for the lock can move its  *)
(* end back, by that wait at most.                                         *)
OpenKept ==
  [][\A s \in Keys : Open(s) /\ streak'[s] # 0 => until'[s] >= until[s] - MaxDelay]_vars

(* "The permit is held until the upstream response body is dropped": what  *)
(* the origin is working on or still sending never exceeds the caps, for   *)
(* all clients, for one client and for one trusted proxy.                  *)
AtOrigin == {r \in Requests : at[r] \in {"await", "succeeded", "failed", "body"}}

OriginBounded ==
  /\ MaxInFlight > 0 => Cardinality(AtOrigin) <= MaxInFlight
  /\ \A r \in AtOrigin :
       /\ MaxInFlightPerIp > 0 =>
            Cardinality({q \in AtOrigin : ClientOf[q] = ClientOf[r]}) <= MaxInFlightPerIp
       /\ MaxPerProxy > 0 /\ PeerOf[r] # NoPeer =>
            Cardinality({q \in AtOrigin : PeerOf[q] = PeerOf[r]}) <= MaxPerProxy

(* Whatever becomes of the requests, all permits come back.                *)
PermitsReturned == <>[](clientHeld = {} /\ proxyHeld = {})
=============================================================================

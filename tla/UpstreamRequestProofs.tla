----------------------- MODULE UpstreamRequestProofs -----------------------
(***************************************************************************)
(* For every set of requests, clients, proxies and path shapes and every   *)
(* setting of the caps: handle_http uses both in-flight limiters as their  *)
(* promise allows, what is at the origin stays within the caps, and only a *)
(* success closes an open circuit (UpstreamRequest).                       *)
(***************************************************************************)
EXTENDS UpstreamRequest, LimiterCoreProofs

Origin == {"await", "succeeded", "failed", "body"}

(* A request is with the origin exactly while it has a client permit, and  *)
(* has its proxy's permit from one step earlier on.                        *)
PermitInv ==
  /\ clientHeld = AtOrigin
  /\ proxyHeld = {r \in Requests : PeerOf[r] # NoPeer /\ at[r] \in Origin \cup {"client"}}

(* A set of requests within a cap for all and a cap for each key.          *)
Capped(S, key, all, one) ==
  /\ IsFiniteSet(S)
  /\ all > 0 => Cardinality(S) <= all
  /\ one > 0 => \A r \in Requests : Cardinality({q \in S : key[q] = key[r]}) <= one

CapInv ==
  /\ Capped(clientHeld, ClientOf, MaxInFlight, MaxInFlightPerIp)
  /\ Capped(proxyHeld, PeerOf, 0, MaxPerProxy)

(* The instant a failure is recorded with is not older than MaxDelay.      *)
DelayInv == \A r \in Recording : since[r] <= clock /\ clock - since[r] <= MaxDelay

(* A circuit is open only for a tracked shape, and not for longer than     *)
(* upstream_failure_open_ms from now.                                      *)
CircuitInv ==
  /\ shard \in LimiterShard /\ OrderMatches(shard) /\ Cardinality(shard.keys) <= Capacity
  /\ \A s \in Keys : until[s] <= clock + OpenTicks /\ (s \notin shard.keys => until[s] = 0)

IInv ==
  /\ TypeOK /\ streak \in [Keys -> Nat]
  /\ PermitInv /\ CapInv /\ DelayInv /\ CircuitInv

----------------------------------------------------------------------------
(* A pool within its caps that grants below them stays within them.        *)
LEMMA GrantCapped ==
  ASSUME NEW S \in SUBSET Requests, NEW key, NEW all \in Nat, NEW one \in Nat,
         Capped(S, key, all, one), NEW r \in Requests, r \notin S,
         all > 0 => Cardinality(S) < all,
         one > 0 => Cardinality({q \in S : key[q] = key[r]}) < one
  PROVE  Capped(S \cup {r}, key, all, one)
<1>1. IsFiniteSet(S) BY Zenon DEF Capped
<1>2. /\ IsFiniteSet(S \cup {r})
      /\ Cardinality(S \cup {r}) = Cardinality(S) + 1 /\ Cardinality(S) \in Nat
  BY <1>1, FS_AddElement, FS_CardinalityType, Zenon
<1>3. ASSUME one > 0, NEW p \in Requests
      PROVE  Cardinality({q \in S \cup {r} : key[q] = key[p]}) <= one
  <2> DEFINE H == {q \in S : key[q] = key[p]}
  <2>1. Cardinality(H) <= one BY <1>3, Zenon DEF Capped
  <2>2. CASE key[r] = key[p]
    <3>1. {q \in S \cup {r} : key[q] = key[p]} = H \cup {r} BY <2>2, Zenon
    <3>2. IsFiniteSet(H) /\ r \notin H BY <1>1, FS_Subset, Zenon
    <3>3. Cardinality(H \cup {r}) = Cardinality(H) + 1 /\ Cardinality(H) \in Nat
      BY <3>2, FS_AddElement, FS_CardinalityType, Zenon
    <3>4. Cardinality(H) < one BY <1>3, <2>2, Zenon
    <3> HIDE DEF H
    <3>5. Cardinality(H \cup {r}) <= one BY <3>3, <3>4
    <3> QED BY <3>1, <3>5, Zenon
  <2>3. CASE key[r] # key[p]
    <3>1. {q \in S \cup {r} : key[q] = key[p]} = H BY <2>3, Zenon
    <3> QED BY <2>1, <3>1, Zenon
  <2> QED BY <2>2, <2>3, Zenon
<1>4. all > 0 => Cardinality(S \cup {r}) <= all BY <1>2
<1> QED BY <1>2, <1>3, <1>4, Zenon DEF Capped

(* A returned permit keeps the pool within its caps.                       *)
LEMMA ReturnCapped ==
  ASSUME NEW S \in SUBSET Requests, NEW key, NEW all \in Nat, NEW one \in Nat,
         Capped(S, key, all, one), NEW r
  PROVE  Capped(S \ {r}, key, all, one)
<1>1. /\ IsFiniteSet(S) /\ IsFiniteSet(S \ {r})
      /\ Cardinality(S \ {r}) <= Cardinality(S)
      /\ Cardinality(S) \in Nat /\ Cardinality(S \ {r}) \in Nat
  BY FS_Subset, FS_CardinalityType, Zenon DEF Capped
<1>2. ASSUME one > 0, NEW p \in Requests
      PROVE  Cardinality({q \in S \ {r} : key[q] = key[p]}) <= one
  <2> DEFINE H == {q \in S : key[q] = key[p]}
             G == {q \in S \ {r} : key[q] = key[p]}
  <2>1. IsFiniteSet(H) /\ G \subseteq H /\ Cardinality(H) <= one
    BY <1>1, <1>2, FS_Subset, Zenon DEF Capped
  <2> HIDE DEF H, G
  <2>2. Cardinality(G) <= Cardinality(H) /\ Cardinality(H) \in Nat /\ Cardinality(G) \in Nat
    BY <2>1, FS_Subset, FS_CardinalityType, Zenon
  <2>3. Cardinality(G) <= one BY <2>1, <2>2
  <2> QED BY <2>3, Zenon DEF G
<1>3. all > 0 => Cardinality(S \ {r}) <= all BY <1>1 DEF Capped
<1> QED BY <1>1, <1>2, <1>3, Zenon DEF Capped

----------------------------------------------------------------------------
(* The shard after making room: only a closed circuit is forgotten, and    *)
(* one that was forgotten leaves room.                                     *)
LEMMA RoomProperties ==
  ASSUME IInv, NEW now, NEW room, room = Room(now)
  PROVE  /\ room \in LimiterShard /\ OrderMatches(room)
         /\ Cardinality(room.keys) <= Capacity
         /\ room.keys \subseteq shard.keys
         /\ \A s \in shard.keys \ room.keys : now >= until[s]
         /\ ~HasRoom(room) => room.keys = shard.keys
<1> USE DEF IInv, CircuitInv
<1>1. CASE HasRoom(shard)
  BY <1>1, Zenon DEF Room
<1>2. CASE ~HasRoom(shard)
  <2>1. room = EvictFirst(shard, ClosedShapes(now)) BY <1>2, Zenon DEF Room
  <2>2. /\ room \in LimiterShard /\ OrderMatches(room)
        /\ room.keys \subseteq shard.keys
        /\ shard.keys \ room.keys \subseteq ClosedShapes(now)
    BY <2>1, EvictFirstProperties, Zenon
  <2>3. /\ IsFiniteSet(shard.keys) /\ Cardinality(shard.keys) \in Nat
        /\ IsFiniteSet(room.keys) /\ Cardinality(room.keys) \in Nat
        /\ Cardinality(room.keys) <= Cardinality(shard.keys)
        /\ Cardinality(room.keys) = Cardinality(shard.keys) => room.keys = shard.keys
    <3>1. IsFiniteSet(shard.keys)
      BY KeysInFinite, Zenon DEF OrderMatches, LimiterShard
    <3> QED BY <2>2, <3>1, FS_Subset, FS_CardinalityType, Zenon
  <2>4. Cardinality(room.keys) <= Capacity /\ (~HasRoom(room) => room.keys = shard.keys)
    BY <1>2, <2>3, CoreAssumption DEF HasRoom
  <2>5. \A s \in shard.keys \ room.keys : now >= until[s]
    BY <2>2, Zenon DEF ClosedShapes
  <2> QED BY <2>2, <2>4, <2>5, Zenon
<1> QED BY <1>1, <1>2, Zenon

(* record_failure with an instant that is late by MaxDelay at most.        *)
LEMMA FailProperties ==
  ASSUME IInv, NEW s \in Keys, NEW now \in 0..clock, clock - now <= MaxDelay, Fail(s, now)
  PROVE  /\ shard' \in LimiterShard /\ OrderMatches(shard')
         /\ Cardinality(shard'.keys) <= Capacity
         /\ failures' \in [Keys -> 0..(Threshold - 1)]
         /\ until' \in [Keys -> 0..(MaxClock + OpenTicks)]
         /\ \A x \in Keys : /\ until'[x] <= clock + OpenTicks
                            /\ x \notin shard'.keys => until'[x] = 0
                            /\ Open(x) => until'[x] >= until[x] - MaxDelay
<1> DEFINE room == IF s \in shard.keys THEN shard ELSE Room(now)
           opens == failures[s] + 1 >= Threshold
           keep(f) == [x \in Keys |-> IF x \in room.keys THEN f[x] ELSE 0]
<1>0. /\ clock \in Nat /\ clock <= MaxClock /\ now \in Nat /\ now <= clock
      /\ Threshold \in Nat \ {0} /\ OpenTicks \in Nat \ {0} /\ MaxDelay \in Nat
      /\ MaxClock \in Nat
      /\ failures \in [Keys -> 0..(Threshold - 1)]
      /\ until \in [Keys -> 0..(MaxClock + OpenTicks)]
      /\ \A x \in Keys : until[x] <= clock + OpenTicks /\ (x \notin shard.keys => until[x] = 0)
  BY UpstreamAssumption, CoreAssumption DEF IInv, TypeOK, CircuitInv
<1>1. /\ room \in LimiterShard /\ OrderMatches(room) /\ Cardinality(room.keys) <= Capacity
      /\ room.keys \subseteq shard.keys
      /\ \A x \in shard.keys \ room.keys : now >= until[x]
      /\ ~HasRoom(room) => room.keys = shard.keys
      /\ s \in shard.keys => s \in room.keys
  <2>1. CASE s \in shard.keys BY <2>1, Zenon DEF IInv, CircuitInv
  <2>2. CASE s \notin shard.keys BY <2>2, RoomProperties, Zenon
  <2> QED BY <2>1, <2>2, Zenon
<1>2. CASE s \in shard.keys \/ HasRoom(room)
  <2>1. /\ shard' = IF s \in shard.keys THEN shard ELSE Insert(room, s)
        /\ failures' = [keep(failures) EXCEPT ![s] = IF opens THEN 0 ELSE failures[s] + 1]
        /\ until' = [keep(until) EXCEPT ![s] = IF opens THEN now + OpenTicks ELSE until[s]]
    BY <1>2, Zenon DEF Fail
  <2>2. /\ shard' \in LimiterShard /\ OrderMatches(shard')
        /\ Cardinality(shard'.keys) <= Capacity
        /\ shard'.keys = room.keys \cup {s}
    <3>1. CASE s \in shard.keys
      BY <3>1, <2>1, <1>1, Zenon
    <3>2. CASE s \notin shard.keys
      <4>1. shard' = Insert(room, s) /\ s \notin room.keys /\ HasRoom(room)
        BY <3>2, <2>1, <1>1, <1>2, Zenon
      <4> HIDE DEF room
      <4>2. /\ shard' \in LimiterShard /\ OrderMatches(shard')
            /\ Cardinality(shard'.keys) <= Capacity
        BY <4>1, <1>1, InsertProperties, Zenon
      <4> QED BY <4>1, <4>2, Zenon DEF Insert
    <3> QED BY <3>1, <3>2, Zenon
  <2> HIDE DEF room
  <2>3. /\ failures' \in [Keys -> 0..(Threshold - 1)]
        /\ until' \in [Keys -> 0..(MaxClock + OpenTicks)]
    BY <2>1, <1>0
  <2>4. ASSUME NEW x \in Keys
        PROVE  /\ until'[x] <= clock + OpenTicks
               /\ x \notin shard'.keys => until'[x] = 0
               /\ Open(x) => until'[x] >= until[x] - MaxDelay
    <3>1. CASE x = s
      BY <3>1, <2>1, <2>2, <1>0
    <3>2. CASE x # s /\ x \in room.keys
      BY <3>2, <2>1, <2>2, <1>0
    <3>3. CASE x # s /\ x \notin room.keys
      <4>1. until'[x] = 0 BY <3>3, <2>1, Zenon
      <4>2. ~Open(x) BY <3>3, <1>0, <1>1 DEF Open
      <4> QED BY <4>1, <4>2, <1>0
    <3> QED BY <3>1, <3>2, <3>3, Zenon
  <2> QED BY <2>2, <2>3, <2>4, Zenon
<1>3. CASE ~(s \in shard.keys \/ HasRoom(room))
  <2>1. shard' = room /\ UNCHANGED <<failures, until>> BY <1>3, Zenon DEF Fail
  <2>2. shard'.keys = shard.keys BY <2>1, <1>3, <1>1, Zenon
  <2> QED BY <2>1, <2>2, <1>0, <1>1
<1> QED BY <1>2, <1>3, Zenon

----------------------------------------------------------------------------
LEMMA InitInv == Init => IInv
<1> SUFFICES ASSUME Init PROVE IInv
  BY Zenon
<1> USE DEF Init
<1>1. TypeOK /\ streak \in [Keys -> Nat]
  BY CoreAssumption, UpstreamAssumption
     DEF TypeOK, Places, ClientPool!Init, ProxyPool!Init
<1>2. PermitInv
  BY Zenon DEF PermitInv, AtOrigin, Origin, ClientPool!Init, ProxyPool!Init
<1>3. CapInv
  <2>1. \A key : \A r \in Requests : {q \in {} : key[q] = key[r]} = {}
    BY Zenon
  <2>2. IsFiniteSet({}) /\ Cardinality({}) = 0
    BY FS_EmptySet, Zenon
  <2> QED
    BY <2>1, <2>2, UpstreamAssumption DEF CapInv, Capped, ClientPool!Init, ProxyPool!Init
<1>4. DelayInv
  BY Zenon DEF DelayInv, Recording
<1>5. CircuitInv
  <2>1. Cardinality(shard.keys) = 0 BY FS_EmptySet, Zenon
  <2> QED BY <2>1, CoreAssumption, UpstreamAssumption
             DEF CircuitInv, LimiterShard, OrderMatches, KeysIn, Distinct
<1> QED BY <1>1, <1>2, <1>3, <1>4, <1>5, Zenon DEF IInv

(* The pools count as the proxy does.                                      *)
LEMMA PoolCardinality ==
  ASSUME NEW S
  PROVE  /\ ClientPool!Cardinality(S) = Cardinality(S)
         /\ ProxyPool!Cardinality(S) = Cardinality(S)
BY Zenon DEF ClientPool!Cardinality, ProxyPool!Cardinality, Cardinality

(* The permits move with the request, and every return drops them.         *)
LEMMA PermitStep ==
  ASSUME IInv, NEW r \in Requests, Arrive(r) \/ Step(r)
  PROVE  PermitInv' /\ CapInv'
<1>0. /\ at \in [Requests -> Places]
      /\ clientHeld \in SUBSET Requests /\ proxyHeld \in SUBSET Requests
      /\ MaxInFlight \in Nat /\ MaxInFlightPerIp \in Nat /\ MaxPerProxy \in Nat
      /\ PermitInv
      /\ Capped(clientHeld, ClientOf, MaxInFlight, MaxInFlightPerIp)
      /\ Capped(proxyHeld, PeerOf, 0, MaxPerProxy)
  BY UpstreamAssumption, Zenon DEF IInv, TypeOK, CapInv
<1>1. CASE UNCHANGED permits /\ PermitInv'
  BY <1>0, <1>1, Zenon DEF CapInv, permits
<1>2. CASE Return(r) /\ PermitInv'
  <2>1. clientHeld' = clientHeld \ {r} /\ proxyHeld' = proxyHeld \ {r}
    BY <1>2, Zenon DEF Return
  <2>2. Capped(clientHeld', ClientOf, MaxInFlight, MaxInFlightPerIp)
    BY <1>0, <2>1, ReturnCapped, Zenon
  <2>3. Capped(proxyHeld', PeerOf, 0, MaxPerProxy)
    BY <1>0, <2>1, ReturnCapped, Zenon
  <2> QED BY <1>2, <2>2, <2>3, Zenon DEF CapInv
<1>3. CASE Arrive(r)
  <2>1. PermitInv' BY <1>0, <1>3, Zenon DEF PermitInv, AtOrigin, Origin, Arrive, Goto, permits
  <2> QED BY <1>3, <2>1, <1>1, Zenon DEF Arrive
<1>4. CASE CheckCircuit(r)
  <2>1. PermitInv' BY <1>0, <1>4, Zenon DEF PermitInv, AtOrigin, Origin, CheckCircuit, Goto, permits
  <2> QED BY <1>4, <2>1, <1>1, Zenon DEF CheckCircuit
<1>5. CASE AcquireProxy(r)
  <2>1. PermitInv'
    BY <1>0, <1>5 DEF PermitInv, AtOrigin, Origin, AcquireProxy, Goto, ProxyPool!Grant
  <2>2. CASE UNCHANGED proxyHeld
    BY <1>5, <2>1, <2>2, <1>1, Zenon DEF AcquireProxy, permits
  <2>3. CASE ProxyPool!Grant(r)
    <3>1. /\ r \notin proxyHeld /\ proxyHeld' = proxyHeld \cup {r}
          /\ MaxPerProxy > 0 =>
               Cardinality({q \in proxyHeld : PeerOf[q] = PeerOf[r]}) < MaxPerProxy
      BY <2>3, PoolCardinality, Zenon DEF ProxyPool!Grant, ProxyPool!HeldBy
    <3>2. 0 \in Nat /\ (0 > 0 => Cardinality(proxyHeld) < 0)
      OBVIOUS
    <3>3. Capped(proxyHeld \cup {r}, PeerOf, 0, MaxPerProxy)
      BY <1>0, <3>1, <3>2, GrantCapped, Zenon
    <3> QED BY <1>0, <1>5, <2>1, <3>1, <3>3, Zenon DEF AcquireProxy, CapInv
  <2> QED BY <1>5, <2>2, <2>3, Zenon DEF AcquireProxy
<1>6. CASE AcquireClient(r)
  <2>1. PermitInv'
    BY <1>0, <1>6 DEF PermitInv, AtOrigin, Origin, AcquireClient, Goto, Return, ClientPool!Grant
  <2>2. CASE ClientPool!Grant(r) /\ UNCHANGED proxyHeld
    <3>1. /\ r \notin clientHeld /\ clientHeld' = clientHeld \cup {r}
          /\ MaxInFlight > 0 => Cardinality(clientHeld) < MaxInFlight
          /\ MaxInFlightPerIp > 0 =>
               Cardinality({q \in clientHeld : ClientOf[q] = ClientOf[r]}) < MaxInFlightPerIp
      BY <2>2, PoolCardinality, Zenon DEF ClientPool!Grant, ClientPool!HeldBy
    <3>2. Capped(clientHeld', ClientOf, MaxInFlight, MaxInFlightPerIp)
      BY <1>0, <3>1, GrantCapped, Zenon
    <3> QED BY <1>0, <1>6, <2>1, <2>2, <3>2, Zenon DEF CapInv
  <2> QED BY <1>6, <2>1, <2>2, <1>2, Zenon DEF AcquireClient
<1>7. CASE Answered(r)
  <2>1. PermitInv' BY <1>0, <1>7, Zenon DEF PermitInv, AtOrigin, Origin, Answered, Goto, permits
  <2> QED BY <1>7, <2>1, <1>1, Zenon DEF Answered
<1>8. CASE ClientFault(r)
  <2>1. PermitInv' BY <1>0, <1>8, Zenon DEF PermitInv, AtOrigin, Origin, ClientFault, Goto, Return
  <2> QED BY <1>8, <2>1, <1>2, Zenon DEF ClientFault
<1>9. CASE RecordFailure(r)
  <2>1. PermitInv' BY <1>0, <1>9, Zenon DEF PermitInv, AtOrigin, Origin, RecordFailure, Goto, Return
  <2> QED BY <1>9, <2>1, <1>2, Zenon DEF RecordFailure
<1>10. CASE RecordSuccess(r)
  <2>1. PermitInv' BY <1>0, <1>10, Zenon DEF PermitInv, AtOrigin, Origin, RecordSuccess, Goto, permits
  <2> QED BY <1>10, <2>1, <1>1, Zenon DEF RecordSuccess
<1>11. CASE DropBody(r)
  <2>1. PermitInv' BY <1>0, <1>11, Zenon DEF PermitInv, AtOrigin, Origin, DropBody, Goto, Return
  <2> QED BY <1>11, <2>1, <1>2, Zenon DEF DropBody
<1> QED BY <1>3, <1>4, <1>5, <1>6, <1>7, <1>8, <1>9, <1>10, <1>11, Zenon DEF Step

(* The circuit changes with the two recordings only.                       *)
LEMMA CircuitStep ==
  ASSUME IInv, NEW r \in Requests, Arrive(r) \/ Step(r)
  PROVE  /\ TypeOK' /\ streak' \in [Keys -> Nat]
         /\ CircuitInv' /\ DelayInv'
         /\ \A s \in Keys : Open(s) /\ streak'[s] # 0 => until'[s] >= until[s] - MaxDelay
<1> DEFINE KeepsOpen ==
      \A s \in Keys : Open(s) /\ streak'[s] # 0 => until'[s] >= until[s] - MaxDelay
<1>0. /\ TypeOK /\ streak \in [Keys -> Nat] /\ CircuitInv /\ DelayInv
      /\ ShapeOf[r] \in Keys /\ Threshold \in Nat \ {0} /\ MaxDelay \in Nat
      /\ MaxClock \in Nat /\ OpenTicks \in Nat
  BY UpstreamAssumption, CoreAssumption, Zenon DEF IInv
<1>1. clientHeld' \subseteq Requests /\ proxyHeld' \subseteq Requests
  BY PermitStep, Zenon DEF PermitInv, AtOrigin
<1>2. ASSUME UNCHANGED <<clock, circuit, streak>>,
             at' \in [Requests -> Places], since' \in [Requests -> 0..MaxClock], DelayInv'
      PROVE  TypeOK' /\ streak' \in [Keys -> Nat] /\ CircuitInv' /\ DelayInv' /\ KeepsOpen
  <2>1. until' = until /\ UNCHANGED <<clock, shard, failures, streak>>
    BY <1>2, Zenon DEF circuit
  <2>2. TypeOK' /\ CircuitInv' BY <2>1, <1>2, <1>1, <1>0, Zenon DEF TypeOK, CircuitInv
  <2>3. KeepsOpen BY <2>1, <1>0 DEF TypeOK
  <2> QED BY <2>1, <2>2, <2>3, <1>2, <1>0, Zenon
<1>3. CASE Arrive(r)
  <2>1. at' \in [Requests -> Places] /\ UNCHANGED since /\ Recording' = Recording
    BY <1>3, <1>0, Zenon DEF Arrive, Goto, TypeOK, Places, Recording
  <2>2. DelayInv' BY <1>0, <1>3, <2>1, Zenon DEF DelayInv, Arrive
  <2> QED BY <1>0, <1>2, <1>3, <2>1, <2>2, Zenon DEF Arrive, TypeOK
<1>4. CASE CheckCircuit(r) \/ AcquireProxy(r) \/ AcquireClient(r) \/ ClientFault(r) \/ DropBody(r)
  <2>1. /\ at' \in [Requests -> Places] /\ UNCHANGED <<since, clock, circuit, streak>>
        /\ Recording' \subseteq Recording
    BY <1>4, <1>0, Zenon DEF CheckCircuit, AcquireProxy, AcquireClient, ClientFault, DropBody,
         Return, Goto, TypeOK, Places, Recording
  <2>2. DelayInv' BY <1>0, <2>1, Zenon DEF DelayInv
  <2> QED BY <1>0, <1>2, <2>1, <2>2, Zenon DEF TypeOK
<1>5. CASE Answered(r)
  <2>1. /\ at' \in [Requests -> Places] /\ since' = [since EXCEPT ![r] = clock]
        /\ UNCHANGED <<clock, circuit, streak>> /\ Recording' = Recording \cup {r}
    BY <1>5, <1>0 DEF Answered, Goto, TypeOK, Places, Recording
  <2>2. DelayInv' BY <1>0, <2>1 DEF DelayInv, TypeOK, Recording
  <2> QED BY <1>0, <1>2, <2>1, <2>2, Zenon DEF TypeOK
<1>6. CASE RecordFailure(r) \/ RecordSuccess(r)
  <2>1. /\ at' \in [Requests -> Places] /\ since' = [since EXCEPT ![r] = 0]
        /\ UNCHANGED clock /\ Recording' = Recording \ {r} /\ r \in Recording
    BY <1>6, <1>0, Zenon DEF RecordFailure, RecordSuccess, Return, Goto, TypeOK, Places, Recording
  <2>2. DelayInv' BY <1>0, <2>1, Zenon DEF DelayInv, TypeOK, Recording
  <2>3. since' \in [Requests -> 0..MaxClock] /\ clock' \in 0..MaxClock
    BY <1>0, <2>1 DEF TypeOK
  <2>4. CASE RecordFailure(r)
    <3>1. PICK now \in since[r]..clock : Fail(ShapeOf[r], now)
      BY <2>4, Zenon DEF RecordFailure
    <3>2. now \in 0..clock /\ clock - now <= MaxDelay
      BY <1>0, <2>1, <3>1 DEF DelayInv, TypeOK
    <3>3. /\ shard' \in LimiterShard /\ OrderMatches(shard')
          /\ Cardinality(shard'.keys) <= Capacity
          /\ failures' \in [Keys -> 0..(Threshold - 1)]
          /\ until' \in [Keys -> 0..(MaxClock + OpenTicks)]
          /\ \A x \in Keys : /\ until'[x] <= clock + OpenTicks
                             /\ x \notin shard'.keys => until'[x] = 0
                             /\ Open(x) => until'[x] >= until[x] - MaxDelay
      BY <1>0, <3>1, <3>2, FailProperties, Zenon
    <3>4. streak' \in [Keys -> Nat] BY <1>0, <2>4 DEF RecordFailure
    <3>5. TypeOK' BY <1>1, <2>1, <2>3, <3>3, Zenon DEF TypeOK, LimiterShard
    <3>6. CircuitInv' BY <2>1, <3>3, Zenon DEF CircuitInv
    <3> QED BY <2>2, <3>3, <3>4, <3>5, <3>6, Zenon
  <2>5. CASE RecordSuccess(r)
    <3>1. /\ failures' = [failures EXCEPT ![ShapeOf[r]] = 0]
          /\ until' = [until EXCEPT ![ShapeOf[r]] = 0] /\ shard' = shard
          /\ streak' = [streak EXCEPT ![ShapeOf[r]] = 0]
      BY <2>5, Zenon DEF RecordSuccess, Succeed
    <3>2. streak' \in [Keys -> Nat] BY <1>0, <3>1, Zenon
    <3>3. TypeOK' BY <1>0, <1>1, <2>1, <2>3, <3>1 DEF TypeOK
    <3>4. CircuitInv' BY <1>0, <2>1, <3>1 DEF CircuitInv, TypeOK
    <3>5. KeepsOpen BY <1>0, <3>1 DEF TypeOK
    <3> QED BY <2>2, <3>2, <3>3, <3>4, <3>5, Zenon
  <2> QED BY <1>6, <2>4, <2>5, Zenon
<1> QED BY <1>3, <1>4, <1>5, <1>6, Zenon DEF Step

LEMMA TickInv ==
  ASSUME IInv, Tick
  PROVE  IInv'
<1>1. /\ clock \in Nat /\ MaxClock \in Nat /\ clock < MaxClock /\ clock' = clock + 1
      /\ OpenTicks \in Nat /\ MaxDelay \in Nat
      /\ \A r \in Recording : clock - since[r] < MaxDelay
      /\ UNCHANGED <<at, since, circuit, permits, arrivals, streak>>
  BY UpstreamAssumption, CoreAssumption DEF Tick, IInv, TypeOK
<1> USE DEF IInv, circuit, permits
<1>2. TypeOK' /\ streak' \in [Keys -> Nat]
  BY <1>1 DEF TypeOK
<1>3. PermitInv' /\ CapInv'
  BY <1>1, Zenon DEF PermitInv, CapInv, AtOrigin
<1>4. DelayInv'
  <2>1. Recording' = Recording /\ \A r \in Recording : since[r] \in Nat
    BY <1>1 DEF Recording, TypeOK
  <2> QED BY <1>1, <2>1 DEF DelayInv
<1>5. CircuitInv'
  <2>1. \A s \in Keys : until[s] \in Nat
    BY <1>1 DEF TypeOK
  <2> QED BY <1>1, <2>1 DEF CircuitInv
<1> QED BY <1>2, <1>3, <1>4, <1>5, Zenon

LEMMA NextInv == IInv /\ [Next]_vars => IInv'
<1> SUFFICES ASSUME IInv, [Next]_vars PROVE IInv'
  BY Zenon
<1>1. CASE Tick BY <1>1, TickInv, Zenon
<1>2. CASE \E r \in Requests : Arrive(r) \/ Step(r)
  BY <1>2, PermitStep, CircuitStep, Zenon DEF IInv
<1>3. CASE UNCHANGED vars
  <2>1. TypeOK' /\ streak' \in [Keys -> Nat]
    BY <1>3, Zenon DEF vars, circuit, permits, IInv, TypeOK
  <2>2. PermitInv' /\ CapInv'
    BY <1>3, Zenon DEF vars, circuit, permits, IInv, PermitInv, CapInv, AtOrigin
  <2>3. DelayInv' /\ CircuitInv'
    BY <1>3, Zenon DEF vars, circuit, permits, IInv, DelayInv, Recording, CircuitInv
  <2> QED BY <2>1, <2>2, <2>3, Zenon DEF IInv
<1> QED BY <1>1, <1>2, <1>3, Zenon DEF Next

----------------------------------------------------------------------------
(* The inductive invariant of handle_http's way to the origin.             *)
THEOREM UpstreamInvariant == Spec => []IInv
  BY InitInv, NextInv, PTL DEF Spec

(* What the origin works on or still sends stays within the caps: for all  *)
(* clients, for one client and for one trusted proxy.                      *)
THEOREM OriginBoundedHolds == Spec => []OriginBounded
<1>1. IInv => OriginBounded
  <2> SUFFICES ASSUME IInv PROVE OriginBounded
    BY Zenon
  <2>1. /\ clientHeld = AtOrigin /\ AtOrigin \subseteq Requests
        /\ Capped(clientHeld, ClientOf, MaxInFlight, MaxInFlightPerIp)
        /\ Capped(proxyHeld, PeerOf, 0, MaxPerProxy)
    BY Zenon DEF IInv, PermitInv, CapInv, AtOrigin
  <2>2. MaxInFlight > 0 => Cardinality(AtOrigin) <= MaxInFlight
    BY <2>1, Zenon DEF Capped
  <2>3. ASSUME NEW r \in AtOrigin, MaxInFlightPerIp > 0
        PROVE  Cardinality({q \in AtOrigin : ClientOf[q] = ClientOf[r]}) <= MaxInFlightPerIp
    BY <2>1, <2>3, Zenon DEF Capped
  <2>4. ASSUME NEW r \in AtOrigin, MaxPerProxy > 0, PeerOf[r] # NoPeer
        PROVE  Cardinality({q \in AtOrigin : PeerOf[q] = PeerOf[r]}) <= MaxPerProxy
    <3>1. {q \in AtOrigin : PeerOf[q] = PeerOf[r]} = {q \in proxyHeld : PeerOf[q] = PeerOf[r]}
                                                       \cap AtOrigin
      BY <2>4, Zenon DEF IInv, PermitInv, AtOrigin, Origin
    <3> DEFINE P == {q \in proxyHeld : PeerOf[q] = PeerOf[r]}
    <3>2. IsFiniteSet(P) /\ Cardinality(P) <= MaxPerProxy
      BY <2>1, <2>4, FS_Subset, Zenon DEF Capped
    <3> HIDE DEF P
    <3>3. /\ Cardinality(P \cap AtOrigin) <= Cardinality(P)
          /\ Cardinality(P) \in Nat /\ Cardinality(P \cap AtOrigin) \in Nat
      BY <3>2, FS_Subset, FS_CardinalityType, Zenon
    <3>4. Cardinality(P \cap AtOrigin) <= MaxPerProxy
      BY <3>2, <3>3, UpstreamAssumption
    <3> QED BY <3>1, <3>4, Zenon DEF P
  <2> QED BY <2>2, <2>3, <2>4, Zenon DEF OriginBounded
<1> QED BY <1>1, UpstreamInvariant, PTL

(* High-cardinality churn never evicts an open circuit, and a failure that *)
(* comes late shortens it by its delay at most: only a success closes it.  *)
THEOREM OpenKeptHolds == Spec => OpenKept
<1> DEFINE KeepsOpen ==
      \A s \in Keys : Open(s) /\ streak'[s] # 0 => until'[s] >= until[s] - MaxDelay
<1>1. IInv /\ [Next]_vars => [KeepsOpen]_vars
  <2> SUFFICES ASSUME IInv, Next PROVE KeepsOpen
    BY Zenon DEF vars
  <2>1. CASE Tick
    <3>1. until' = until /\ until \in [Keys -> 0..(MaxClock + OpenTicks)] /\ MaxDelay \in Nat
          /\ MaxClock \in Nat /\ OpenTicks \in Nat
      BY <2>1, UpstreamAssumption, CoreAssumption, Zenon DEF Tick, circuit, IInv, TypeOK
    <3> QED BY <3>1
  <2>2. CASE \E r \in Requests : Arrive(r) \/ Step(r)
    BY <2>2, CircuitStep, Zenon
  <2> QED BY <2>1, <2>2, Zenon DEF Next
<1> QED BY <1>1, UpstreamInvariant, PTL DEF OpenKept, Spec

(* A request's steps are steps of the two pools of permits, so what        *)
(* PermitLimiter is shown to implement is all that handle_http relies on.  *)
THEOREM PoolsUsed == Spec => ClientPool!Spec /\ ProxyPool!Spec
<1>1. Init => ClientPool!Init /\ ProxyPool!Init
  BY Zenon DEF Init
<1>2. [Next]_vars => [ClientPool!Next]_clientHeld /\ [ProxyPool!Next]_proxyHeld
  <2> SUFFICES ASSUME [Next]_vars
      PROVE  [ClientPool!Next]_clientHeld /\ [ProxyPool!Next]_proxyHeld
    BY Zenon
  <2>1. CASE UNCHANGED permits BY <2>1, Zenon DEF permits
  <2>2. ASSUME NEW r \in Requests, Return(r)
        PROVE  [ClientPool!Next]_clientHeld /\ [ProxyPool!Next]_proxyHeld
    <3>1. clientHeld' = clientHeld \/ ClientPool!Return(r)
      BY <2>2, Zenon DEF Return, ClientPool!Return
    <3>2. proxyHeld' = proxyHeld \/ ProxyPool!Return(r)
      BY <2>2, Zenon DEF Return, ProxyPool!Return
    <3> QED BY <3>1, <3>2, Zenon DEF ClientPool!Next, ProxyPool!Next
  <2>3. ASSUME NEW r \in Requests, AcquireProxy(r)
        PROVE  [ClientPool!Next]_clientHeld /\ [ProxyPool!Next]_proxyHeld
    BY <2>3, Zenon DEF AcquireProxy, ProxyPool!Next
  <2>4. ASSUME NEW r \in Requests, AcquireClient(r)
        PROVE  [ClientPool!Next]_clientHeld /\ [ProxyPool!Next]_proxyHeld
    BY <2>2, <2>4, Zenon DEF AcquireClient, ClientPool!Next
  <2>5. CASE UNCHANGED vars BY <2>1, <2>5, Zenon DEF vars
  <2>6. CASE Tick BY <2>1, <2>6, Zenon DEF Tick
  <2>7. ASSUME NEW r \in Requests, Arrive(r) \/ CheckCircuit(r) \/ Answered(r) \/ RecordSuccess(r)
        PROVE  UNCHANGED permits
    BY <2>7, Zenon DEF Arrive, CheckCircuit, Answered, RecordSuccess
  <2>8. ASSUME NEW r \in Requests, ClientFault(r) \/ RecordFailure(r) \/ DropBody(r)
        PROVE  Return(r)
    BY <2>8, Zenon DEF ClientFault, RecordFailure, DropBody
  <2> QED BY <2>1, <2>2, <2>3, <2>4, <2>5, <2>6, <2>7, <2>8 DEF Next, Step
<1> QED BY <1>1, <1>2, PTL DEF Spec, ClientPool!Spec, ProxyPool!Spec

=============================================================================

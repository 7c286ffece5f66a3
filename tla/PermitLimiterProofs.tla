------------------------ MODULE PermitLimiterProofs ------------------------
(***************************************************************************)
(* Proofs about PermitLimiter for any tasks, clients, shards, caps and     *)
(* rates.                                                                  *)
(***************************************************************************)
EXTENDS PermitLimiter, LimiterCoreProofs, FiniteSetTheorems, TLAPS

----------------------------------------------------------------------------
(* Eviction.                                                               *)

(* Making room in a shard drops only keys without a live permit, and never *)
(* adds one.                                                               *)
LEMMA EnsureCapacityProperties ==
  ASSUME NEW sh \in LimiterShard, OrderMatches(sh), NEW at,
         NEW e, e = EnsureCapacity(sh, at)
  PROVE  /\ e \in LimiterShard
         /\ OrderMatches(e)
         /\ e.keys \subseteq sh.keys
         /\ sh.keys \ e.keys \subseteq InactiveKeys
<1>1. PICK idle : idle = IF HasRoom(sh) THEN sh ELSE EvictFirst(sh, IdleKeys(at))
  BY Zenon
<1>2. IdleKeys(at) \subseteq InactiveKeys
  BY Zenon DEF IdleKeys, InactiveKeys
<1>3. /\ idle \in LimiterShard
      /\ OrderMatches(idle)
      /\ idle.keys \subseteq sh.keys
      /\ sh.keys \ idle.keys \subseteq InactiveKeys
  BY <1>1, <1>2, EvictFirstProperties, Zenon
<1>4. e = IF HasRoom(idle) THEN idle ELSE EvictFirst(idle, InactiveKeys)
  BY <1>1, Zenon DEF EnsureCapacity
<1> QED
  BY <1>3, <1>4, EvictFirstProperties, Zenon

----------------------------------------------------------------------------
(* Counting tasks.                                                         *)

(* How a set of tasks changes when only task t may join or leave it.       *)
LEMMA CountMove ==
  ASSUME NEW S, NEW T, NEW t, IsFiniteSet(S), T \subseteq S \cup {t}, S \subseteq T \cup {t}
  PROVE  /\ Cardinality(S) \in Nat /\ Cardinality(T) \in Nat
         /\ t \in S /\ t \in T => Cardinality(T) = Cardinality(S)
         /\ t \notin S /\ t \notin T => Cardinality(T) = Cardinality(S)
         /\ t \notin S /\ t \in T => Cardinality(T) = Cardinality(S) + 1
         /\ t \in S /\ t \notin T => Cardinality(T) = Cardinality(S) - 1
<1>1. IsFiniteSet(S \cup {t})
  BY FS_AddElement, Zenon
<1>2. IsFiniteSet(T)
  BY <1>1, FS_Subset, Zenon
<1>3. Cardinality(S) \in Nat /\ Cardinality(T) \in Nat
  BY <1>2, FS_CardinalityType, Zenon
<1>4. (t \in S <=> t \in T) => S = T
  OBVIOUS
<1>5. ASSUME t \notin S, t \in T PROVE Cardinality(T) = Cardinality(S) + 1
  <2>1. T = S \cup {t}
    BY <1>5, Zenon
  <2> QED
    BY <1>5, <2>1, FS_AddElement, Zenon
<1>6. ASSUME t \in S, t \notin T PROVE Cardinality(T) = Cardinality(S) - 1
  <2>1. T = S \ {t}
    BY <1>6, Zenon
  <2> QED
    BY <1>6, <2>1, FS_RemoveElement, Zenon
<1> QED
  BY <1>3, <1>4, <1>5, <1>6, Zenon

(* The slots counted globally, when one task moves.                        *)
LEMMA CountedMove ==
  ASSUME TypeOK, NEW t \in Tasks, NEW loc \in Locations, Goto(t, loc)
  PROVE  /\ Cardinality(At(Counted)) \in Nat
         /\ (pc[t] \in Counted <=> loc \in Counted) =>
              Cardinality(At(Counted))' = Cardinality(At(Counted))
         /\ pc[t] \notin Counted /\ loc \in Counted =>
              Cardinality(At(Counted))' = Cardinality(At(Counted)) + 1
         /\ pc[t] \in Counted /\ loc \notin Counted =>
              Cardinality(At(Counted))' = Cardinality(At(Counted)) - 1
<1>1. PICK S : S = At(Counted)
  BY Zenon
<1>2. PICK T : T = At(Counted)'
  BY Zenon
<1>3. IsFiniteSet(S)
  BY <1>1, PermitAssumption, FS_Subset, Zenon DEF At
<1>4. /\ T \subseteq S \cup {t} /\ S \subseteq T \cup {t}
      /\ t \in S <=> pc[t] \in Counted
      /\ t \in T <=> loc \in Counted
  BY <1>1, <1>2, Zenon DEF At, Goto, TypeOK
<1>5. Cardinality(At(Counted))' = Cardinality(T)
  BY <1>2, Zenon
<1> QED
  BY <1>1, <1>3, <1>4, <1>5, CountMove, Zenon

(* The permits a client holds, when one task moves.                        *)
LEMMA HeldMove ==
  ASSUME TypeOK, NEW t \in Tasks, NEW loc \in Locations, Goto(t, loc), NEW k \in Keys
  PROVE  /\ Cardinality(AtOf(Held, k)) \in Nat
         /\ (KeyOf[t] # k \/ (pc[t] \in Held <=> loc \in Held)) =>
              AtOf(Held, k)' = AtOf(Held, k)
         /\ KeyOf[t] = k /\ pc[t] \notin Held /\ loc \in Held =>
              Cardinality(AtOf(Held, k)') = Cardinality(AtOf(Held, k)) + 1
         /\ KeyOf[t] = k /\ pc[t] \in Held /\ loc \notin Held =>
              /\ Cardinality(AtOf(Held, k)') = Cardinality(AtOf(Held, k)) - 1
              /\ Cardinality(AtOf(Held, k)') \in Nat
              /\ AtOf(Held, k)' \subseteq AtOf(Held, k)
<1>1. PICK S : S = AtOf(Held, k)
  BY Zenon
<1>2. PICK T : T = AtOf(Held, k)'
  BY Zenon
<1>3. IsFiniteSet(S)
  BY <1>1, PermitAssumption, FS_Subset, Zenon DEF AtOf
<1>4. /\ T \subseteq S \cup {t} /\ S \subseteq T \cup {t}
      /\ t \in S <=> (pc[t] \in Held /\ KeyOf[t] = k)
      /\ t \in T <=> (loc \in Held /\ KeyOf[t] = k)
  BY <1>1, <1>2, Zenon DEF AtOf, Goto, TypeOK
<1>5. /\ Cardinality(S) \in Nat /\ Cardinality(T) \in Nat
      /\ t \notin S /\ t \in T => Cardinality(T) = Cardinality(S) + 1
      /\ t \in S /\ t \notin T => Cardinality(T) = Cardinality(S) - 1
  BY <1>3, <1>4, CountMove, Zenon
<1>6. (t \in S <=> t \in T) => S = T
  BY <1>4
<1>7. (t \in S /\ t \notin T) => T \subseteq S
  BY <1>4, Zenon
<1> QED
  BY <1>1, <1>2, <1>4, <1>5, <1>6, <1>7, Zenon

----------------------------------------------------------------------------
(* Every action preserves the inductive invariant.                         *)

(* A task that moves without entering or leaving the counted or held       *)
(* locations keeps the counts, as long as no live key loses its entry.     *)
LEMMA QuietMove ==
  ASSUME IInv, NEW t \in Tasks, NEW loc \in Locations, Goto(t, loc),
         pc[t] \in Counted <=> loc \in Counted,
         pc[t] \in Held <=> loc \in Held,
         globalActive' = globalActive, active' = active,
         \A k \in Keys : /\ AtOf(Held, k) # {}
                         /\ k \in shards[ShardOf[k]].keys
                         => k \in shards'[ShardOf[k]].keys
  PROVE  CountInv'
<1>1. Cardinality(At(Counted))' = Cardinality(At(Counted))
  BY CountedMove, Zenon DEF IInv
<1>2. \A k \in Keys : AtOf(Held, k)' = AtOf(Held, k)
  BY HeldMove, Zenon DEF IInv
<1>3. GlobalExact'
  BY <1>1, Zenon DEF IInv, CountInv, GlobalExact
<1>4. PerIpExact'
  BY <1>2, Zenon DEF IInv, CountInv, PerIpExact
<1> QED
  BY <1>3, <1>4, Zenon DEF IInv, CountInv

(* A new attempt preserves the invariant.                                  *)
LEMMA AttemptStep ==
  ASSUME IInv, NEW t \in Tasks, Attempt(t)
  PROVE  IInv'
<1>1. PICK g : g = Refill(globalBucket, GlobalRate, GlobalBurst, clock)
  BY Zenon
<1>2. /\ g \in Bucket(GlobalBurst)
      /\ g.last = IF clock > globalBucket.last THEN clock ELSE globalBucket.last
      /\ g.tokens <= globalBucket.tokens + GlobalRate * g.last
                       - GlobalRate * globalBucket.last
  <2>1. /\ GlobalBurst \in Nat /\ GlobalRate \in Nat
        /\ globalBucket \in Bucket(GlobalBurst) /\ clock \in 0..MaxClock
    BY PermitAssumption, CoreAssumption, Zenon DEF IInv, TypeOK
  <2> QED
    BY <1>1, <2>1, RefillProperties
<1>3. TypeOK'
  BY <1>1, <1>2, Zenon DEF Attempt, IInv, TypeOK, Goto, Locations
<1>4. CriticalInv'
  BY DEF Attempt, IInv, TypeOK, CriticalInv, Goto, Critical
<1>5. CountInv'
  <2>1. CASE pc' = pc
    BY <2>1, Zenon DEF Attempt, IInv, CountInv, GlobalExact, PerIpExact, At, AtOf
  <2>2. CASE Goto(t, "probe")
    BY <2>2, QuietMove, Zenon DEF Attempt, Locations, Counted, Held
  <2> QED
    BY <2>1, <2>2, Zenon DEF Attempt
<1>6. TimeInv'
  <2>1. \A u \in Tasks : now'[u] <= clock'
    BY DEF Attempt, IInv, TypeOK, TimeInv
  <2>2. globalBucket'.last <= clock'
    BY <1>1, <1>2 DEF Attempt, IInv, TypeOK, TimeInv
  <2>3. ASSUME GlobalRate > 0
        PROVE  globalBucket'.tokens + granted' <= GlobalBurst + GlobalRate * globalBucket'.last
    <3>1. globalBucket' = g /\ granted' = granted
      BY <1>1, <2>3, Zenon DEF Attempt
    <3>2. globalBucket.tokens + granted <= GlobalBurst + GlobalRate * globalBucket.last
      BY <2>3, Zenon DEF IInv, TimeInv
    <3>3. /\ globalBucket.tokens \in Nat /\ granted \in Nat /\ g.tokens \in Nat
          /\ GlobalRate * globalBucket.last \in Nat /\ GlobalRate * g.last \in Nat
          /\ GlobalBurst \in Nat
      BY <1>2, PermitAssumption, CoreAssumption DEF IInv, TypeOK, Bucket
    <3> QED
      BY <1>2, <3>1, <3>2, <3>3
  <2> QED
    BY <2>1, <2>2, <2>3, Zenon DEF TimeInv
<1>7. ShardBounded'
  BY Zenon DEF Attempt, IInv, ShardBounded
<1> QED
  BY <1>3, <1>4, <1>5, <1>6, <1>7, Zenon DEF IInv

(* The early load of global_active preserves the invariant.                *)
LEMMA ProbeStep ==
  ASSUME IInv, NEW t \in Tasks, Probe(t)
  PROVE  IInv'
<1>1. TypeOK'
  BY PermitAssumption, CoreAssumption DEF Probe, Return, IInv, TypeOK, Goto, Locations
<1>2. CriticalInv'
  BY DEF Probe, Return, IInv, TypeOK, CriticalInv, Goto, Critical
<1>3. CountInv'
  <2>1. PICK loc \in {"idle", "lock"} : Goto(t, loc)
    BY Zenon DEF Probe, Return
  <2> QED
    BY <2>1, QuietMove, Zenon DEF Probe, Locations, Counted, Held
<1>4. TimeInv'
  BY PermitAssumption, CoreAssumption DEF Probe, Return, IInv, TypeOK, TimeInv
<1>5. ShardBounded'
  BY Zenon DEF Probe, IInv, ShardBounded
<1> QED
  BY <1>1, <1>2, <1>3, <1>4, <1>5 DEF IInv

(* A task that gives up unlocks a shard nobody else can own.               *)
LEMMA LoadActiveStep ==
  ASSUME IInv, NEW t \in Tasks, LoadActive(t)
  PROVE  IInv'
<1>1. TypeOK'
  BY PermitAssumption, CoreAssumption DEF LoadActive, Return, Unlock, IInv, TypeOK, Goto, Locations
<1>2. CriticalInv'
  <2>1. CASE globalActive >= MaxConnections
    <3> SUFFICES ASSUME NEW u \in Tasks, pc'[u] \in Critical
                 PROVE  /\ u # t /\ pc[u] = pc'[u]
                        /\ seen'[u] = seen[u]
                        /\ owner'[Shard(u)] = owner[Shard(u)]
      BY <2>1, Zenon DEF LoadActive, IInv, CriticalInv
    <3>1. u # t /\ pc[u] = pc'[u] /\ seen'[u] = seen[u]
      BY <2>1 DEF LoadActive, Return, Goto, IInv, TypeOK, Critical
    <3>2. owner[Shard(u)] = u /\ owner[Shard(t)] = t
      BY <3>1, Zenon DEF LoadActive, IInv, CriticalInv, Critical
    <3> QED
      BY <2>1, <3>1, <3>2, PermitAssumption, CoreAssumption DEF LoadActive, Unlock, Shard, IInv, TypeOK
  <2>2. CASE ~(globalActive >= MaxConnections)
    BY <2>2, PermitAssumption, CoreAssumption DEF LoadActive, IInv, TypeOK, CriticalInv, Goto, Critical
  <2> QED
    BY <2>1, <2>2, Zenon
<1>3. CountInv'
  <2>1. PICK loc \in {"idle", "cas"} : Goto(t, loc)
    BY Zenon DEF LoadActive, Return
  <2> QED
    BY <2>1, QuietMove, Zenon DEF LoadActive, Locations, Counted, Held
<1>4. TimeInv'
  BY PermitAssumption, CoreAssumption, SMTT(30) DEF LoadActive, Return, IInv, TypeOK, TimeInv
<1>5. ShardBounded'
  BY Zenon DEF LoadActive, IInv, ShardBounded
<1> QED
  BY <1>1, <1>2, <1>3, <1>4, <1>5 DEF IInv

(* A successful compare-and-swap preserves the invariant.                  *)
LEMMA CompareExchangeStep ==
  ASSUME IInv, NEW t \in Tasks, CompareExchange(t)
  PROVE  IInv'
<1>1. TypeOK'
  BY PermitAssumption, CoreAssumption DEF CompareExchange, IInv, TypeOK, Goto, Locations
<1>2. CriticalInv'
  BY DEF CompareExchange, IInv, TypeOK, CriticalInv, Goto, Critical
<1>3. CountInv'
  <2>1. Goto(t, "charge") /\ "charge" \in Locations
    BY Zenon DEF CompareExchange, Locations
  <2>2. globalActive < MaxConnections /\ globalActive' = globalActive + 1
    BY Zenon DEF CompareExchange, IInv, CriticalInv, Critical
  <2>3. GlobalExact'
    <3>1. Cardinality(At(Counted))' = Cardinality(At(Counted)) + 1
      BY <2>1, CountedMove, Zenon DEF CompareExchange, IInv, Counted
    <3> QED
      BY <2>2, <3>1, Zenon DEF IInv, CountInv, GlobalExact
  <2>4. \A k \in Keys : AtOf(Held, k)' = AtOf(Held, k)
    BY <2>1, HeldMove, Zenon DEF CompareExchange, IInv, Held
  <2>5. PerIpExact'
    BY <2>4, Zenon DEF CompareExchange, IInv, CountInv, PerIpExact
  <2> QED
    BY <2>2, <2>3, <2>5, PermitAssumption, CoreAssumption DEF CompareExchange, IInv, TypeOK, CountInv
<1>4. TimeInv'
  BY Zenon DEF CompareExchange, IInv, TimeInv
<1>5. ShardBounded'
  BY Zenon DEF CompareExchange, IInv, ShardBounded
<1> QED
  BY <1>1, <1>2, <1>3, <1>4, <1>5 DEF IInv

(* Giving a slot back: the counter is positive, so fetch_sub does not wrap. *)
LEMMA GlobalRelease ==
  ASSUME IInv, NEW t \in Tasks, NEW loc \in Locations, Goto(t, loc), ReleaseGlobal,
         pc[t] \in Counted, loc \notin Counted
  PROVE  /\ globalActive' \in Nat
         /\ GlobalExact'
         /\ IF MaxConnections > 0 THEN globalActive' <= MaxConnections
                                  ELSE globalActive' = 0
<1>1. /\ Cardinality(At(Counted)) \in Nat
      /\ Cardinality(At(Counted))' = Cardinality(At(Counted)) - 1
  BY CountedMove, Zenon DEF IInv
<1>2. Cardinality(At(Counted)) # 0
  <2>1. t \in At(Counted)
    BY Zenon DEF At
  <2>2. IsFiniteSet(At(Counted))
    BY PermitAssumption, FS_Subset, Zenon DEF At
  <2> QED
    BY <2>1, <2>2, FS_EmptySet, Zenon
<1>3. MaxConnections > 0 => globalActive' = globalActive - 1
  BY Zenon DEF ReleaseGlobal
<1>4. CASE MaxConnections > 0
  <2>1. /\ globalActive = Cardinality(At(Counted)) /\ globalActive <= MaxConnections
        /\ globalActive' = globalActive - 1
    BY <1>3, <1>4, Zenon DEF IInv, CountInv, GlobalExact
  <2>2. GlobalExact'
    BY <1>1, <2>1, Zenon DEF GlobalExact
  <2> QED
    BY <1>1, <1>2, <1>4, <2>1, <2>2, PermitAssumption
<1>5. CASE ~(MaxConnections > 0)
  <2>1. globalActive' = globalActive /\ globalActive = 0
    BY <1>5, Zenon DEF ReleaseGlobal, IInv, CountInv
  <2> QED
    BY <1>5, <2>1, Zenon DEF GlobalExact
<1> QED
  BY <1>4, <1>5, Zenon

(* Undoing a charge preserves the invariant.                               *)
LEMMA RollbackStep ==
  ASSUME IInv, NEW t \in Tasks, Rollback(t)
  PROVE  IInv'
<1>1. Goto(t, "idle") /\ "idle" \in Locations
  BY Zenon DEF Rollback, Return, Locations
<1>2. /\ globalActive' \in Nat
      /\ GlobalExact'
      /\ IF MaxConnections > 0 THEN globalActive' <= MaxConnections
                               ELSE globalActive' = 0
  BY <1>1, GlobalRelease, Zenon DEF Rollback, Counted
<1>3. TypeOK'
  <2>1. pc' \in [Tasks -> Locations] /\ now' \in [Tasks -> 0..MaxClock]
    BY PermitAssumption, CoreAssumption DEF Rollback, Return, IInv, TypeOK, Goto, Locations
  <2>2. seen' \in [Tasks -> Nat] /\ owner' \in [Shards -> Tasks \cup {NoTask}]
    BY Zenon DEF Rollback, Return, Unlock, IInv, TypeOK
  <2> QED
    BY <1>2, <2>1, <2>2, Zenon DEF Rollback, IInv, TypeOK
<1>4. CriticalInv'
  <2> SUFFICES ASSUME NEW u \in Tasks, pc'[u] \in Critical
               PROVE  /\ u # t /\ pc[u] = pc'[u]
                      /\ seen'[u] = seen[u]
                      /\ owner'[Shard(u)] = owner[Shard(u)]
    BY Zenon DEF Rollback, IInv, CriticalInv
  <2>1. u # t /\ pc[u] = pc'[u] /\ seen'[u] = seen[u]
    BY Zenon DEF Rollback, Return, Goto, IInv, TypeOK, Critical
  <2>2. owner[Shard(u)] = u /\ owner[Shard(t)] = t
    BY <2>1, Zenon DEF Rollback, IInv, CriticalInv, Critical
  <2> QED
    BY <2>1, <2>2, PermitAssumption, CoreAssumption, SMTT(30) DEF Rollback, Unlock, Shard, IInv, TypeOK
<1>5. CountInv'
  <2>1. \A k \in Keys : AtOf(Held, k)' = AtOf(Held, k)
    BY <1>1, HeldMove, SMTT(30) DEF Rollback, IInv, Held
  <2>2. PerIpExact'
    BY <2>1, Zenon DEF Rollback, IInv, CountInv, PerIpExact
  <2> QED
    BY <1>2, <2>2, Zenon DEF Rollback, IInv, CountInv
<1>6. TimeInv'
  BY PermitAssumption, CoreAssumption DEF Rollback, Return, IInv, TypeOK, TimeInv
<1>7. ShardBounded'
  BY Zenon DEF Rollback, IInv, ShardBounded
<1> QED
  BY <1>3, <1>4, <1>5, <1>6, <1>7 DEF IInv

(* Dropping the global slot of a permit preserves the invariant.           *)
LEMMA DropStep ==
  ASSUME IInv, NEW t \in Tasks, Drop(t)
  PROVE  IInv'
<1>1. Goto(t, "releasing") /\ "releasing" \in Locations
  BY Zenon DEF Drop, Locations
<1>2. /\ globalActive' \in Nat
      /\ GlobalExact'
      /\ IF MaxConnections > 0 THEN globalActive' <= MaxConnections
                               ELSE globalActive' = 0
  BY <1>1, GlobalRelease, Zenon DEF Drop, Counted
<1>3. TypeOK'
  BY <1>2, Zenon DEF Drop, IInv, TypeOK, Goto, Locations
<1>4. CriticalInv'
  BY Zenon DEF Drop, IInv, TypeOK, CriticalInv, Goto, Critical
<1>5. CountInv'
  <2>1. \A k \in Keys : AtOf(Held, k)' = AtOf(Held, k)
    BY <1>1, HeldMove, SMTT(30) DEF Drop, IInv, Held
  <2>2. PerIpExact'
    BY <2>1, Zenon DEF Drop, IInv, CountInv, PerIpExact
  <2> QED
    BY <1>2, <2>2, Zenon DEF Drop, IInv, CountInv
<1>6. TimeInv'
  BY Zenon DEF Drop, IInv, TimeInv
<1>7. ShardBounded'
  BY Zenon DEF Drop, IInv, ShardBounded
<1> QED
  BY <1>3, <1>4, <1>5, <1>6, <1>7 DEF IInv

(* Dropping the entry of a permit preserves the invariant.                 *)
LEMMA ReleaseEntryStep ==
  ASSUME IInv, NEW t \in Tasks, ReleaseEntry(t)
  PROVE  IInv'
<1>1. PICK k \in Keys : k = KeyOf[t]
  BY PermitAssumption, Zenon
<1>2. Goto(t, "idle") /\ "idle" \in Locations /\ pc[t] = "releasing"
  BY Zenon DEF ReleaseEntry, Return, Locations
<1>3. k \in shards[ShardOf[k]].keys /\ active[k] = Cardinality(AtOf(Held, k))
  <2>1. t \in AtOf(Held, k)
    BY <1>1, <1>2, Zenon DEF AtOf, Held
  <2> QED
    BY <2>1, Zenon DEF IInv, CountInv, PerIpExact
<1>4. /\ Cardinality(AtOf(Held, k)') = active[k] - 1
      /\ active[k] - 1 \in Nat
      /\ AtOf(Held, k)' \subseteq AtOf(Held, k)
  BY <1>1, <1>2, <1>3, HeldMove DEF IInv, Held
<1>5. active' = [active EXCEPT ![k] = active[k] - 1]
  BY <1>1, <1>3, <1>4 DEF ReleaseEntry, Shard, IInv, TypeOK
<1>6. /\ active' \in [Keys -> Nat]
      /\ bucket' \in [Keys -> Bucket(PerIpBurst)]
      /\ \A j \in Keys : bucket'[j].tokens = bucket[j].tokens
  <2>1. active' \in [Keys -> Nat]
    BY <1>4, <1>5, Zenon DEF IInv, TypeOK
  <2>2. CASE bucket' = bucket
    BY <2>1, <2>2, Zenon DEF IInv, TypeOK
  <2>3. CASE bucket' = [bucket EXCEPT ![k].last = clock]
    BY <2>1, <2>3, Zenon DEF IInv, TypeOK, Bucket
  <2> QED
    BY <1>1, <2>2, <2>3, Zenon DEF ReleaseEntry
<1>7. TypeOK'
  BY <1>6, PermitAssumption, CoreAssumption DEF ReleaseEntry, Return, IInv, TypeOK, Goto, Locations
<1>8. CriticalInv'
  <2> SUFFICES ASSUME NEW u \in Tasks, pc'[u] \in Critical
               PROVE  /\ pc[u] = pc'[u] /\ seen'[u] = seen[u]
                      /\ MaxPerIp > 0 => active'[KeyOf[u]] < MaxPerIp
    BY <1>6, PermitAssumption DEF ReleaseEntry, IInv, CriticalInv
  <2>1. u # t /\ pc[u] = pc'[u] /\ seen'[u] = seen[u]
    BY Zenon DEF ReleaseEntry, Return, Goto, IInv, TypeOK, Critical
  <2>2. MaxPerIp > 0 => active[KeyOf[u]] < MaxPerIp
    BY <2>1, Zenon DEF IInv, CriticalInv
  <2>3. active'[KeyOf[u]] \in Nat /\ active'[KeyOf[u]] <= active[KeyOf[u]]
    BY <1>4, <1>5, PermitAssumption, CoreAssumption DEF IInv, TypeOK
  <2> QED
    BY <2>1, <2>2, <2>3, PermitAssumption, CoreAssumption DEF IInv, TypeOK
<1>9. CountInv'
  <2>1. GlobalExact'
    <3>1. Cardinality(At(Counted))' = Cardinality(At(Counted))
      BY <1>2, CountedMove, Zenon DEF IInv, Counted
    <3> QED
      BY <3>1, Zenon DEF ReleaseEntry, IInv, CountInv, GlobalExact
  <2>2. PerIpExact'
    <3> SUFFICES ASSUME NEW j \in Keys
                 PROVE  /\ active'[j] = Cardinality(AtOf(Held, j)')
                        /\ AtOf(Held, j)' \subseteq AtOf(Held, j)
      BY Zenon DEF ReleaseEntry, IInv, CountInv, PerIpExact
    <3>1. CASE j = k
      BY <1>4, <1>5, <3>1, SMTT(30) DEF IInv, TypeOK
    <3>2. CASE j # k
      <4>1. AtOf(Held, j)' = AtOf(Held, j)
        BY <1>1, <1>2, <3>2, HeldMove, Zenon DEF IInv
      <4> QED
        BY <1>5, <3>2, <4>1, Zenon DEF IInv, TypeOK, CountInv, PerIpExact
    <3> QED
      BY <3>1, <3>2, Zenon
  <2>3. MaxPerIp > 0 => \A j \in Keys : active'[j] <= MaxPerIp
    <3>1. \A j \in Keys : active[j] \in Nat /\ active'[j] \in Nat /\ active'[j] <= active[j]
      BY <1>4, <1>5 DEF IInv, TypeOK
    <3> QED
      BY <3>1, PermitAssumption DEF IInv, CountInv
  <2> QED
    BY <2>1, <2>2, <2>3, Zenon DEF ReleaseEntry, IInv, CountInv
<1>10. TimeInv'
  BY PermitAssumption, CoreAssumption DEF ReleaseEntry, Return, IInv, TypeOK, TimeInv
<1>11. ShardBounded'
  BY Zenon DEF ReleaseEntry, IInv, ShardBounded
<1> QED
  BY <1>7, <1>8, <1>9, <1>10, <1>11, Zenon DEF IInv

(* Granting a permit: the per-client checks still hold because the shard   *)
(* has been locked since they were made.                                   *)
LEMMA ChargeStep ==
  ASSUME IInv, NEW t \in Tasks, Charge(t)
  PROVE  IInv'
<1>1. PICK k \in Keys : k = KeyOf[t]
  BY PermitAssumption
<1>2. PICK g : g = Refill(globalBucket, GlobalRate, GlobalBurst, now[t])
  BY Zenon
<1>3. /\ g \in Bucket(GlobalBurst)
      /\ g.last = IF now[t] > globalBucket.last THEN now[t] ELSE globalBucket.last
      /\ g.tokens <= globalBucket.tokens + GlobalRate * g.last
                       - GlobalRate * globalBucket.last
  <2>1. /\ GlobalBurst \in Nat /\ GlobalRate \in Nat
        /\ globalBucket \in Bucket(GlobalBurst)
    BY PermitAssumption, CoreAssumption, Zenon DEF IInv, TypeOK
  <2>2. PICK at \in 0..MaxClock : at = now[t]
    BY Zenon DEF IInv, TypeOK
  <2>3. g = Refill(globalBucket, GlobalRate, GlobalBurst, at)
    BY <1>2, <2>2, Zenon
  <2> QED
    BY <2>1, <2>2, <2>3, RefillProperties, SMTT(30)
<1>4. g.last <= clock
  BY <1>3, PermitAssumption, CoreAssumption, Zenon DEF IInv, TypeOK, TimeInv, Bucket
<1>5. GlobalRate > 0 => g.tokens + granted <= GlobalBurst + GlobalRate * g.last
  <2>1. /\ globalBucket.tokens \in Nat /\ granted \in Nat /\ g.tokens \in Nat
        /\ GlobalRate * globalBucket.last \in Nat /\ GlobalRate * g.last \in Nat
        /\ GlobalBurst \in Nat
    BY <1>3, PermitAssumption, CoreAssumption DEF IInv, TypeOK, Bucket
  <2>2. GlobalRate > 0 =>
          globalBucket.tokens + granted <= GlobalBurst + GlobalRate * globalBucket.last
    BY Zenon DEF IInv, TimeInv
  <2> QED
    BY <1>3, <2>1, <2>2
<1>6. /\ owner[Shard(t)] = t
      /\ k \in shards[ShardOf[k]].keys
      /\ MaxPerIp > 0 => active[k] < MaxPerIp
      /\ PerIpRate > 0 => bucket[k].tokens >= 1
  BY <1>1, Zenon DEF Charge, IInv, CriticalInv, Critical, Shard
<1>7. CASE GlobalRate > 0 /\ g.tokens < 1
  <2>1. /\ Goto(t, "rollback") /\ "rollback" \in Locations /\ pc[t] = "charge"
        /\ globalBucket' = g
        /\ UNCHANGED <<clock, seen, globalActive, shards, arriving, now, owner,
                       active, bucket, granted>>
    BY <1>2, <1>7, Zenon DEF Charge, Locations
  <2>2. TypeOK'
    BY <1>3, <2>1, SMTT(30) DEF IInv, TypeOK, Goto
  <2>3. CriticalInv'
    BY <2>1, Zenon DEF IInv, TypeOK, CriticalInv, Goto, Critical
  <2>4. CountInv'
    <3>1. /\ pc[t] \in Counted <=> "rollback" \in Counted
          /\ pc[t] \in Held <=> "rollback" \in Held
          /\ globalActive' = globalActive /\ active' = active /\ shards' = shards
      BY <2>1, Zenon DEF Counted, Held
    <3> QED
      BY <2>1, <3>1, QuietMove, Zenon
  <2>5. TimeInv'
    BY <1>4, <1>5, <2>1, Zenon DEF IInv, TimeInv
  <2>6. ShardBounded'
    BY <2>1, Zenon DEF IInv, ShardBounded
  <2> QED
    BY <2>2, <2>3, <2>4, <2>5, <2>6 DEF IInv
<1>8. CASE ~(GlobalRate > 0 /\ g.tokens < 1)
  <2>1. /\ Goto(t, "holding") /\ "holding" \in Locations /\ pc[t] = "charge"
        /\ globalBucket' = IF GlobalRate > 0 THEN Consume(g) ELSE globalBucket
        /\ granted' = IF GlobalRate > 0 THEN granted + 1 ELSE granted
        /\ active' = [active EXCEPT ![k] = active[k] + 1]
        /\ now' = [now EXCEPT ![t] = 0]
        /\ owner' = [owner EXCEPT ![Shard(t)] = NoTask]
        /\ UNCHANGED <<clock, seen, globalActive, shards, arriving>>
    BY <1>1, <1>2, <1>8, Zenon DEF Charge, Locations, Unlock, IInv, TypeOK
  <2>2. /\ bucket' \in [Keys -> Bucket(PerIpBurst)]
        /\ \A j \in Keys : j # k => bucket'[j] = bucket[j]
    <3>1. CASE bucket' = [bucket EXCEPT ![k] = Consume(bucket[k])] /\ PerIpRate > 0
      <4>1. bucket[k] \in Bucket(PerIpBurst) /\ PerIpBurst \in Nat
        BY PermitAssumption, CoreAssumption, Zenon DEF IInv, TypeOK
      <4>2. Consume(bucket[k]) \in Bucket(PerIpBurst)
        BY <1>6, <3>1, <4>1 DEF Bucket, Consume
      <4> QED
        BY <3>1, <4>2, Zenon DEF IInv, TypeOK
    <3>2. CASE bucket' = [bucket EXCEPT ![k] = [bucket[k] EXCEPT !.last = now[t]]]
      BY <3>2, Zenon DEF IInv, TypeOK, Bucket
    <3>3. CASE bucket' = [bucket EXCEPT ![k] = bucket[k]]
      BY <3>3, Zenon DEF IInv, TypeOK
    <3> QED
      BY <1>1, <1>2, <1>8, <3>1, <3>2, <3>3, Zenon DEF Charge, IInv, TypeOK
  <2>3. /\ globalBucket' \in Bucket(GlobalBurst)
        /\ globalBucket'.last <= clock
        /\ GlobalRate > 0 => globalBucket'.tokens + granted'
                               <= GlobalBurst + GlobalRate * globalBucket'.last
    <3>1. CASE GlobalRate > 0
      <4>1. /\ globalBucket' = [tokens |-> g.tokens - 1, last |-> g.last]
            /\ granted' = granted + 1
        BY <1>3, <2>1, <3>1, Zenon DEF Consume, Bucket
      <4>2. g.tokens \in 1..GlobalBurst /\ granted \in Nat
        BY <1>3, <1>8, <3>1, PermitAssumption, CoreAssumption DEF Bucket, IInv, TypeOK
      <4> QED
        BY <1>3, <1>4, <1>5, <3>1, <4>1, <4>2, PermitAssumption, CoreAssumption DEF Bucket
    <3>2. CASE ~(GlobalRate > 0)
      BY <2>1, <3>2, Zenon DEF IInv, TypeOK, TimeInv
    <3> QED
      BY <3>1, <3>2, Zenon
  <2>4. TypeOK'
    <3>1. pc' \in [Tasks -> Locations] /\ now' \in [Tasks -> 0..MaxClock]
      BY <2>1, PermitAssumption, CoreAssumption DEF IInv, TypeOK, Goto
    <3>2. active[k] + 1 \in Nat
      BY DEF IInv, TypeOK
    <3>3. owner' \in [Shards -> Tasks \cup {NoTask}] /\ active' \in [Keys -> Nat]
      BY <2>1, <3>2, Zenon DEF IInv, TypeOK
    <3>4. granted' \in Nat
      BY <2>1 DEF IInv, TypeOK
    <3> QED
      BY <2>1, <2>2, <2>3, <3>1, <3>3, <3>4, Zenon DEF IInv, TypeOK
  <2>5. CriticalInv'
    <3> SUFFICES ASSUME NEW u \in Tasks, pc'[u] \in Critical
                 PROVE  /\ pc[u] = pc'[u]
                        /\ owner'[Shard(u)] = owner[Shard(u)]
                        /\ active'[KeyOf[u]] = active[KeyOf[u]]
                        /\ bucket'[KeyOf[u]] = bucket[KeyOf[u]]
      BY <2>1, Zenon DEF IInv, CriticalInv
    <3>1. u # t /\ pc[u] = pc'[u]
      BY <2>1, Zenon DEF Goto, IInv, TypeOK, Critical
    <3>2. owner[Shard(u)] = u
      BY <3>1, Zenon DEF IInv, CriticalInv
    <3>3. Shard(u) # Shard(t) /\ KeyOf[u] # k /\ KeyOf[u] \in Keys /\ Shard(t) \in Shards
      BY <1>1, <1>6, <3>1, <3>2, PermitAssumption, Zenon DEF Shard
    <3> QED
      BY <2>1, <2>2, <3>1, <3>3, PermitAssumption, CoreAssumption, ZenonT(60) DEF IInv, TypeOK, Shard
  <2>6. CountInv'
    <3>1. GlobalExact'
      <4>1. Cardinality(At(Counted))' = Cardinality(At(Counted))
        BY <2>1, CountedMove, Zenon DEF IInv, Counted
      <4> QED
        BY <2>1, <4>1, Zenon DEF IInv, CountInv, GlobalExact
    <3>2. PerIpExact'
      <4> SUFFICES ASSUME NEW j \in Keys
                   PROVE  /\ active'[j] = Cardinality(AtOf(Held, j)')
                          /\ AtOf(Held, j)' # {} => j \in shards[ShardOf[j]].keys
        BY <2>1, SMTT(30) DEF PerIpExact
      <4>1. CASE j = k
        <5>1. Cardinality(AtOf(Held, j)') = Cardinality(AtOf(Held, j)) + 1
          <6>1. /\ TypeOK /\ Goto(t, "holding") /\ "holding" \in Locations
                /\ KeyOf[t] = j /\ pc[t] \notin Held /\ "holding" \in Held
            BY <1>1, <2>1, <4>1, Zenon DEF IInv, Held
          <6> QED
            BY <6>1, HeldMove, Zenon
        <5> QED
          BY <1>6, <2>1, <4>1, <5>1, SMTT(30) DEF IInv, TypeOK, CountInv, PerIpExact
      <4>2. CASE j # k
        <5>1. AtOf(Held, j)' = AtOf(Held, j)
          <6>1. /\ TypeOK /\ Goto(t, "holding") /\ "holding" \in Locations
                /\ KeyOf[t] # j
            BY <1>1, <2>1, <4>2, Zenon DEF IInv
          <6> QED
            BY <6>1, HeldMove, Zenon
        <5> QED
          BY <2>1, <4>2, <5>1, ZenonT(60) DEF IInv, TypeOK, CountInv, PerIpExact
      <4> QED
        BY <4>1, <4>2, Zenon
    <3>3. MaxPerIp > 0 => \A j \in Keys : active'[j] <= MaxPerIp
      BY <1>6, <2>1, PermitAssumption, CoreAssumption DEF IInv, TypeOK, CountInv
    <3> QED
      BY <2>1, <3>1, <3>2, <3>3, Zenon DEF IInv, CountInv
  <2>7. TimeInv'
    BY <2>1, <2>3, PermitAssumption, CoreAssumption, SMTT(30) DEF IInv, TypeOK, TimeInv
  <2>8. ShardBounded'
    BY <2>1, Zenon DEF IInv, ShardBounded
  <2> QED
    BY <2>4, <2>5, <2>6, <2>7, <2>8 DEF IInv
<1> QED
  BY <1>7, <1>8, Zenon

(* The per-client checks keep the bucket within its burst.                 *)
LEMMA CheckedBucketType ==
  ASSUME NEW a, NEW b \in Bucket(PerIpBurst), NEW at \in 0..MaxClock
  PROVE  CheckedBucket(a, b, at) \in Bucket(PerIpBurst)
<1>1. PerIpBurst \in Nat /\ PerIpRate \in Nat
  BY PermitAssumption, Zenon
<1>2. Refill(b, PerIpRate, PerIpBurst, at) \in Bucket(PerIpBurst)
  BY <1>1, RefillProperties, SMTT(30)
<1> QED
  BY <1>2, Zenon DEF CheckedBucket

(* Locking the shard: no other task is inside it, a key without an entry   *)
(* has no live permit, and eviction leaves every live key in place.        *)
LEMMA AdmitStep ==
  ASSUME IInv, NEW t \in Tasks, Admit(t)
  PROVE  IInv'
<1>1. PICK k \in Keys : k = KeyOf[t]
  BY PermitAssumption
<1>2. PICK s \in Shards : s = Shard(t) /\ s = ShardOf[k]
  BY <1>1, PermitAssumption, Zenon DEF Shard
<1>3. PICK at \in 0..MaxClock : at = now[t]
  BY Zenon DEF IInv, TypeOK
<1>4. PICK old \in LimiterShard : old = shards[s]
  BY Zenon DEF IInv, TypeOK
<1>5. OrderMatches(old) /\ Cardinality(old.keys) <= Capacity /\ \A j \in old.keys : ShardOf[j] = s
  BY <1>4, Zenon DEF IInv, ShardBounded
<1>6. PICK sh : sh = IF k \in old.keys THEN old ELSE EnsureCapacity(old, at)
  BY Zenon
<1>7. /\ sh \in LimiterShard
      /\ OrderMatches(sh)
      /\ sh.keys \subseteq old.keys
      /\ old.keys \ sh.keys \subseteq InactiveKeys
  BY <1>5, <1>6, EnsureCapacityProperties, SMTT(30)
<1>8. k \notin old.keys => active[k] = 0
  <2>1. k \notin old.keys => AtOf(Held, k) = {}
    BY <1>2, <1>4, Zenon DEF IInv, CountInv, PerIpExact
  <2> QED
    BY <2>1, FS_EmptySet, Zenon DEF IInv, CountInv, PerIpExact
<1>9. PICK b \in Bucket(PerIpBurst) :
        b = IF k \in old.keys THEN bucket[k] ELSE FullBucket(PerIpBurst, at)
  <2>1. bucket[k] \in Bucket(PerIpBurst)
    BY Zenon DEF IInv, TypeOK
  <2>2. FullBucket(PerIpBurst, at) \in Bucket(PerIpBurst)
    BY PermitAssumption, CoreAssumption DEF Bucket, FullBucket
  <2> QED
    BY <2>1, <2>2, Zenon
<1>10. PICK r \in Bucket(PerIpBurst) : r = CheckedBucket(active[k], b, at)
  BY CheckedBucketType, Zenon
<1>11. ASSUME UnderCap(active[k]), HasToken(r)
       PROVE  /\ MaxPerIp > 0 => active[k] < MaxPerIp
              /\ PerIpRate > 0 => r.tokens >= 1
  BY <1>11, Zenon DEF UnderCap, HasToken
<1>12. ASSUME NEW u \in Tasks, pc[u] \in Critical
       PROVE  u # t /\ Shard(u) # s /\ KeyOf[u] # k
  <2>1. owner[Shard(u)] = u /\ owner[s] = NoTask
    BY <1>2, <1>12, ZenonT(60) DEF Admit, IInv, CriticalInv
  <2>2. u # t
    BY <1>12, SMTT(30) DEF Admit, Critical
  <2> QED
    BY <1>2, <2>1, <2>2, PermitAssumption, SMTT(30) DEF Shard
<1>13. \A j \in Keys : AtOf(Held, j) # {} /\ j \in old.keys => j \in sh.keys
  <2> SUFFICES ASSUME NEW j \in Keys, AtOf(Held, j) # {}
               PROVE  j \notin InactiveKeys
    BY <1>7, Zenon
  <2>1. IsFiniteSet(AtOf(Held, j))
    BY PermitAssumption, FS_Subset, Zenon DEF AtOf
  <2> QED
    BY <2>1, FS_EmptySet, Zenon DEF InactiveKeys, IInv, CountInv, PerIpExact
<1>14. Cardinality(sh.keys) <= Capacity
  <2>1. IsFiniteSet(old.keys) /\ Cardinality(old.keys) \in Nat
    BY <1>5, KeysInFinite, Zenon DEF OrderMatches, LimiterShard
  <2>2. Cardinality(sh.keys) \in Nat /\ Cardinality(sh.keys) <= Cardinality(old.keys)
    BY <1>7, <2>1, FS_Subset, FS_CardinalityType, Zenon
  <2> QED
    BY <1>5, <2>1, <2>2, CoreAssumption
<1>15. CASE k \notin old.keys /\ ~HasRoom(sh)
  <2>1. /\ shards' = [shards EXCEPT ![s] = sh]
        /\ Return(t)
        /\ UNCHANGED <<clock, globalActive, globalBucket, owner, active, bucket,
                       arriving, granted>>
    BY <1>1, <1>2, <1>3, <1>4, <1>6, <1>15, ZenonT(60) DEF Admit
  <2>2. TypeOK'
    <3>1. pc' \in [Tasks -> Locations] /\ now' \in [Tasks -> 0..MaxClock]
      BY <2>1, PermitAssumption, CoreAssumption, SMTT(30) DEF Return, Goto, Locations, IInv, TypeOK
    <3>2. seen' \in [Tasks -> Nat] /\ shards' \in [Shards -> LimiterShard]
      BY <1>7, <2>1, SMTT(30) DEF Return, IInv, TypeOK
    <3> QED
      BY <2>1, <3>1, <3>2 DEF IInv, TypeOK
  <2>3. CriticalInv'
    <3> SUFFICES ASSUME NEW u \in Tasks, pc'[u] \in Critical
                 PROVE  /\ pc[u] = pc'[u] /\ seen'[u] = seen[u]
                        /\ shards'[Shard(u)] = shards[Shard(u)]
      BY <2>1, Zenon DEF IInv, CriticalInv
    <3>1. pc[u] = pc'[u] /\ seen'[u] = seen[u]
      BY <2>1, SMTT(30) DEF Return, Goto, IInv, TypeOK, Critical
    <3> QED
      BY <1>12, <2>1, <3>1, PermitAssumption, CoreAssumption, ZenonT(60) DEF IInv, TypeOK, Shard
  <2>4. CountInv'
    <3>1. Goto(t, "idle") /\ "idle" \in Locations /\ pc[t] = "lock"
      BY <2>1, SMTT(30) DEF Admit, Return, Locations
    <3>2. \A j \in Keys : AtOf(Held, j) # {} /\ j \in shards[ShardOf[j]].keys
                            => j \in shards'[ShardOf[j]].keys
      BY <1>4, <1>13, <2>1, PermitAssumption, CoreAssumption, ZenonT(60) DEF IInv, TypeOK
    <3> QED
      <4>1. /\ pc[t] \in Counted <=> "idle" \in Counted
            /\ pc[t] \in Held <=> "idle" \in Held
        BY <3>1, Zenon DEF Counted, Held
      <4>2. globalActive' = globalActive /\ active' = active
        BY <2>1
      <4> QED
        BY <3>1, <3>2, <4>1, <4>2, QuietMove, Zenon
  <2>5. TimeInv'
    BY <2>1, PermitAssumption, CoreAssumption, SMTT(30) DEF Return, IInv, TypeOK, TimeInv
  <2>6. ShardBounded'
    BY <1>5, <1>7, <1>14, <2>1, Zenon DEF IInv, TypeOK, ShardBounded
  <2> QED
    BY <2>2, <2>3, <2>4, <2>5, <2>6, SMTT(30) DEF IInv
<1>16. CASE k \in old.keys \/ HasRoom(sh)
  <2>1. PICK new : new = IF k \in old.keys THEN old
                         ELSE Insert(sh, k)
    BY ZenonT(60)
  <2>2. /\ shards' = [shards EXCEPT ![s] = new]
        /\ active' = active
        /\ bucket' = [bucket EXCEPT ![k] = r]
        /\ UNCHANGED <<clock, globalActive, globalBucket, arriving, granted>>
    <3>1. CASE k \in old.keys
      <4>1. /\ shards' = shards
            /\ active' = [active EXCEPT ![k] = active[k]]
            /\ bucket' = [bucket EXCEPT ![k] = r]
        BY <1>1, <1>2, <1>3, <1>4, <1>9, <1>10, <3>1, ZenonT(60) DEF Admit
      <4> QED
        BY <1>4, <2>1, <3>1, <4>1, ZenonT(60) DEF Admit, IInv, TypeOK
    <3>2. CASE k \notin old.keys
      <4>1. /\ shards' = [shards EXCEPT ![s] = new]
            /\ active' = [active EXCEPT ![k] = 0]
            /\ bucket' = [bucket EXCEPT ![k] = r]
        BY <1>1, <1>2, <1>3, <1>4, <1>6, <1>8, <1>9, <1>10, <1>16, <2>1, <3>2, ZenonT(60) DEF Admit
      <4> QED
        BY <1>8, <3>2, <4>1, ZenonT(60) DEF Admit, IInv, TypeOK
    <3> QED
      BY <3>1, <3>2, Zenon
  <2>3. /\ new \in LimiterShard
        /\ OrderMatches(new)
        /\ Cardinality(new.keys) <= Capacity
        /\ k \in new.keys
        /\ sh.keys \subseteq new.keys
        /\ new.keys \subseteq old.keys \cup {k}
    <3>1. CASE k \in old.keys
      BY <1>5, <1>6, <2>1, <3>1, Zenon
    <3>2. CASE k \notin old.keys
      <4>1. k \notin sh.keys
        BY <1>7, <3>2, Zenon
      <4>2. new = Insert(sh, k)
        BY <2>1, <3>2, Zenon
      <4> QED
        BY <1>7, <1>16, <3>2, <4>1, <4>2, InsertProperties, ZenonT(60) DEF Insert
    <3> QED
      BY <3>1, <3>2, Zenon
  <2>4. ShardBounded'
    BY <1>2, <1>5, <2>2, <2>3, ZenonT(60) DEF IInv, TypeOK, ShardBounded
  <2>5. \A j \in Keys : AtOf(Held, j) # {} /\ j \in shards[ShardOf[j]].keys
                          => j \in shards'[ShardOf[j]].keys
    BY <1>4, <1>13, <2>2, <2>3, PermitAssumption, CoreAssumption, ZenonT(60) DEF IInv, TypeOK
  <2>6. /\ shards' \in [Shards -> LimiterShard]
        /\ bucket' \in [Keys -> Bucket(PerIpBurst)]
    BY <2>2, <2>3, Zenon DEF IInv, TypeOK
  <2>7. CASE ~(UnderCap(active[k]) /\ HasToken(r))
    <3>1. Return(t) /\ owner' = owner
      BY <1>1, <1>2, <1>3, <1>4, <1>6, <1>8, <1>9, <1>10, <1>16, <2>7, ZenonT(60) DEF Admit
    <3>2. TypeOK'
      <4>1. /\ pc' \in [Tasks -> Locations] /\ now' \in [Tasks -> 0..MaxClock]
            /\ seen' \in [Tasks -> Nat]
        BY <3>1, PermitAssumption, CoreAssumption, SMTT(30) DEF Return, Goto, Locations, IInv, TypeOK
      <4> QED
        BY <2>2, <2>6, <3>1, <4>1 DEF IInv, TypeOK
    <3>3. CriticalInv'
      <4> SUFFICES ASSUME NEW u \in Tasks, pc'[u] \in Critical
                   PROVE  /\ pc[u] = pc'[u] /\ seen'[u] = seen[u]
                          /\ shards'[Shard(u)] = shards[Shard(u)]
                          /\ bucket'[KeyOf[u]] = bucket[KeyOf[u]]
        BY <2>2, <3>1, Zenon DEF IInv, CriticalInv
      <4>1. pc[u] = pc'[u] /\ seen'[u] = seen[u]
        BY <3>1, SMTT(30) DEF Return, Goto, IInv, TypeOK, Critical
      <4> QED
        BY <1>12, <2>2, <4>1, PermitAssumption, CoreAssumption, ZenonT(60) DEF IInv, TypeOK, Shard
    <3>4. CountInv'
      <4>1. Goto(t, "idle") /\ "idle" \in Locations /\ pc[t] = "lock"
        BY <3>1, Zenon DEF Admit, Return, Locations
      <4> QED
        <5>1. /\ pc[t] \in Counted <=> "idle" \in Counted
              /\ pc[t] \in Held <=> "idle" \in Held
          BY <4>1 DEF Counted, Held
        <5>2. globalActive' = globalActive /\ active' = active
          BY <2>2, Zenon
        <5> QED
          BY <2>5, <4>1, <5>1, <5>2, QuietMove, Zenon
    <3>5. TimeInv'
      BY <2>2, <3>1, PermitAssumption, CoreAssumption DEF Return, IInv, TypeOK, TimeInv
    <3> QED
      BY <2>4, <3>2, <3>3, <3>4, <3>5, SMTT(30) DEF IInv
  <2>8. CASE UnderCap(active[k]) /\ HasToken(r)
    <3>1. PICK loc \in {"load", "charge"} :
            /\ Goto(t, loc) /\ loc = IF MaxConnections > 0 THEN "load" ELSE "charge"
            /\ owner' = [owner EXCEPT ![s] = t]
            /\ UNCHANGED <<now, seen>>
      BY <1>1, <1>2, <1>3, <1>4, <1>6, <1>8, <1>9, <1>10, <1>16, <2>8, ZenonT(60) DEF Admit
    <3>2. TypeOK'
      <4>1. /\ pc' \in [Tasks -> Locations]
            /\ owner' \in [Shards -> Tasks \cup {NoTask}]
        BY <3>1, Zenon DEF Goto, Locations, IInv, TypeOK
      <4> QED
        BY <2>2, <2>6, <3>1, <4>1, Zenon DEF IInv, TypeOK
    <3>3. CriticalInv'
      <4> SUFFICES ASSUME NEW u \in Tasks, pc'[u] \in Critical
                   PROVE  /\ owner'[Shard(u)] = u
                          /\ KeyOf[u] \in shards'[Shard(u)].keys
                          /\ pc'[u] \in {"load", "cas"} => MaxConnections > 0
                          /\ pc'[u] = "cas" => seen'[u] < MaxConnections
                          /\ MaxPerIp > 0 => active'[KeyOf[u]] < MaxPerIp
                          /\ PerIpRate > 0 => bucket'[KeyOf[u]].tokens >= 1
        BY SMTT(30) DEF CriticalInv
      <4>1. CASE u = t
        BY <1>1, <1>2, <1>11, <2>2, <2>3, <2>8, <3>1, <4>1, ZenonT(60) DEF Goto, IInv, TypeOK
      <4>2. CASE u # t
        <5>1. pc'[u] = pc[u]
          BY <3>1, <4>2 DEF Goto, IInv, TypeOK
        <5>2. Shard(u) # s /\ KeyOf[u] # k
          BY <1>12, <5>1, SMTT(30)
        <5>3. /\ owner'[Shard(u)] = owner[Shard(u)]
              /\ shards'[Shard(u)] = shards[Shard(u)]
              /\ bucket'[KeyOf[u]] = bucket[KeyOf[u]]
          BY <2>2, <3>1, <5>2, PermitAssumption, CoreAssumption, Zenon DEF IInv, TypeOK, Shard
        <5> QED
          BY <2>2, <3>1, <5>1, <5>3, ZenonT(60) DEF IInv, CriticalInv
      <4> QED
        BY <4>1, <4>2, Zenon
    <3>4. CountInv'
      <4>1. CASE loc = "load"
        <5>1. Goto(t, "load") /\ "load" \in Locations /\ pc[t] = "lock"
          BY <3>1, <4>1, Zenon DEF Admit, Locations
        <5> QED
          <6>1. /\ pc[t] \in Counted <=> "load" \in Counted
                /\ pc[t] \in Held <=> "load" \in Held
            BY <5>1, Zenon DEF Counted, Held
          <6>2. globalActive' = globalActive /\ active' = active
            BY <2>2, Zenon
          <6> QED
            BY <2>5, <5>1, <6>1, <6>2, QuietMove, Zenon
      <4>2. CASE loc = "charge"
        <5>1. ~(MaxConnections > 0)
          BY <3>1, <4>2, SMTT(30)
        <5>2. \A j \in Keys : AtOf(Held, j)' = AtOf(Held, j)
          BY <3>1, <4>2, HeldMove, ZenonT(60) DEF Admit, Held, Locations, IInv
        <5>3. PerIpExact'
          BY <2>2, <2>5, <5>2, ZenonT(60) DEF IInv, CountInv, PerIpExact
        <5> QED
          BY <2>2, <5>1, <5>3 DEF IInv, CountInv, GlobalExact
      <4> QED
        BY <3>1, <4>1, <4>2, SMTT(30)
    <3>5. TimeInv'
      BY <2>2, <3>1, Zenon DEF IInv, TimeInv
    <3> QED
      BY <2>4, <3>2, <3>3, <3>4, <3>5, SMTT(30) DEF IInv
  <2> QED
    BY <2>7, <2>8, Zenon
<1> QED
  BY <1>1, <1>2, <1>3, <1>4, <1>6, <1>15, <1>16, Zenon DEF Admit

(* A new limiter satisfies the invariant.                                  *)
LEMMA InitInvariant == Init => IInv
<1> SUFFICES ASSUME Init PROVE IInv
  BY Zenon
<1>1. /\ FullBucket(PerIpBurst, 0) \in Bucket(PerIpBurst)
      /\ FullBucket(GlobalBurst, 0) \in Bucket(GlobalBurst)
  BY PermitAssumption, CoreAssumption DEF FullBucket, Bucket
<1>2. PICK empty \in LimiterShard : /\ empty = [keys |-> {}, order |-> << >>]
                                    /\ OrderMatches(empty)
  <2>1. [keys |-> {}, order |-> << >>] \in LimiterShard
    BY DEF LimiterShard
  <2>2. OrderMatches([keys |-> {}, order |-> << >>])
    BY SMTT(30) DEF OrderMatches, KeysIn, Distinct
  <2> QED
    BY <2>1, <2>2, Zenon
<1>3. TypeOK
  <2>1. /\ clock \in 0..MaxClock /\ globalActive \in Nat /\ granted \in Nat
        /\ now \in [Tasks -> 0..MaxClock] /\ seen \in [Tasks -> Nat]
    BY PermitAssumption, CoreAssumption DEF Init
  <2>2. pc \in [Tasks -> Locations] /\ arriving \in BOOLEAN
    BY Zenon DEF Init, Locations
  <2>3. globalBucket \in Bucket(GlobalBurst) /\ bucket \in [Keys -> Bucket(PerIpBurst)]
    BY <1>1, SMTT(30) DEF Init
  <2>4. shards \in [Shards -> LimiterShard]
    BY <1>2, Zenon DEF Init
  <2>5. active \in [Keys -> Nat] /\ owner \in [Shards -> Tasks \cup {NoTask}]
    BY Zenon DEF Init
  <2> QED
    BY <2>1, <2>2, <2>3, <2>4, <2>5, Zenon DEF TypeOK
<1>4. CriticalInv
  BY Zenon DEF Init, CriticalInv, Critical
<1>5. CountInv
  <2>1. At(Counted) = {} /\ \A k \in Keys : AtOf(Held, k) = {}
    BY Zenon DEF Init, At, AtOf, Counted, Held
  <2>2. Cardinality({}) = 0
    BY FS_EmptySet, Zenon
  <2> QED
    <3>1. GlobalExact
      BY <2>1, <2>2, Zenon DEF Init, GlobalExact
    <3>2. PerIpExact
      BY <2>1, <2>2, Zenon DEF Init, PerIpExact
    <3> QED
      BY <3>1, <3>2, PermitAssumption, CoreAssumption DEF Init, CountInv
<1>6. TimeInv
  BY PermitAssumption, CoreAssumption DEF Init, TimeInv, FullBucket
<1>7. ShardBounded
  <2>1. Cardinality({}) = 0
    BY FS_EmptySet
  <2> QED
    <3>1. \A s \in Shards : shards[s] = empty
      BY <1>2, Zenon DEF Init
    <3>2. empty.keys = {} /\ Cardinality(empty.keys) <= Capacity
      BY <1>2, <2>1, CoreAssumption
    <3> QED
      BY <1>2, <3>1, <3>2, Zenon DEF ShardBounded
<1> QED
  BY <1>3, <1>4, <1>5, <1>6, <1>7, Zenon DEF IInv

(* The passing of time preserves the invariant.                            *)
LEMMA TickStep ==
  ASSUME IInv, Tick
  PROVE  IInv'
<1>1. TypeOK'
  BY PermitAssumption, CoreAssumption, SMTT(30) DEF Tick, IInv, TypeOK
<1>2. CriticalInv'
  BY Zenon DEF Tick, IInv, CriticalInv
<1>3. CountInv'
  BY Zenon DEF Tick, IInv, CountInv, GlobalExact, PerIpExact, At, AtOf
<1>4. TimeInv'
  BY PermitAssumption, CoreAssumption, SMTT(30) DEF Tick, IInv, TypeOK, TimeInv, Bucket
<1>5. ShardBounded'
  BY Zenon DEF Tick, IInv, ShardBounded
<1> QED
  BY <1>1, <1>2, <1>3, <1>4, <1>5, Zenon DEF IInv

(* So does a step that leaves the limiter alone.                           *)
LEMMA UnchangedCore ==
  ASSUME IInv,
         UNCHANGED <<clock, pc, now, seen, globalActive, globalBucket, owner,
                     shards, active, bucket, granted>>,
         arriving' \in BOOLEAN
  PROVE  IInv'
<1>1. TypeOK'
  BY DEF IInv, TypeOK
<1>2. CriticalInv'
  BY SMTT(30) DEF IInv, CriticalInv
<1>3. CountInv'
  BY Zenon DEF IInv, CountInv, GlobalExact, PerIpExact, At, AtOf
<1>4. TimeInv'
  BY SMTT(30) DEF IInv, TimeInv
<1>5. ShardBounded'
  BY Zenon DEF IInv, ShardBounded
<1> QED
  BY <1>1, <1>2, <1>3, <1>4, <1>5 DEF IInv

(* Every step preserves the invariant.                                     *)
LEMMA NextInvariant == IInv /\ [Next]_vars => IInv'
<1> SUFFICES ASSUME IInv, [Next]_vars PROVE IInv'
  BY Zenon
<1>1. ASSUME NEW t \in Tasks, Attempt(t) PROVE IInv'
  BY <1>1, AttemptStep, Zenon
<1>2. ASSUME NEW t \in Tasks, Step(t) PROVE IInv'
  BY <1>2, ProbeStep, AdmitStep, LoadActiveStep, CompareExchangeStep, ChargeStep,
     RollbackStep, DropStep, ReleaseEntryStep DEF Step
<1>3. CASE Tick
  BY <1>3, TickStep, Zenon
<1>4. CASE ArrivalsStop
  BY <1>4, UnchangedCore, ZenonT(60) DEF ArrivalsStop
<1>5. CASE UNCHANGED vars
  BY <1>5, UnchangedCore, Zenon DEF vars, IInv, TypeOK
<1> QED
  BY <1>1, <1>2, <1>3, <1>4, <1>5, Zenon DEF Next

(* Every reachable state satisfies the inductive invariant.                *)
THEOREM Invariant == Spec => []IInv
<1>1. Init => IInv
  BY InitInvariant, Zenon
<1>2. IInv /\ [Next]_vars => IInv'
  BY NextInvariant, Zenon
<1> QED
  BY <1>1, <1>2, PTL DEF Spec

(* The limiter's state is well typed; in particular the unsigned           *)
(* global_active never goes below zero and no bucket below zero tokens.    *)
THEOREM TypeCorrect == Spec => []TypeOK
<1>1. IInv => TypeOK
  BY Zenon DEF IInv
<1> QED
  BY <1>1, Invariant, PTL

(* No interleaving loses or duplicates a slot of global_active.            *)
THEOREM GlobalCountExact == Spec => []GlobalExact
<1>1. IInv => GlobalExact
  BY Zenon DEF IInv, CountInv
<1> QED
  BY <1>1, Invariant, PTL

(* Eviction and re-insertion never lose or duplicate a permit of a client. *)
THEOREM PerIpCountExact == Spec => []PerIpExact
<1>1. IInv => PerIpExact
  BY Zenon DEF IInv, CountInv
<1> QED
  BY <1>1, Invariant, PTL

(* The permits held are among the slots counted.                           *)
LEMMA HeldWithinCounts ==
  ASSUME IInv
  PROVE  /\ IsFiniteSet(At({"holding"})) /\ Cardinality(At({"holding"})) \in Nat
         /\ Cardinality(At({"holding"})) <= Cardinality(At(Counted))
         /\ \A k \in Keys :
              /\ Cardinality(AtOf({"holding"}, k)) \in Nat
              /\ Cardinality(AtOf({"holding"}, k)) <= Cardinality(AtOf(Held, k))
<1>1. IsFiniteSet(At(Counted)) /\ \A k \in Keys : IsFiniteSet(AtOf(Held, k))
  BY PermitAssumption, FS_Subset, Zenon DEF At, AtOf
<1>2. At({"holding"}) \in SUBSET At(Counted)
  BY Zenon DEF At, Counted
<1>3. \A k \in Keys : AtOf({"holding"}, k) \in SUBSET AtOf(Held, k)
  BY SMTT(30) DEF AtOf, Held
<1> QED
  BY <1>1, <1>2, <1>3, FS_Subset, FS_CardinalityType

(* The cap on connections or in-flight requests is never exceeded.         *)
THEOREM GlobalCapHolds == Spec => []GlobalCap
<1>1. IInv => GlobalCap
  BY HeldWithinCounts, PermitAssumption, CoreAssumption, SMTT(30) DEF IInv, TypeOK, CountInv, GlobalExact, GlobalCap
<1> QED
  BY <1>1, Invariant, PTL

(* The cap of each client is never exceeded.                               *)
THEOREM PerIpCapHolds == Spec => []PerIpCap
<1>1. ASSUME IInv, MaxPerIp > 0, NEW k \in Keys
      PROVE  Cardinality(AtOf({"holding"}, k)) <= MaxPerIp
  <2>1. active[k] = Cardinality(AtOf(Held, k)) /\ active[k] <= MaxPerIp /\ active[k] \in Nat
    BY <1>1, Zenon DEF IInv, TypeOK, CountInv, PerIpExact
  <2> QED
    BY <1>1, <2>1, HeldWithinCounts, PermitAssumption, SMTT(30)
<1>2. IInv => PerIpCap
  BY <1>1, Zenon DEF PerIpCap
<1> QED
  BY <1>2, Invariant, PTL

(* Tracked state is bounded and every tracked key can be evicted.          *)
THEOREM ShardsBounded == Spec => []ShardBounded
<1>1. IInv => ShardBounded
  BY Zenon DEF IInv
<1> QED
  BY <1>1, Invariant, PTL

(* Grants never outrun the configured rate.                                *)
THEOREM GlobalRateHolds == Spec => []GlobalRateBound
<1>1. ASSUME IInv, GlobalRate > 0
      PROVE  granted <= GlobalBurst + GlobalRate * clock
  <2>1. /\ globalBucket.tokens \in Nat /\ granted \in Nat /\ globalBucket.last \in Nat
        /\ clock \in Nat /\ GlobalBurst \in Nat /\ GlobalRate \in Nat
        /\ globalBucket.last <= clock
    BY <1>1, PermitAssumption, CoreAssumption DEF IInv, TypeOK, TimeInv, Bucket
  <2>2. PICK d \in Nat : clock = globalBucket.last + d
    <3>1. clock - globalBucket.last \in Nat
      BY <2>1
    <3> QED
      BY <2>1, <3>1
  <2>3. /\ GlobalRate * clock = GlobalRate * globalBucket.last + GlobalRate * d
        /\ GlobalRate * d \in Nat /\ GlobalRate * globalBucket.last \in Nat
    BY <2>1, <2>2
  <2>4. globalBucket.tokens + granted <= GlobalBurst + GlobalRate * globalBucket.last
    BY <1>1, Zenon DEF IInv, TimeInv
  <2> QED
    BY <2>1, <2>3, <2>4
<1>2. IInv => GlobalRateBound
  BY <1>1, Zenon DEF GlobalRateBound
<1> QED
  BY <1>2, Invariant, PTL

----------------------------------------------------------------------------
(* Refinement of the pool of permits.                                      *)

(* The pool's cardinality is the limiter's.                                *)
LEMMA PoolCardinality ==
  ASSUME NEW S
  PROVE  Pool!Cardinality(S) = Cardinality(S)
BY Zenon DEF Pool!Cardinality, Cardinality

(* The permits the pool counts for a client are the limiter's.             *)
LEMMA HoldersOf ==
  ASSUME NEW k
  PROVE  Pool!HeldBy(k) = AtOf({"holding"}, k)
BY Zenon DEF Pool!HeldBy, At, AtOf

(* A grant finds room under both caps, whoever else is acquiring.          *)
LEMMA ChargeGrants ==
  ASSUME IInv, IInv', NEW t \in Tasks, Charge(t)
  PROVE  [Pool!Next]_(At({"holding"}))
<1>1. CASE Goto(t, "rollback")
  BY <1>1, Zenon DEF Charge, Goto, At, IInv, TypeOK
<1>2. CASE Goto(t, "holding")
  <2>1. At({"holding"})' = At({"holding"}) \cup {t} /\ t \notin At({"holding"})
    BY <1>2 DEF Charge, Goto, At, IInv, TypeOK
  <2>2. MaxConnections > 0 => Cardinality(At({"holding"})) < MaxConnections
    <3>1. Cardinality(At({"holding"})') = Cardinality(At({"holding"})) + 1
      BY <2>1, HeldWithinCounts, FS_AddElement, Zenon
    <3>2. MaxConnections > 0 => Cardinality(At({"holding"})') <= MaxConnections
      <4>1. /\ MaxConnections > 0 => globalActive = Cardinality(At(Counted))
            /\ MaxConnections > 0 => globalActive <= MaxConnections
        BY Zenon DEF IInv, CountInv, GlobalExact
      <4>2. At({"holding"})' \in SUBSET At(Counted) /\ IsFiniteSet(At(Counted))
        BY <2>1, PermitAssumption, FS_Subset, Zenon DEF Charge, At, Counted
      <4>3. /\ Cardinality(At({"holding"})') <= Cardinality(At(Counted))
            /\ Cardinality(At({"holding"})') \in Nat /\ Cardinality(At(Counted)) \in Nat
        BY <4>2, FS_Subset, FS_CardinalityType, SMTT(30)
      <4> QED
        BY <4>1, <4>3, PermitAssumption
    <3> QED
      BY <3>1, <3>2, HeldWithinCounts, PermitAssumption
  <2>3. MaxPerIp > 0 => Cardinality(Pool!HeldBy(KeyOf[t])) < MaxPerIp
    <3>1. PICK k \in Keys : k = KeyOf[t]
      BY PermitAssumption, Zenon
    <3>2. /\ MaxPerIp > 0 => active[k] < MaxPerIp
          /\ active[k] = Cardinality(AtOf(Held, k)) /\ active[k] \in Nat
      BY <3>1 DEF Charge, IInv, TypeOK, CriticalInv, Critical, CountInv, PerIpExact
    <3>3. Pool!HeldBy(k) = AtOf({"holding"}, k)
      BY HoldersOf, Zenon
    <3>4. /\ Cardinality(AtOf({"holding"}, k)) \in Nat
          /\ Cardinality(AtOf({"holding"}, k)) <= Cardinality(AtOf(Held, k))
      BY HeldWithinCounts, Zenon
    <3>5. MaxPerIp > 0 => Cardinality(AtOf({"holding"}, k)) < MaxPerIp
      BY <3>2, <3>4, PermitAssumption
    <3> QED
      BY <3>1, <3>3, <3>5, Zenon
  <2> QED
    BY <2>1, <2>2, <2>3, PoolCardinality, Zenon DEF Pool!Next, Pool!Grant
<1> QED
  BY <1>1, <1>2, Zenon DEF Charge

(* Every other step leaves the held permits alone or returns one.          *)
LEMMA StepRefines ==
  ASSUME IInv, IInv', [Next]_vars
  PROVE  [Pool!Next]_(At({"holding"}))
<1>1. ASSUME NEW t \in Tasks, NEW loc, Goto(t, loc), pc[t] # "holding", loc # "holding"
      PROVE  At({"holding"})' = At({"holding"})
  BY <1>1, Zenon DEF Goto, At, IInv, TypeOK
<1>2. ASSUME pc' = pc PROVE At({"holding"})' = At({"holding"})
  BY <1>2, Zenon DEF At
<1>3. ASSUME NEW t \in Tasks, Attempt(t) PROVE At({"holding"})' = At({"holding"})
  BY <1>1, <1>2, <1>3, Zenon DEF Attempt
<1>4. ASSUME NEW t \in Tasks, Probe(t) PROVE At({"holding"})' = At({"holding"})
  BY <1>1, <1>4, Zenon DEF Probe, Return
<1>5. ASSUME NEW t \in Tasks, Admit(t) PROVE At({"holding"})' = At({"holding"})
  <2>1. \/ Return(t)
        \/ Goto(t, IF MaxConnections > 0 THEN "load" ELSE "charge")
    BY <1>5, ZenonT(60) DEF Admit
  <2>2. pc[t] = "lock"
    BY <1>5, Zenon DEF Admit
  <2> QED
    BY <1>1, <2>1, <2>2, SMTT(30) DEF Return
<1>6. ASSUME NEW t \in Tasks, LoadActive(t) PROVE At({"holding"})' = At({"holding"})
  BY <1>1, <1>6, Zenon DEF LoadActive, Return
<1>7. ASSUME NEW t \in Tasks, CompareExchange(t) PROVE At({"holding"})' = At({"holding"})
  BY <1>1, <1>7, Zenon DEF CompareExchange
<1>8. ASSUME NEW t \in Tasks, Rollback(t) PROVE At({"holding"})' = At({"holding"})
  BY <1>1, <1>8, Zenon DEF Rollback, Return
<1>9. ASSUME NEW t \in Tasks, ReleaseEntry(t) PROVE At({"holding"})' = At({"holding"})
  BY <1>1, <1>9, Zenon DEF ReleaseEntry, Return
<1>10. ASSUME NEW t \in Tasks, Drop(t) PROVE Pool!Next
  <2>1. At({"holding"})' = At({"holding"}) \ {t} /\ t \in At({"holding"})
    BY <1>10, ZenonT(60) DEF Drop, Goto, At, IInv, TypeOK
  <2> QED
    BY <2>1, SMTT(30) DEF Pool!Next, Pool!Return
<1>11. ASSUME NEW t \in Tasks, Step(t) PROVE [Pool!Next]_(At({"holding"}))
  BY <1>4, <1>5, <1>6, <1>7, <1>8, <1>9, <1>10, <1>11, ChargeGrants, SMTT(30) DEF Step
<1>12. CASE Tick \/ ArrivalsStop \/ UNCHANGED vars
  BY <1>2, <1>12, Zenon DEF Tick, ArrivalsStop, vars
<1> QED
  BY <1>3, <1>11, <1>12, Zenon DEF Next

(* The limiter implements the pool of permits for every number of tasks,   *)
(* clients and shards and every setting of the caps and rates.             *)
THEOREM PoolImplemented == Spec => ImplementsPool
<1>1. Init => Pool!Init
  BY Zenon DEF Init, Pool!Init, At
<1>2. IInv /\ IInv' /\ [Next]_vars => [Pool!Next]_(At({"holding"}))
  BY StepRefines, Zenon
<1> QED
  BY <1>1, <1>2, Invariant, PTL DEF Spec, ImplementsPool, Pool!Spec
=============================================================================

-------------------------- MODULE AdaptiveDetector --------------------------
(***************************************************************************)
(* AdaptiveDetector of src/adaptive.rs: the signature and path-shape       *)
(* windows, the filters they activate and the events they log.             *)
(*                                                                         *)
(* One shard of each map is modelled, with its own lock: an observation is *)
(* a step on the signature shard, then one on the path-shape shard, then   *)
(* the activations and the event, and observations interleave.             *)
(***************************************************************************)
EXTENDS LimiterCore

CONSTANTS
  Observers,  \* tasks that call observe
  Signatures, Shapes,
  Reasons,    \* "strong" as in is_strong_reason, "observed", "other"
  Second,     \* ticks in a second
  Rate,       \* tokens a tick: threshold_per_second is Rate * Second
  Cooldown,   \* event_cooldown
  MaxSamples, \* MAX_SHAPE_SAMPLES_PER_SECOND
  MaxDelay,   \* bound on the time between reading the clock and the lock
  MaxObserved \* bound on the observations

ASSUME DetectorAssumption ==
  /\ Keys = Signatures \cup Shapes /\ Signatures \cap Shapes = {}
  /\ Reasons \subseteq {"strong", "observed", "other"}
  /\ Second \in Nat \ {0} /\ Rate \in Nat \ {0}
  /\ Cooldown \in Nat \ {0} /\ MaxSamples \in Nat \ {0}
  /\ MaxDelay \in Nat /\ MaxObserved \in Nat

Threshold == Rate * Second
Burst == IF Threshold > 2 THEN Threshold - 1 ELSE 1

Never == -1

VARIABLES
  clock,
  at,       \* where each observer is
  req,      \* the signature, path shape and reason it observes
  since,    \* when its current step began
  obs,      \* its results so far: sig and shape, each with activate and emit
  called,   \* what the last observation asked of the filter engine and the log
  sigs,     \* the signature shard
  sig,      \* the window of each signature
  shapes,   \* the path-shape shard
  shape,    \* the window of each path shape
  observed, \* number of observations
  touched,  \* history: when the lock was last taken for each window
  sigAt,    \* history: instants of the observations in each signature's window
  strongAt, \* history: instants of the strong ones in each path shape's window
  events,   \* history: instants of the events of each signature's window
  samples   \* history: instants of the samples of each path shape's window

tables == <<sigs, sig, shapes, shape>>
history == <<touched, sigAt, strongAt, events, samples>>
vars == <<clock, at, req, since, obs, called, tables, observed, history>>

NoRequest == [sig |-> "none", shape |-> "none", reason |-> "none"]

Silent == [activated |-> {}, event |-> "none"]

Nothing == [activate |-> FALSE, emit |-> FALSE]

FreshSig(now) == [bucket |-> FullBucket(Burst, now), lastEvent |-> Never, lastStrong |-> Never,
                  lastSeen |-> now]

FreshShape(now) == [bucket |-> FullBucket(Burst, now), strong |-> FullBucket(Burst, now),
                    start |-> now, emitted |-> 0, lastSeen |-> now]

Init ==
  /\ clock = 0 /\ observed = 0
  /\ at = [o \in Observers |-> "idle"]
  /\ req = [o \in Observers |-> NoRequest]
  /\ since = [o \in Observers |-> 0]
  /\ obs = [o \in Observers |-> [sig |-> Nothing, shape |-> Nothing]]
  /\ called = Silent
  /\ touched = [k \in Keys |-> 0]
  /\ sigs = [keys |-> {}, order |-> << >>] /\ shapes = sigs
  /\ sig = [s \in Signatures |-> FreshSig(0)]
  /\ shape = [p \in Shapes |-> FreshShape(0)]
  /\ sigAt = [s \in Signatures |-> << >>] /\ events = sigAt
  /\ strongAt = [p \in Shapes |-> << >>] /\ samples = strongAt

----------------------------------------------------------------------------
(* now is read before the lock is taken, so observers may use their        *)
(* instants in another order than they read them.                          *)
Instants(o) == {t \in since[o]..clock : clock - t <= MaxDelay}

(* saturating_duration_since                                               *)
Elapsed(now, then) == IF now > then THEN now - then ELSE 0

(* ensure_window_capacity, called for a key without a window.              *)
\* Mutant: any window may go, and so the oldest does.
AnyWindow(windows, now) == DOMAIN windows

IdleWindows(windows, now) ==
  {k \in DOMAIN windows : Elapsed(now, windows[k].lastSeen) >= IdleTicks}

MakeRoom(shard, windows, k, now) ==
  IF k \in shard.keys \/ HasRoom(shard) THEN shard ELSE EvictFirst(shard, IdleWindows(windows, now))

Admitted(shard, k) == k \in shard.keys \/ HasRoom(shard)

Entered(shard, k) == IF k \in shard.keys THEN shard ELSE Insert(shard, k)

(* The history of a window that is gone goes with it.                      *)
Only(shard, h) == [k \in DOMAIN h |-> IF k \in shard.keys THEN h[k] ELSE << >>]

(* threshold_per_second == 1 || !bucket.allow(now, 1.0)                    *)
Refilled(b, now) == Refill(b, Rate, Burst, now)

Pressure(b, now) == Threshold = 1 \/ Refilled(b, now).tokens < 1

Charged(b, now) ==
  IF Threshold = 1 THEN b
  ELSE IF Pressure(b, now) THEN Refilled(b, now) ELSE Consume(Refilled(b, now))

----------------------------------------------------------------------------
Observe(o, s, p, r) ==
  /\ at[o] = "idle" /\ observed < MaxObserved
  /\ req' = [req EXCEPT ![o] = [sig |-> s, shape |-> p, reason |-> r]]
  /\ at' = [at EXCEPT ![o] = "signature"]
  /\ since' = [since EXCEPT ![o] = clock]
  /\ observed' = observed + 1
  /\ UNCHANGED <<clock, obs, called, tables, history>>

(* should_track_path_shape                                                 *)
TracksShape(reason) == reason \in {"observed", "strong"}

CooledDown(last, now) == last = Never \/ Elapsed(now, last) >= Cooldown

\* Mutant: a strong event does not wait for the cooldown.
StrongEmitAlways(w, strong, activate, now) == strong /\ activate

StrongEmit(w, strong, activate, now) == strong /\ activate /\ CooledDown(w.lastStrong, now)

ObserveSignature(o, now) ==
  LET s        == req[o].sig
      room     == MakeRoom(sigs, sig, s, now)
      w        == IF s \in room.keys THEN sig[s] ELSE FreshSig(now)
      activate == Pressure(w.bucket, now)
      regular  == activate /\ CooledDown(w.lastEvent, now)
      strongly == StrongEmit(w, req[o].reason = "strong", activate, now)
  IN  /\ at[o] = "signature"
      /\ at' = [at EXCEPT ![o] = IF TracksShape(req[o].reason) THEN "shape" ELSE "publish"]
      /\ since' = [since EXCEPT ![o] = clock]
      /\ IF ~Admitted(room, s)
         THEN /\ sigs' = room /\ UNCHANGED <<sig, obs, touched>>
              /\ sigAt' = Only(room, sigAt) /\ events' = Only(room, events)
         ELSE /\ sigs' = Entered(room, s)
              /\ sig' = [sig EXCEPT ![s] =
                   [bucket |-> Charged(w.bucket, now), lastSeen |-> now,
                    lastEvent  |-> IF regular THEN now ELSE w.lastEvent,
                    lastStrong |-> IF strongly THEN now ELSE w.lastStrong]]
              /\ obs' = [obs EXCEPT ![o].sig =
                   [activate |-> activate, emit |-> regular \/ strongly]]
              /\ touched' = [touched EXCEPT ![s] = clock]
              /\ sigAt' = [Only(room, sigAt) EXCEPT ![s] = Append(@, now)]
              /\ events' = [Only(room, events) EXCEPT ![s] =
                   IF regular \/ strongly THEN Append(@, now) ELSE @]
      /\ UNCHANGED <<clock, req, called, shapes, shape, observed, strongAt, samples>>

----------------------------------------------------------------------------
\* Mutant: pressure of any kind activates the path shape.
AnyPressure(pressure, strongly) == pressure \/ strongly

ShapeActivated(pressure, strongly) == strongly

(* The one-second sample window.                                           *)
SampleWindow(w, now) ==
  IF Elapsed(now, w.start) >= Second THEN [w EXCEPT !.start = now, !.emitted = 0] ELSE w

ObserveShape(o, now) ==
  LET p        == req[o].shape
      strong   == req[o].reason = "strong"
      room     == MakeRoom(shapes, shape, p, now)
      w        == SampleWindow(IF p \in room.keys THEN shape[p] ELSE FreshShape(now), now)
      pressure == Pressure(w.bucket, now)
      strongly == strong /\ Pressure(w.strong, now)
      emit     == (pressure \/ strongly) /\ w.emitted < MaxSamples
  IN  /\ at[o] = "shape"
      /\ at' = [at EXCEPT ![o] = "publish"]
      /\ IF ~Admitted(room, p)
         THEN /\ shapes' = room /\ UNCHANGED <<obs, shape, touched>>
              /\ strongAt' = Only(room, strongAt) /\ samples' = Only(room, samples)
         ELSE /\ shapes' = Entered(room, p)
              /\ shape' = [shape EXCEPT ![p] =
                   [w EXCEPT !.bucket = Charged(@, now),
                             !.strong = IF strong THEN Charged(@, now) ELSE @,
                             !.emitted = IF emit THEN @ + 1 ELSE @, !.lastSeen = now]]
              /\ obs' = [obs EXCEPT ![o].shape =
                   [activate |-> ShapeActivated(pressure, strongly), emit |-> emit]]
              /\ touched' = [touched EXCEPT ![p] = clock]
              /\ strongAt' = [Only(room, strongAt) EXCEPT ![p] =
                   IF strong THEN Append(@, now) ELSE @]
              /\ samples' = [Only(room, samples) EXCEPT ![p] =
                   IF emit THEN Append(@, now) ELSE @]
      /\ UNCHANGED <<clock, req, since, called, sigs, sig, observed, sigAt, events>>

(* activate_signature, activate_path_shape and log_event: the shape's      *)
(* event is logged only when the signature has none.                       *)
Publish(o) ==
  /\ at[o] = "publish"
  /\ at' = [at EXCEPT ![o] = "idle"]
  /\ called' =
       [activated |-> {k \in Keys : \/ k = req[o].sig /\ obs[o].sig.activate
                                    \/ k = req[o].shape /\ obs[o].shape.activate},
        event |-> IF obs[o].sig.emit THEN "signature"
                  ELSE IF obs[o].shape.emit THEN "shape" ELSE "none"]
  /\ obs' = [obs EXCEPT ![o] = [sig |-> Nothing, shape |-> Nothing]]
  /\ req' = [req EXCEPT ![o] = NoRequest]
  /\ since' = [since EXCEPT ![o] = 0]
  /\ UNCHANGED <<clock, tables, observed, history>>

Tick ==
  /\ clock < MaxClock
  /\ clock' = clock + 1
  /\ UNCHANGED <<at, req, since, obs, called, tables, observed, history>>

Next ==
  \/ \E o \in Observers :
       \/ \E s \in Signatures, p \in Shapes, r \in Reasons : Observe(o, s, p, r)
       \/ \E now \in Instants(o) : ObserveSignature(o, now) \/ ObserveShape(o, now)
       \/ Publish(o)
  \/ Tick

Spec == Init /\ [][Next]_vars

----------------------------------------------------------------------------
TypeOK ==
  /\ clock \in 0..MaxClock /\ observed \in 0..MaxObserved
  /\ at \in [Observers -> {"idle", "signature", "shape", "publish"}]
  /\ sigs.keys \subseteq Signatures /\ OrderMatches(sigs) /\ Cardinality(sigs.keys) <= Capacity
  /\ shapes.keys \subseteq Shapes /\ OrderMatches(shapes) /\ Cardinality(shapes.keys) <= Capacity
  /\ \A s \in Signatures : sig[s].bucket \in Bucket(Burst)
  /\ \A p \in Shapes : shape[p].bucket \in Bucket(Burst) /\ shape[p].strong \in Bucket(Burst)

(* From some observation on they came faster than the threshold, the      *)
(* burst included; slack is time that the bucket did not see.              *)
Flood(times, slack) == \E i \in 1..Len(times) :
  Len(times) - i + 1 >= Threshold + Rate * (times[Len(times)] - times[i] - slack)

(* The last Threshold observations are all of one instant.                 *)
Suddenly(times) ==
  /\ Len(times) >= Threshold
  /\ \A i \in (Len(times) - Threshold + 1)..Len(times) : times[i] = times[Len(times)]

(* A step that adds an observation of key k to its history h.              *)
Adds(h, k) == Len(h'[k]) > Len(h[k])

(* Filters are activated only by a flood, and by any flood that comes at   *)
(* once: threshold_per_second observations of one instant are never        *)
(* missed, in whatever state the window was.  A signature's count all its  *)
(* observations; a path shape's count denied requests only, so observed    *)
(* traffic alone never activates them, although it shares the window and   *)
(* advances its clock.                                                     *)
FloodsActivate ==
  [][\A o \in Observers :
       LET s == req[o].sig
           p == req[o].shape
       IN  /\ at[o] = "signature" /\ at'[o] # "signature" /\ Adds(sigAt, s) =>
                /\ obs'[o].sig.activate => Flood(sigAt'[s], 0)
                /\ Suddenly(sigAt'[s]) => obs'[o].sig.activate
           /\ at[o] = "shape" /\ at'[o] # "shape" =>
                /\ obs'[o].shape.activate => Adds(strongAt, p) /\ Flood(strongAt'[p], MaxDelay)
                /\ Adds(strongAt, p) /\ Suddenly(strongAt'[p]) => obs'[o].shape.activate]_vars

(* No window that was observed less than the idle time ago is evicted,     *)
(* however many new keys arrive; an instant read long before the lock is   *)
(* taken can cost a window that much of its time.                          *)
EvidenceKept ==
  [][\A k \in (sigs.keys \cup shapes.keys) \ (sigs'.keys \cup shapes'.keys) :
       clock - touched[k] >= IdleTicks - MaxDelay]_vars

(* What is logged of a tracked signature or path shape is bounded: at most *)
(* two events of a signature in a cooldown, a regular and a strong one,    *)
(* and, as the sample windows tumble, two budgets of samples of a shape in *)
(* any second.  An observer that enters the shard late with an instant it  *)
(* read early shortens both periods by as much.                            *)
LoggingBounded ==
  /\ \A s \in Signatures : \A i \in 1..(Len(events[s]) - 2) :
       events[s][i + 2] - events[s][i] >= Cooldown - MaxDelay
  /\ \A p \in Shapes : \A i \in 1..(Len(samples[p]) - 2 * MaxSamples) :
       samples[p][i + 2 * MaxSamples] - samples[p][i] >= Second - MaxDelay
=============================================================================

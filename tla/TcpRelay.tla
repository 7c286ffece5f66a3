------------------------------ MODULE TcpRelay ------------------------------
(***************************************************************************)
(* One accepted connection of src/tcp_proxy.rs, from the spawn that holds  *)
(* its permit to the end of the task that drops it: the timed connect, and *)
(* relay_bidirectional_with_idle, whose two directions each read, judge    *)
(* the rate, write and report activity to the shared idle monitor.         *)
(*                                                                         *)
(* The task is a single select! over both directions, the activity channel *)
(* (capacity one) and the idle timer, under the timer of the maximum       *)
(* duration.  Timers fire on time and a pending activity is taken in the   *)
(* tick it was sent; within a tick the branches run in any order.          *)
(***************************************************************************)
EXTENDS RateGuard

CONSTANTS
  Sizes,        \* bytes a read may return
  IdleTicks,    \* idle_timeout_seconds, positive by validation
  ConnectTicks, \* connect_timeout_ms
  MaxTicks,     \* max_connection_duration_seconds
  DownMin,      \* downstream_min_rate_bytes_per_second, 0 is off
  UpMin,        \* upstream_min_rate_bytes_per_second
  DownBytes,    \* bound on the bytes the client sends
  UpBytes       \* bound on the bytes the origin sends

ASSUME TcpRelayAssumption ==
  /\ Sizes \subseteq Nat \ {0}
  /\ IdleTicks \in Nat \ {0} /\ ConnectTicks \in Nat \ {0} /\ MaxTicks \in Nat \ {0}
  /\ DownMin \in Nat /\ UpMin \in Nat /\ DownBytes \in Nat /\ UpBytes \in Nat

(* downstream_to_upstream and upstream_to_downstream, by where they read.  *)
Sides == {"downstream", "upstream"}
Other(d) == IF d = "downstream" THEN "upstream" ELSE "downstream"
MinOf(d) == IF d = "downstream" THEN DownMin ELSE UpMin
BytesOf(d) == IF d = "downstream" THEN DownBytes ELSE UpBytes
TooSlow(d) == IF d = "downstream" THEN "DownstreamTooSlow" ELSE "UpstreamTooSlow"

Outcomes == {"Completed", "IdleTimeout", "DownstreamTooSlow", "UpstreamTooSlow", "IoError",
             "MaxDuration", "ConnectFailed"}

VARIABLES
  clock,
  conn,      \* "connecting", "relaying" or its outcome
  endBy,     \* deadline of the enclosing timeout: connect, then maximum duration
  dir,       \* what each direction awaits: "read", "write", or it is "done"
  buf,       \* bytes each direction has read and not written
  writeBy,   \* deadline of a direction's write_all_with_idle
  rate,      \* each direction's TcpRateGuard
  activity,  \* whether the activity channel holds its one message
  idleAt,    \* deadline of idle_sleep
  sent,      \* history: bytes read from each side
  judged,    \* history: those read after the grace period
  wrote,     \* history: whether a write has completed in this tick
  quietFrom  \* history: the last tick before this one with a completed write

dirs == <<dir, buf, writeBy, rate>>
monitor == <<activity, idleAt>>
history == <<sent, judged, wrote, quietFrom>>
vars == <<clock, conn, endBy, dirs, monitor, history>>

Relaying == conn = "relaying"

Init ==
  /\ clock = 0 /\ conn = "connecting" /\ endBy = ConnectTicks
  /\ dir = [d \in Sides |-> "read"]
  /\ buf = [d \in Sides |-> 0]
  /\ writeBy = [d \in Sides |-> NotYet]
  /\ rate = [d \in Sides |-> NewGuard]
  /\ activity = FALSE /\ idleAt = NotYet
  /\ sent = buf /\ judged = buf /\ wrote = FALSE /\ quietFrom = 0

(* The task ends: both sockets and the permit are dropped.                 *)
End(outcome) ==
  /\ conn' = outcome
  /\ UNCHANGED <<clock, endBy, dirs, monitor, history>>

----------------------------------------------------------------------------
Connect ==
  /\ conn = "connecting"
  /\ conn' = "relaying"
  /\ endBy' = clock + MaxTicks
  /\ idleAt' = clock + IdleTicks
  /\ quietFrom' = clock
  /\ UNCHANGED <<clock, dirs, activity, sent, judged, wrote>>

(* Refused, or the connect timeout.                                        *)
ConnectFails == conn = "connecting" /\ End("ConnectFailed")

----------------------------------------------------------------------------
(* relay_direction.                                                        *)

(* TcpRateGuard::observe starts the guard at its first bytes.              *)
Observed(d) == Started(rate[d], MinOf(d), clock)

Read(d, n) ==
  /\ Relaying /\ dir[d] = "read" /\ sent[d] + n <= BytesOf(d)
  /\ Accepts(Observed(d), n, MinOf(d), clock)
  /\ rate' = [rate EXCEPT ![d] = Recorded(Observed(d), MinOf(d), clock)]
  /\ dir' = [dir EXCEPT ![d] = "write"]
  /\ buf' = [buf EXCEPT ![d] = n]
  /\ writeBy' = [writeBy EXCEPT ![d] = clock + IdleTicks]
  /\ sent' = [sent EXCEPT ![d] = @ + n]
  /\ judged' = [judged EXCEPT ![d] = IF InGrace(Observed(d), clock) THEN @ ELSE @ + n]
  /\ UNCHANGED <<clock, conn, endBy, monitor, wrote, quietFrom>>

ReadTooSlow(d, n) ==
  /\ Relaying /\ dir[d] = "read" /\ sent[d] + n <= BytesOf(d)
  /\ ~Accepts(Observed(d), n, MinOf(d), clock)
  /\ End(TooSlow(d))

\* Mutant: the connection is done with the first direction that is.
EofEndsBoth(d) ==
  /\ Relaying /\ dir[d] = "read"
  /\ dir' = [dir EXCEPT ![d] = "done"]
  /\ conn' = "Completed"
  /\ UNCHANGED <<clock, endBy, buf, writeBy, rate, monitor, history>>

(* read returned 0: the other side's writer is shut down, this direction   *)
(* is Completed, and so is the relay when both are.                        *)
Eof(d) ==
  /\ Relaying /\ dir[d] = "read"
  /\ dir' = [dir EXCEPT ![d] = "done"]
  /\ conn' = IF dir[Other(d)] = "done" THEN "Completed" ELSE conn
  /\ UNCHANGED <<clock, endBy, buf, writeBy, rate, monitor, history>>

(* write_all is through; try_send leaves a full channel as it is.          *)
Written(d) ==
  /\ Relaying /\ dir[d] = "write"
  /\ dir' = [dir EXCEPT ![d] = "read"]
  /\ buf' = [buf EXCEPT ![d] = 0]
  /\ writeBy' = [writeBy EXCEPT ![d] = NotYet]
  /\ activity' = TRUE
  /\ wrote' = TRUE
  /\ UNCHANGED <<clock, conn, endBy, rate, idleAt, sent, judged, quietFrom>>

WriteTimeout(d) ==
  /\ Relaying /\ dir[d] = "write" /\ clock >= writeBy[d]
  /\ End("IdleTimeout")

IoError(d) == Relaying /\ dir[d] # "done" /\ End("IoError")

----------------------------------------------------------------------------
(* The other branches of select!, and the enclosing timeout.               *)

Activity ==
  /\ Relaying /\ activity
  /\ activity' = FALSE
  /\ idleAt' = clock + IdleTicks
  /\ UNCHANGED <<clock, conn, endBy, dirs, history>>

IdleFires == Relaying /\ clock >= idleAt /\ End("IdleTimeout")

\* Mutant: the maximum duration only ends connections that are idle.
MaxDurationWhenIdle == Relaying /\ clock >= endBy /\ clock >= idleAt /\ End("MaxDuration")

MaxDuration == Relaying /\ clock >= endBy /\ End("MaxDuration")

(* Time passes when every future of the task is pending.                   *)
Tick ==
  /\ conn \in {"connecting", "relaying"}
  /\ clock < endBy
  /\ Relaying => /\ clock < idleAt /\ ~activity
                 /\ \A d \in Sides : dir[d] = "write" => clock < writeBy[d]
  /\ clock' = clock + 1
  /\ quietFrom' = IF wrote THEN clock ELSE quietFrom
  /\ wrote' = FALSE
  /\ UNCHANGED <<conn, endBy, dirs, monitor, sent, judged>>

Next ==
  \/ Connect \/ ConnectFails
  \/ \E d \in Sides :
       \/ \E n \in Sizes : Read(d, n) \/ ReadTooSlow(d, n)
       \/ Eof(d) \/ Written(d) \/ WriteTimeout(d) \/ IoError(d)
  \/ Activity \/ IdleFires \/ MaxDuration
  \/ Tick

(* Timers fire and the clock goes on; peers owe nothing.                   *)
Fairness ==
  /\ WF_vars(ConnectFails /\ clock >= endBy)
  /\ WF_vars(Activity) /\ WF_vars(IdleFires) /\ WF_vars(MaxDuration)
  /\ \A d \in Sides : WF_vars(WriteTimeout(d))
  /\ WF_vars(Tick)

Spec == Init /\ [][Next]_vars /\ Fairness

----------------------------------------------------------------------------
TypeOK ==
  /\ clock \in 0..(ConnectTicks + MaxTicks) /\ endBy \in Nat
  /\ conn \in {"connecting", "relaying"} \cup Outcomes
  /\ dir \in [Sides -> {"read", "write", "done"}]
  /\ \A d \in Sides : buf[d] \in 0..BytesOf(d) /\ (buf[d] > 0 <=> dir[d] = "write")
  /\ writeBy \in [Sides -> Nat \cup {NotYet}]
  /\ rate \in [Sides -> Guards]
  /\ activity \in BOOLEAN /\ idleAt \in Nat \cup {NotYet}

(* The relay reports Completed only when both sides have closed and every  *)
(* byte each had sent is written: a half-close never cuts the answer that  *)
(* is still on its way in the other direction.                             *)
CompletedDelivers ==
  conn = "Completed" => \A d \in Sides : dir[d] = "done" /\ buf[d] = 0

(* Activity is reported late (after the write), through a channel that     *)
(* drops what does not fit, to a timer that may win the race of its tick.  *)
(* Still an idle timeout means that a whole idle_timeout has passed either *)
(* without a completed write in any earlier tick, or inside one write.     *)
IdleDeserved ==
  conn = "IdleTimeout" =>
    \/ clock - quietFrom >= IdleTicks
    \/ \E d \in Sides : dir[d] = "write" /\ clock >= writeBy[d]

(* A third of the minimum rate, on average since the grace period.         *)
KeepsThird(d) == rate[d].window # NotYet =>
  3 * Scale * judged[d] >= MinOf(d) * (rate[d].window - rate[d].started - Grace)

(* When the minimum is at most one byte per unit of the guard's clock (1   *)
(* byte per millisecond), the average of each direction since its grace    *)
(* period stays at a third of the minimum or more: rounding elapsed time   *)
(* and the requirement down, window after window, costs no more.           *)
RateFloor == \A d \in Sides : MinOf(d) * Unit <= Scale => KeepsThird(d)

(* Every accepted connection ends, so its permit is released.              *)
ConnectionEnds == <>(conn \in Outcomes)
=============================================================================

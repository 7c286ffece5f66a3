----------------------------- MODULE BodyGuard -----------------------------
(***************************************************************************)
(* One response body on its way through the proxy: ResponseGuardBody of    *)
(* src/http_proxy.rs and DownstreamWriteTimeoutIo, through which hyper     *)
(* writes what it polled to the client.  GuardedBody, of requests, has the *)
(* same poll_frame, so what is said here of the idle timer and of the rate *)
(* guard is true of it too; but its frames go to the upstream over a       *)
(* connection without a write timer, so what is said of writes is not.     *)
(*                                                                         *)
(* hyper is taken to poll for a frame only when the last one is written,   *)
(* where it may keep a few in its buffer, so that the receiver is either   *)
(* polling (out = 0) or writing (out > 0).  Timers fire on time: Tick is   *)
(* not enabled while an expired one is waiting.                            *)
(***************************************************************************)
EXTENDS RateGuard

CONSTANTS
  Sizes,       \* lengths of data frames
  MaxBytes,    \* max_bytes of the body, positive by validation
  IdleTicks,   \* idle_timeout
  WriteTicks,  \* downstream_write_timeout
  Min,         \* min_rate_bytes_per_second, 0 is off
  Forward      \* trailer_policy.forward

VARIABLES
  clock,
  body,       \* "open", or how it ended
  remaining,
  idleSleep,  \* deadline of idle_sleep, NotYet for None
  guard,      \* rate_guard
  out,        \* polled bytes not yet written
  writeSleep, \* deadline of write_sleep, NotYet for None
  judged,     \* history: data bytes handed to the receiver after the grace period
  polledAt,   \* history: since when the receiver has been polling for a frame
  wroteAt     \* history: when a write last made progress or the first was tried

vars == <<clock, body, remaining, idleSleep, guard, out, writeSleep, judged, polledAt, wroteAt>>

Errors == {"TooLarge", "IdleTimeout", "TooSlow", "TrailersTooLarge", "Inner", "WriteTimeout"}

Open == body = "open"
Polling == Open /\ out = 0

(* What poll_frame does before it asks the inner body.                     *)
Sleeping == IF idleSleep = NotYet THEN clock + IdleTicks ELSE idleSleep
Guarding == Started(guard, Min, clock)

Init ==
  /\ clock = 0 /\ body = "open" /\ remaining = MaxBytes
  /\ idleSleep = NotYet /\ guard = NewGuard
  /\ out = 0 /\ writeSleep = NotYet
  /\ judged = 0 /\ polledAt = 0 /\ wroteAt = 0

----------------------------------------------------------------------------
(* poll_frame, by what the inner body answers.                             *)

Fits(n) == n <= remaining

DataTooLarge(n) ==
  /\ Polling /\ ~Fits(n)
  /\ idleSleep' = NotYet /\ guard' = Guarding
  /\ remaining' = 0
  /\ body' = "TooLarge"
  /\ UNCHANGED <<clock, out, writeSleep, judged, polledAt, wroteAt>>

DataTooSlow(n) ==
  /\ Polling /\ Fits(n) /\ ~Accepts(Guarding, n, Min, clock)
  /\ idleSleep' = NotYet /\ guard' = Guarding
  /\ remaining' = remaining - n
  /\ body' = "TooSlow"
  /\ UNCHANGED <<clock, out, writeSleep, judged, polledAt, wroteAt>>

Data(n) ==
  /\ Polling /\ Fits(n) /\ Accepts(Guarding, n, Min, clock)
  /\ idleSleep' = NotYet
  /\ guard' = Recorded(Guarding, Min, clock)
  /\ remaining' = remaining - n
  /\ out' = n
  /\ judged' = IF InGrace(Guarding, clock) THEN judged ELSE judged + n
  /\ wroteAt' = clock
  /\ UNCHANGED <<clock, body, writeSleep, polledAt>>

(* Trailers end the body: dropped, forwarded, or refused.                  *)
Trailers(valid) ==
  /\ Polling
  /\ idleSleep' = NotYet /\ guard' = Guarding
  /\ body' = IF Forward /\ ~valid THEN "TrailersTooLarge" ELSE "ended"
  /\ UNCHANGED <<clock, remaining, out, writeSleep, judged, polledAt, wroteAt>>

(* The inner body ends or fails; idle_sleep is left as it is.              *)
Finish(how) ==
  /\ Polling
  /\ idleSleep' = Sleeping /\ guard' = Guarding
  /\ body' = how
  /\ UNCHANGED <<clock, remaining, out, writeSleep, judged, polledAt, wroteAt>>

\* Mutant: every poll starts a new idle timer.
PendingRestarts ==
  /\ Polling
  /\ guard' = Guarding
  /\ idleSleep' = clock + IdleTicks /\ body' = body
  /\ UNCHANGED <<clock, remaining, out, writeSleep, judged, polledAt, wroteAt>>

(* Nothing yet: the task parks on the idle timer or finds it expired.      *)
Pending ==
  /\ Polling
  /\ guard' = Guarding
  /\ IF clock >= Sleeping
     THEN idleSleep' = NotYet /\ body' = "IdleTimeout"
     ELSE idleSleep' = Sleeping /\ body' = body
  /\ UNCHANGED <<clock, remaining, out, writeSleep, judged, polledAt, wroteAt>>

----------------------------------------------------------------------------
(* poll_write, by what the socket answers.                                 *)

Write(k) ==
  /\ Open /\ k \in 1..out
  /\ out' = out - k
  /\ writeSleep' = NotYet
  /\ wroteAt' = clock
  /\ polledAt' = IF out = k THEN clock ELSE polledAt
  /\ UNCHANGED <<clock, body, remaining, idleSleep, guard, judged>>

WriteFails ==
  /\ Open /\ out > 0
  /\ writeSleep' = NotYet
  /\ body' = "Inner"
  /\ UNCHANGED <<clock, remaining, idleSleep, guard, out, judged, polledAt, wroteAt>>

(* The socket is full: poll_write_timeout.                                 *)
WritePending ==
  LET deadline == IF writeSleep = NotYet THEN clock + WriteTicks ELSE writeSleep
  IN  /\ Open /\ out > 0
      /\ IF clock >= deadline
         THEN writeSleep' = NotYet /\ body' = "WriteTimeout"
         ELSE writeSleep' = deadline /\ body' = body
      /\ UNCHANGED <<clock, remaining, idleSleep, guard, out, judged, polledAt, wroteAt>>

----------------------------------------------------------------------------
(* Time passes while the task is parked on a timer that has not expired.   *)
Tick ==
  /\ Open
  /\ IF out = 0 THEN clock < idleSleep ELSE clock < writeSleep
  /\ clock' = clock + 1
  /\ UNCHANGED <<body, remaining, idleSleep, guard, out, writeSleep, judged, polledAt, wroteAt>>

Next ==
  \/ \E n \in Sizes : Data(n) \/ DataTooLarge(n) \/ DataTooSlow(n)
  \/ \E valid \in BOOLEAN : Trailers(valid)
  \/ \E how \in {"ended", "Inner"} : Finish(how)
  \/ Pending
  \/ \E k \in 1..out : Write(k)
  \/ WriteFails
  \/ WritePending
  \/ Tick

(* A parked task is woken by its timer, and the clock goes on.             *)
Fairness == WF_vars(Pending) /\ WF_vars(WritePending) /\ WF_vars(Tick)

Spec == Init /\ [][Next]_vars /\ Fairness

----------------------------------------------------------------------------
TypeOK ==
  /\ clock \in Nat /\ body \in {"open", "ended"} \cup Errors
  /\ remaining \in 0..MaxBytes
  /\ idleSleep \in Nat \cup {NotYet} /\ writeSleep \in Nat \cup {NotYet}
  /\ guard \in Guards /\ guard.started <= clock /\ guard.window <= clock
  /\ out \in 0..MaxBytes
  /\ judged \in Nat /\ polledAt \in 0..clock /\ wroteAt \in 0..clock

(* The guard forgets a window when it accepts it, rounds what it requires  *)
(* down and forgives the grace period, yet the average over all windows    *)
(* since the grace period stays at half the minimum rate or more, up to    *)
(* the window that is open.                                                *)
RateFloor ==
  guard.window # NotYet =>
    2 * Scale * judged >= Min * (guard.window - guard.started - Grace)

(* Both timers are exact.  Neither is pushed back by being polled, and     *)
(* neither counts the other's time: a body is not held longer than         *)
(* idle_timeout without a frame while the receiver polls, nor longer than  *)
(* the write timeout without progress while it writes; and it is ended by  *)
(* one of them only after a whole timeout of that, so that the time the    *)
(* receiver takes to write is never charged to the sender.                 *)
TimersExact ==
  /\ Open => IF out = 0 THEN clock - polledAt <= IdleTicks ELSE clock - wroteAt <= WriteTicks
  /\ body = "IdleTimeout" => clock - polledAt >= IdleTicks
  /\ body = "WriteTimeout" => clock - wroteAt >= WriteTicks

(* Every body ends, whatever sender and receiver do or fail to do, so the  *)
(* permits it holds are released.                                          *)
BodyEnds == <>(~Open)
=============================================================================

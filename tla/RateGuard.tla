----------------------------- MODULE RateGuard -----------------------------
(***************************************************************************)
(* The minimum data rate guard: BodyRateGuard of src/http_proxy.rs and     *)
(* TcpRateGuard of src/tcp_proxy.rs.  The two differ in the unit elapsed   *)
(* time is truncated to (nanoseconds, milliseconds) and in when they       *)
(* start (at the first poll, at the first bytes).                          *)
(*                                                                         *)
(* A guard is a record: when it started, when the current window started   *)
(* (NotYet until the grace period is over) and the window's bytes.         *)
(***************************************************************************)
EXTENDS Integers

CONSTANTS
  Scale,  \* ticks of the clock in a second
  Unit,   \* ticks in the unit elapsed time is truncated to
  Grace   \* ticks before the rate is enforced

ASSUME RateGuardAssumption ==
  /\ Scale \in Nat \ {0} /\ Unit \in Nat \ {0} /\ Grace \in Nat
  /\ Scale % Unit = 0

NotYet == -1

NewGuard == [started |-> NotYet, window |-> NotYet, bytes |-> 0]

Guards == [started: Nat \cup {NotYet}, window: Nat \cup {NotYet}, bytes: Nat]

Started(g, min, now) ==
  IF min > 0 /\ g.started = NotYet THEN [g EXCEPT !.started = now] ELSE g

(* Where the window being judged began.                                    *)
WindowStart(g) == IF g.window = NotYet THEN g.started + Grace ELSE g.window

\* Mutant: elapsed time is truncated to whole seconds.
RequiredBySeconds(g, min, now) == min * ((now - WindowStart(g)) \div Scale)

(* The bytes a window up to now has to hold.                               *)
Required(g, min, now) == (min * ((now - WindowStart(g)) \div Unit)) \div (Scale \div Unit)

InGrace(g, now) == g.window = NotYet /\ now - g.started <= Grace

(* record / observe: n bytes at instant now, for a started guard.          *)
Accepts(g, n, min, now) ==
  min = 0 \/ InGrace(g, now) \/ g.bytes + n >= Required(g, min, now)

(* The guard after accepting: a new, empty window.                         *)
Recorded(g, min, now) ==
  IF min = 0 \/ InGrace(g, now) THEN g ELSE [g EXCEPT !.window = now, !.bytes = 0]
=============================================================================

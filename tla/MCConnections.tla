---------------------------- MODULE MCConnections ----------------------------
(***************************************************************************)
(* One relayed TCP connection and one guarded HTTP body for TLC.  In the   *)
(* daemon they belong to separate tasks that share nothing modelled here,  *)
(* so a behaviour follows one of them and the other is already over.       *)
(***************************************************************************)
EXTENDS TcpRelay

CONSTANTS BodyScale, BodyGrace, BodySizes, BodyMaxBytes, BodyIdleTicks,
          WriteTicks, BodyMin, Forward     \* those of BodyGuard

VARIABLES bodyClock, body, remaining, idleSleep, guard, out, writeSleep,
          bodyJudged, polledAt, wroteAt

B == INSTANCE BodyGuard WITH Scale <- BodyScale, Unit <- 1, Grace <- BodyGrace,
       Sizes <- BodySizes, MaxBytes <- BodyMaxBytes, IdleTicks <- BodyIdleTicks,
       Min <- BodyMin, clock <- bodyClock, judged <- bodyJudged

bodyVars == <<bodyClock, body, remaining, idleSleep, guard, out, writeSleep,
              bodyJudged, polledAt, wroteAt>>

ASSUME BodyGuardAssumption ==
  /\ BodySizes \subseteq Nat \ {0}
  /\ BodyScale \in Nat \ {0} /\ BodyGrace \in Nat
  /\ BodyMaxBytes \in Nat \ {0} /\ BodyIdleTicks \in Nat \ {0}
  /\ WriteTicks \in Nat \ {0} /\ BodyMin \in Nat /\ Forward \in BOOLEAN

-----------------------------------------------------------------------------
RelayOver ==
  /\ clock = 0 /\ conn = "Completed" /\ endBy = 0
  /\ dir = [d \in Sides |-> "done"] /\ buf = [d \in Sides |-> 0]
  /\ writeBy = [d \in Sides |-> NotYet] /\ rate = [d \in Sides |-> NewGuard]
  /\ activity = FALSE /\ idleAt = NotYet
  /\ sent = buf /\ judged = buf /\ wrote = FALSE /\ quietFrom = 0

BodyOver ==
  /\ bodyClock = 0 /\ body = "ended" /\ remaining = 0
  /\ idleSleep = NotYet /\ guard = NewGuard /\ out = 0 /\ writeSleep = NotYet
  /\ bodyJudged = 0 /\ polledAt = 0 /\ wroteAt = 0

MCInit ==
  \/ Init /\ BodyOver
  \/ RelayOver /\ B!Init

MCNext ==
  \/ Next /\ UNCHANGED bodyVars
  \/ B!Next /\ UNCHANGED vars

MCSpec ==
  MCInit /\ [][MCNext]_<<vars, bodyVars>> /\ Fairness /\ B!Fairness

-----------------------------------------------------------------------------
(* Every timer of a transfer is exact: those of a body (TimersExact of     *)
(* BodyGuard: poll_frame's idle timer and the write timer of               *)
(* DownstreamWriteTimeoutIo), and the relay's shared idle monitor          *)
(* (IdleDeserved of TcpRelay: relay_bidirectional_with_idle).              *)
TimersExact == B!TimersExact /\ IdleDeserved

(* The rate guards of bodies (BodyRateGuard) and relay directions          *)
(* (TcpRateGuard) forgive rounding and grace, yet never let the average    *)
(* fall under half, or a third, of the configured minimum.                 *)
RateFloors == B!RateFloor /\ RateFloor

(* Every relayed connection and every body ends, whatever the peers do or  *)
(* fail to do, so the permits they hold are released.                      *)
TransfersEnd == ConnectionEnds /\ B!BodyEnds
=============================================================================

------------------------------ MODULE BenchPhase ------------------------------
(***************************************************************************)
(* One load phase of the bench tools: worker threads issue requests until  *)
(* the phase is over and hand their counts to the thread that started them.*)
(* Three programs do this in three ways:                                   *)
(*   "defense"  run_phase of src/tools/run_defense_bench.py: workers add   *)
(*              their counts to a shared result under a lock; the caller   *)
(*              joins them with a deadline, counts the threads still alive *)
(*              as hung and abandons them;                                 *)
(*   "joined"   run_phase of src/tools/run_codexsdgate_e2e.py and          *)
(*              run_tcp_echo_bench: the same, joined without a deadline;   *)
(*   "slots"    src/tools/local_http_flood.py: one result object per       *)
(*              worker, summed by the caller after the joins.              *)
(* What a worker adds is represented by the worker: the shared result is   *)
(* the set of workers merged into it and the set counted as hung.          *)
(***************************************************************************)
EXTENDS Integers, FiniteSets

CONSTANTS Workers,      \* the threads of the phase
          MaxRequests   \* bound on the requests of one worker

ASSUME WorkersAssumption == IsFiniteSet(Workers) /\ Workers # {}
ASSUME MaxRequestsAssumption == MaxRequests \in Nat \ {0}

VARIABLES style,      \* which of the three programs this is
          over,       \* whether stop_at has passed
          at,         \* where each worker is
          attempt,    \* the attempt of the request a worker has in flight
          issued,     \* requests begun by a worker
          local,      \* a worker's own counts
          lock,       \* the thread that holds the lock, or the empty set
          abandoned,  \* the event run_phase sets when it gives up
          pc,         \* where the caller is
          tocheck,    \* threads is_alive has not been asked about yet
          alive,      \* threads that were found alive
          merged,     \* workers whose counts are in the result
          hung        \* workers counted as hung

workerVars == <<at, attempt, issued, local>>
vars == <<style, over, at, attempt, issued, local, lock, abandoned, pc,
          tocheck, alive, merged, hung>>

Init ==
  /\ style \in {"defense", "joined", "slots"}
  /\ over = FALSE
  /\ at = [w \in Workers |-> "loop"]
  /\ attempt = [w \in Workers |-> 0]
  /\ issued = [w \in Workers |-> 0]
  /\ local = [w \in Workers |-> [requests |-> 0, errors |-> 0]]
  /\ lock = {} /\ abandoned = FALSE
  /\ pc = "join" /\ tocheck = Workers /\ alive = {}
  /\ merged = {} /\ hung = {}

-----------------------------------------------------------------------------
(* A worker.                                                               *)

Begin(w) ==
  /\ at[w] = "loop" /\ ~over /\ issued[w] < MaxRequests
  /\ at' = [at EXCEPT ![w] = "request"]
  /\ attempt' = [attempt EXCEPT ![w] = 1]
  /\ issued' = [issued EXCEPT ![w] = @ + 1]
  /\ UNCHANGED <<style, over, local, lock, abandoned, pc, tocheck, alive,
                 merged, hung>>

(* Any response, whatever its status, is a request that was answered.      *)
Answered(w) ==
  /\ at[w] = "request"
  /\ at' = [at EXCEPT ![w] = "loop"]
  /\ local' = [local EXCEPT ![w].requests = @ + 1]
  /\ UNCHANGED <<style, over, attempt, issued, lock, abandoned, pc, tocheck,
                 alive, merged, hung>>

(* A dropped connection or a timeout is tried once more on a new           *)
(* connection; only the defense bench does so.                             *)
Retry(w) ==
  /\ style = "defense" /\ at[w] = "request" /\ attempt[w] = 1
  /\ attempt' = [attempt EXCEPT ![w] = 2]
  /\ UNCHANGED <<style, over, at, issued, local, lock, abandoned, pc, tocheck,
                 alive, merged, hung>>

\* Mutant: a request that fails for good is not counted.
FailedUncounted(w) ==
  /\ at[w] = "request"
  /\ at' = [at EXCEPT ![w] = "loop"]
  /\ UNCHANGED <<style, over, attempt, issued, local, lock, abandoned, pc,
                 tocheck, alive, merged, hung>>

(* The second failure, or the first of any other kind.                     *)
Failed(w) ==
  /\ at[w] = "request"
  /\ at' = [at EXCEPT ![w] = "loop"]
  /\ local' = [local EXCEPT ![w].errors = @ + 1]
  /\ UNCHANGED <<style, over, attempt, issued, lock, abandoned, pc, tocheck,
                 alive, merged, hung>>

LeaveLoop(w) ==
  /\ at[w] = "loop" /\ over
  /\ at' = [at EXCEPT ![w] = IF style = "slots" THEN "dead" ELSE "acquire"]
  /\ UNCHANGED <<style, over, attempt, issued, local, lock, abandoned, pc,
                 tocheck, alive, merged, hung>>

Acquire(w) ==
  /\ at[w] = "acquire" /\ lock = {}
  /\ lock' = {w}
  /\ at' = [at EXCEPT ![w] = "locked"]
  /\ UNCHANGED <<style, over, attempt, issued, local, abandoned, pc, tocheck,
                 alive, merged, hung>>

\* Mutant: a late worker does not look at abandoned.
MergeAnyway(w) ==
  /\ at[w] = "locked"
  /\ merged' = merged \cup {w}
  /\ at' = [at EXCEPT ![w] = "release"]
  /\ UNCHANGED <<style, over, attempt, issued, local, lock, abandoned, pc,
                 tocheck, alive, hung>>

(* abandoned.is_set() is asked under the lock.                             *)
Merge(w) ==
  /\ at[w] = "locked"
  /\ merged' = IF abandoned THEN merged ELSE merged \cup {w}
  /\ at' = [at EXCEPT ![w] = "release"]
  /\ UNCHANGED <<style, over, attempt, issued, local, lock, abandoned, pc,
                 tocheck, alive, hung>>

Release(w) ==
  /\ at[w] = "release"
  /\ lock' = {} /\ at' = [at EXCEPT ![w] = "leaving"]
  /\ UNCHANGED <<style, over, attempt, issued, local, abandoned, pc, tocheck,
                 alive, merged, hung>>

(* Between the merge and the end of the thread is_alive is still true.     *)
Die(w) ==
  /\ at[w] = "leaving"
  /\ at' = [at EXCEPT ![w] = "dead"]
  /\ UNCHANGED <<style, over, attempt, issued, local, lock, abandoned, pc,
                 tocheck, alive, merged, hung>>

Worker(w) == Begin(w) \/ Answered(w) \/ Retry(w) \/ Failed(w) \/ LeaveLoop(w)
               \/ Acquire(w) \/ Merge(w) \/ Release(w) \/ Die(w)

-----------------------------------------------------------------------------
(* The caller.                                                             *)

StopTime ==
  /\ ~over /\ over' = TRUE
  /\ UNCHANGED <<style, workerVars, lock, abandoned, pc, tocheck, alive,
                 merged, hung>>

(* Every join returns because its thread is dead or the deadline is past.  *)
Join ==
  /\ pc = "join"
  /\ \/ \A w \in Workers : at[w] = "dead"
     \/ style = "defense" /\ over
  /\ pc' = "count"
  /\ UNCHANGED <<style, over, workerVars, lock, abandoned, tocheck, alive,
                 merged, hung>>

(* hung_workers = sum(1 for thread in threads if thread.is_alive()): the   *)
(* threads are asked one by one while they go on.                          *)
IsAlive(w) ==
  /\ pc = "count" /\ w \in tocheck
  /\ tocheck' = tocheck \ {w}
  /\ alive' = IF at[w] = "dead" THEN alive ELSE alive \cup {w}
  /\ UNCHANGED <<style, over, workerVars, lock, abandoned, pc, merged, hung>>

(* Nobody is left: the result is complete.  The flood sums its slots here. *)
ReturnComplete ==
  /\ pc = "count" /\ tocheck = {} /\ alive = {}
  /\ merged' = IF style = "slots" THEN Workers ELSE merged
  /\ pc' = "returned"
  /\ UNCHANGED <<style, over, workerVars, lock, abandoned, tocheck, alive,
                 hung>>

Abandon ==
  /\ pc = "count" /\ tocheck = {} /\ alive # {}
  /\ abandoned' = TRUE /\ pc' = "lock"
  /\ UNCHANGED <<style, over, workerVars, lock, tocheck, alive, merged, hung>>

(* Waits for a worker that is merging at this moment.                      *)
CountHung ==
  /\ pc = "lock" /\ lock = {}
  /\ hung' = alive /\ pc' = "returned"
  /\ UNCHANGED <<style, over, workerVars, lock, abandoned, tocheck, alive,
                 merged>>

Caller == StopTime \/ Join \/ (\E w \in Workers : IsAlive(w))
            \/ ReturnComplete \/ Abandon \/ CountHung

Next == Caller \/ \E w \in Workers : Worker(w)

(* The caller runs; a lock is held only for a few assignments.  A worker   *)
(* of the defense bench may hang for ever in a request, the sockets of the *)
(* others have timeouts that bound every request.                          *)
Fairness ==
  /\ WF_vars(Caller) /\ SF_vars(CountHung)
  /\ \A w \in Workers :
       /\ WF_vars(Merge(w) \/ Release(w))
       /\ WF_vars(style # "defense" /\ Worker(w))
       /\ SF_vars(style # "defense" /\ Acquire(w))

Spec == Init /\ [][Next]_vars /\ Fairness

-----------------------------------------------------------------------------
TypeOK ==
  /\ style \in {"defense", "joined", "slots"}
  /\ over \in BOOLEAN /\ abandoned \in BOOLEAN
  /\ at \in [Workers -> {"loop", "request", "acquire", "locked", "release",
                         "leaving", "dead"}]
  /\ attempt \in [Workers -> 0..2]
  /\ issued \in [Workers -> Nat]
  /\ local \in [Workers -> [requests : Nat, errors : Nat]]
  /\ lock \in SUBSET Workers
  /\ pc \in {"join", "count", "lock", "returned"}
  /\ tocheck \in SUBSET Workers /\ alive \in SUBSET Workers
  /\ merged \in SUBSET Workers /\ hung \in SUBSET Workers

(* The result run_phase returns accounts for every worker: its counts were *)
(* merged or it is counted as hung, never neither, and when nobody is      *)
(* counted as hung nothing is missing.  Every request a merged worker      *)
(* began appears in its counts once, as an answer or as an error, however  *)
(* often it was retried.                                                   *)
PhaseAccounted ==
  pc = "returned" =>
    /\ merged \cup hung = Workers
    /\ \A w \in merged :
         local[w].requests + local[w].errors = issued[w]

(* The result does not change under the caller's hands: a worker that      *)
(* comes back after the deadline adds nothing to a phase that was already  *)
(* summarized, because it looks at abandoned under the lock.               *)
ResultFrozen ==
  [][pc = "returned" => merged' = merged /\ hung' = hung]_vars

(* Every phase returns: a hung worker cannot hold up the defense bench.    *)
PhaseReturns == <>(pc = "returned")

=============================================================================

------------------------------- MODULE Daemon -------------------------------
(***************************************************************************)
(* The life of the process: run of src/daemon.rs, the listener tasks       *)
(* run_http_proxy and run_tcp_proxy it spawns, and the accept loops these  *)
(* spawn in turn, one per accept shard.                                    *)
(*                                                                         *)
(* A listener task is aborted when its JoinSet is shut down or dropped;    *)
(* its accept loops are tasks of their own, which nobody aborts: they end  *)
(* by the shutdown channel or with the process.  The connections they      *)
(* accept are tasks too, and nobody waits for those (see BodyGuard and     *)
(* TcpRelay for how they end).                                             *)
(***************************************************************************)
EXTENDS Integers, Sequences, FiniteSets

CONSTANTS
  Checks,    \* the listeners, in the order of startup_checks, not empty
  Shards,    \* accept shards of a listener
  GraceOn,   \* shutdown_grace_ms > 0
  MaxAccepts \* bound on the accepted connections

Listeners == {Checks[i] : i \in 1..Len(Checks)}

VARIABLES
  main,      \* where run is
  checked,   \* startup checks passed
  task,      \* each listener task
  report,    \* what each listener has sent on its startup channel
  loop,      \* each accept loop
  shutdown,  \* the value of the watch channel
  reload,    \* whether the filter reload task runs
  accepts    \* connections accepted

vars == <<main, checked, task, report, loop, shutdown, reload, accepts>>

Loops == Listeners \X Shards
Returned == {"ok", "error", "panicked"}   \* a task that has ended by itself
Live == {"starting", "bound", "serving"}
Exited == {"exitOk", "exitLate", "exitErr"}

Init ==
  /\ main = "starting" /\ checked = 0
  /\ task = [l \in Listeners |-> "starting"]
  /\ report = [l \in Listeners |-> "none"]
  /\ loop = [x \in Loops |-> "none"]
  /\ shutdown = FALSE /\ reload = FALSE /\ accepts = 0

Up == main \notin Exited

----------------------------------------------------------------------------
(* run_http_proxy, run_tcp_proxy.                                          *)

StartFails(l) ==
  /\ Up /\ task[l] = "starting"
  /\ task' = [task EXCEPT ![l] = "error"]
  /\ report' = [report EXCEPT ![l] = "failed"]
  /\ UNCHANGED <<main, checked, loop, shutdown, reload, accepts>>

(* Bound; readiness is reported before the accept loops are spawned.       *)
Bind(l) ==
  /\ Up /\ task[l] = "starting"
  /\ task' = [task EXCEPT ![l] = "bound"]
  /\ report' = [report EXCEPT ![l] = "ready"]
  /\ UNCHANGED <<main, checked, loop, shutdown, reload, accepts>>

(* Each loop has a clone of the receiver run made before its spawn, which  *)
(* has seen no change yet.                                                 *)
SpawnLoops(l) ==
  /\ Up /\ task[l] = "bound"
  /\ task' = [task EXCEPT ![l] = "serving"]
  /\ loop' = [x \in Loops |-> IF x[1] = l THEN "accepting" ELSE loop[x]]
  /\ UNCHANGED <<main, checked, report, shutdown, reload, accepts>>

(* All accept loops are over, by themselves or by a panic.                 *)
Returns(l) ==
  /\ Up /\ task[l] = "serving"
  /\ \A s \in Shards : loop[l, s] \in {"stopped", "panicked"}
  /\ task' = [task EXCEPT ![l] = "ok"]
  /\ UNCHANGED <<main, checked, report, loop, shutdown, reload, accepts>>

(* A panic of the listener task drops its end of the startup channel; the  *)
(* loops it has spawned go on.                                             *)
ListenerPanics(l) ==
  /\ Up /\ task[l] \in Live
  /\ task' = [task EXCEPT ![l] = "panicked"]
  /\ UNCHANGED <<main, checked, report, loop, shutdown, reload, accepts>>

----------------------------------------------------------------------------
(* run_http_accept_loop, run_tcp_accept_loop.                              *)

Accept(x) ==
  /\ Up /\ loop[x] = "accepting" /\ ~shutdown /\ accepts < MaxAccepts
  /\ accepts' = accepts + 1
  /\ UNCHANGED <<main, checked, task, report, loop, shutdown, reload>>

(* accept failed: the loop sleeps, deaf to the shutdown meanwhile.         *)
AcceptFails(x) ==
  /\ Up /\ loop[x] = "accepting" /\ ~shutdown
  /\ loop' = [loop EXCEPT ![x] = "sleeping"]
  /\ UNCHANGED <<main, checked, task, report, shutdown, reload, accepts>>

\* Mutant: a failed accept is retried without going back to the select!.
WakeRetries(x) ==
  /\ Up /\ loop[x] = "sleeping" /\ ~shutdown
  /\ loop' = [loop EXCEPT ![x] = "accepting"]
  /\ UNCHANGED <<main, checked, task, report, shutdown, reload, accepts>>

Wake(x) ==
  /\ Up /\ loop[x] = "sleeping"
  /\ loop' = [loop EXCEPT ![x] = "accepting"]
  /\ UNCHANGED <<main, checked, task, report, shutdown, reload, accepts>>

(* The biased select! looks at the shutdown channel first.                 *)
Stop(x) ==
  /\ Up /\ loop[x] = "accepting" /\ shutdown
  /\ loop' = [loop EXCEPT ![x] = "stopped"]
  /\ UNCHANGED <<main, checked, task, report, shutdown, reload, accepts>>

(* A panic ends the loop; its listener ignores how a loop ended.           *)
Panic(x) ==
  /\ Up /\ loop[x] = "accepting"
  /\ loop' = [loop EXCEPT ![x] = "panicked"]
  /\ UNCHANGED <<main, checked, task, report, shutdown, reload, accepts>>

----------------------------------------------------------------------------
(* run.                                                                    *)

Abort == task' = [l \in Listeners |-> IF task[l] \in Live THEN "aborted" ELSE task[l]]

Awaited == Checks[checked + 1]

CheckPasses ==
  /\ main = "starting" /\ checked < Len(Checks) /\ report[Awaited] = "ready"
  /\ checked' = checked + 1
  /\ UNCHANGED <<main, task, report, loop, shutdown, reload, accepts>>

(* Failed, or nothing heard for five seconds.                              *)
CheckFails ==
  /\ main = "starting" /\ checked < Len(Checks) /\ report[Awaited] # "ready"
  /\ shutdown' = TRUE
  /\ main' = "aborting"
  /\ UNCHANGED <<checked, task, report, loop, reload, accepts>>

Run ==
  /\ main = "starting" /\ checked = Len(Checks)
  /\ reload' = TRUE
  /\ main' = "running"
  /\ UNCHANGED <<checked, task, report, loop, shutdown, accepts>>

(* SIGINT or SIGTERM.                                                      *)
Signal ==
  /\ main = "running"
  /\ reload' = FALSE /\ shutdown' = TRUE
  /\ main' = IF GraceOn THEN "draining" ELSE "stopping"
  /\ UNCHANGED <<checked, task, report, loop, accepts>>

(* join_next: a listener is over before the signal.                        *)
ListenerLost(l) ==
  /\ main = "running" /\ task[l] \in Returned
  /\ reload' = FALSE /\ shutdown' = TRUE
  /\ main' = "aborting"
  /\ UNCHANGED <<checked, task, report, loop, accepts>>

(* JoinSet::shutdown, for an error or without a grace period; it waits for *)
(* a listener task on its way to its first await, after the spawns.        *)
AbortAll ==
  /\ main \in {"aborting", "stopping"}
  /\ \A l \in Listeners : task[l] # "bound"
  /\ Abort
  /\ main' = IF main = "aborting" THEN "exitErr" ELSE "exitOk"
  /\ UNCHANGED <<checked, report, loop, shutdown, reload, accepts>>

(* join_all is through within the grace period.                            *)
Drained ==
  /\ main = "draining" /\ \A l \in Listeners : task[l] \in {"ok", "error"}
  /\ main' = "exitOk"
  /\ UNCHANGED <<checked, task, report, loop, shutdown, reload, accepts>>

(* join_all panics when a task it joins has, and main with it.             *)
JoinPanics ==
  /\ main = "draining" /\ \E l \in Listeners : task[l] = "panicked"
  /\ Abort
  /\ main' = "exitErr"
  /\ UNCHANGED <<checked, report, loop, shutdown, reload, accepts>>

(* The grace period elapses: the JoinSet is dropped with join_all.         *)
GraceOver ==
  /\ main = "draining" /\ \E l \in Listeners : task[l] \notin Returned
  /\ Abort
  /\ main' = "exitLate"
  /\ UNCHANGED <<checked, report, loop, shutdown, reload, accepts>>

Next ==
  \/ \E l \in Listeners :
       StartFails(l) \/ Bind(l) \/ SpawnLoops(l) \/ Returns(l) \/ ListenerPanics(l)
         \/ ListenerLost(l)
  \/ \E x \in Loops : Accept(x) \/ AcceptFails(x) \/ Wake(x) \/ Stop(x) \/ Panic(x)
  \/ CheckPasses \/ CheckFails \/ Run \/ Signal
  \/ AbortAll \/ Drained \/ JoinPanics \/ GraceOver

(* Tasks are scheduled and sleeps end; peers, signals, panics and timeouts *)
(* owe nothing, except that a startup check does not wait for ever.        *)
Fairness ==
  /\ \A l \in Listeners : WF_vars(SpawnLoops(l)) /\ WF_vars(Returns(l)) /\ WF_vars(ListenerLost(l))
  /\ \A x \in Loops : WF_vars(Wake(x)) /\ WF_vars(Stop(x))
  /\ WF_vars(CheckPasses) /\ WF_vars(CheckFails) /\ WF_vars(Run)
  /\ WF_vars(AbortAll) /\ WF_vars(Drained) /\ WF_vars(JoinPanics)

Spec == Init /\ [][Next]_vars /\ Fairness

----------------------------------------------------------------------------
TypeOK ==
  /\ main \in {"starting", "running", "draining", "stopping", "aborting"} \cup Exited
  /\ checked \in 0..Len(Checks)
  /\ task \in [Listeners -> Live \cup Returned \cup {"aborted"}]
  /\ report \in [Listeners -> {"none", "ready", "failed"}]
  /\ loop \in [Loops -> {"none", "accepting", "sleeping", "stopped", "panicked"}]
  /\ shutdown \in BOOLEAN /\ reload \in BOOLEAN
  /\ accepts \in 0..MaxAccepts
  /\ \A l \in Listeners : report[l] = "none" => task[l] \in {"starting", "aborted", "panicked"}

(* A shutdown reaches every accept loop, those included that were asleep   *)
(* after a failed accept or not yet spawned when it was sent: no loop is   *)
(* left accepting while the process lives.                                 *)
ShutdownReaches ==
  shutdown ~> (~Up \/ \A x \in Loops : loop[x] \notin {"accepting", "sleeping"})

(* A listener that fails to start takes the process down with an error,    *)
(* one that panics or loses all its loops takes it down too, and so does a *)
(* signal, once every loop has seen it: the process is never left serving  *)
(* in part.                                                                *)
ProcessEnds ==
  /\ (main = "starting" /\ \E l \in Listeners : report[l] = "failed") ~> main = "exitErr"
  /\ (main = "running" /\ \E l \in Listeners :
        task[l] = "panicked" \/ \A s \in Shards : loop[l, s] = "panicked")
       ~> main \in Exited
  /\ main \in {"draining", "stopping"} ~> main \in Exited
=============================================================================

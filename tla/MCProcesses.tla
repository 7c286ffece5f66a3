---------------------------- MODULE MCProcesses ----------------------------
(***************************************************************************)
(* The life of the processes for TLC: the daemon's own (Daemon), the bench *)
(* program that starts daemons and judges them from outside (LocalBench)   *)
(* and the worker threads of a load phase (BenchPhase).  LocalBench sees a *)
(* daemon only through its ports, its exit status and what it prints, so   *)
(* the three are separate: a behaviour follows one, the others are over.   *)
(***************************************************************************)
EXTENDS BenchPhase, Sequences

CONSTANTS http, tcp, Shards, GraceOn, MaxAccepts   \* those of Daemon

ASSUME DaemonAssumption ==
  Shards # {} /\ GraceOn \in BOOLEAN /\ MaxAccepts \in Nat

VARIABLES probe, proc, driver, load, health, verdict, raised, printed, judged,
          main, checked, task, report, loop, shutdown, reload, accepts

L == INSTANCE LocalBench WITH pc <- driver, report <- printed

(* An HTTP and a raw TCP listener, checked in this order.                  *)
D == INSTANCE Daemon WITH Checks <- <<http, tcp>>

benchVars == <<probe, proc, driver, load, health, verdict, raised, printed,
               judged>>
daemonVars == <<main, checked, task, report, loop, shutdown, reload, accepts>>

-----------------------------------------------------------------------------
PhaseOver ==
  /\ style = "defense" /\ over = TRUE
  /\ at = [w \in Workers |-> "dead"]
  /\ attempt = [w \in Workers |-> 0] /\ issued = attempt
  /\ local = [w \in Workers |-> [requests |-> 0, errors |-> 0]]
  /\ lock = {} /\ abandoned = FALSE
  /\ pc = "returned" /\ tocheck = {} /\ alive = {}
  /\ merged = Workers /\ hung = {}

BenchOver ==
  /\ probe = L!run_runtime_sigterm_probe /\ proc = [r \in L!Roles |-> L!Absent]
  /\ driver = "done" /\ load = "none" /\ health = FALSE /\ verdict = "none"
  /\ raised = TRUE /\ printed = FALSE /\ judged = "fail"

DaemonOver ==
  /\ main = "exitErr" /\ checked = 0
  /\ task = [l \in D!Listeners |-> "error"]
  /\ report = [l \in D!Listeners |-> "failed"]
  /\ loop = [x \in D!Loops |-> "none"]
  /\ shutdown = TRUE /\ reload = FALSE /\ accepts = 0

MCInit ==
  \/ Init /\ BenchOver /\ DaemonOver
  \/ PhaseOver /\ L!Init /\ DaemonOver
  \/ PhaseOver /\ BenchOver /\ D!Init

MCNext ==
  \/ Next /\ UNCHANGED <<benchVars, daemonVars>>
  \/ L!Next /\ UNCHANGED <<vars, daemonVars>>
  \/ D!Next /\ UNCHANGED <<vars, benchVars>>

MCSpec ==
  /\ MCInit /\ [][MCNext]_<<vars, benchVars, daemonVars>>
  /\ Fairness /\ L!Fairness /\ D!Fairness

-----------------------------------------------------------------------------
(* A startup probe's verdict is what its daemon did by itself, never what  *)
(* the driver's signals made of it (startup_rejected and the SIGTERM probe *)
(* of run_local_bench.py against validate in config.rs).                   *)
ProbeExact == L!ProbeExact

(* A report that assert_local_bench.py passes comes from a clean load and  *)
(* a daemon that did what its case expects.                                *)
GreenIsEarned == L!GreenIsEarned

(* No daemon started by run_local_bench.py outlives it, on any path.       *)
NothingLeftRunning == L!NothingLeftRunning

(* Every bench program comes to its end: run_local_bench.py and its gate   *)
(* whatever the daemons do, a load phase whatever its workers do.          *)
BenchesEnd == L!BenchEnds /\ PhaseReturns

(* The daemon ends as it should: the shutdown channel reaches sleeping and *)
(* unspawned accept loops too, and a failed start, a listener that lost    *)
(* its loops, or a signal ends run.                                        *)
DaemonEnds == D!ShutdownReaches /\ D!ProcessEnds
=============================================================================

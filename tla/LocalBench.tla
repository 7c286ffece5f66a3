----------------------------- MODULE LocalBench -----------------------------
(***************************************************************************)
(* src/tools/run_local_bench.py and the gate that reads its report,        *)
(* src/tools/assert_local_bench.py.  The driver starts a proxy, loads it,  *)
(* runs a probe that starts a daemon of its own, prints a report and stops *)
(* whatever it started; the gate turns the report into a verdict.          *)
(*                                                                         *)
(* The probes run one after the other and share nothing but the upstream,  *)
(* so a behaviour takes one case of one probe.  A daemon dies of a SIGTERM *)
(* that arrives before its handler is installed, which happens only after  *)
(* its listeners accept connections.  Every wait of the driver is bounded  *)
(* by a deadline that may expire at any time before the wait is over.      *)
(***************************************************************************)
EXTENDS StartupCases

VARIABLES probe,    \* the case this behaviour runs
          proc,     \* the daemons, by role
          pc,       \* where the driver is
          load,     \* what the load surfaces measured
          health,   \* whether the probe's daemon answered a health check
          verdict,  \* what the probe reports
          raised,   \* whether an exception is on its way out of the driver
          report,   \* whether a report was printed
          judged    \* what the gate says

vars == <<probe, proc, pc, load, health, verdict, raised, report, judged>>

Roles == {"main", "probe"}

\* st    how far the process is       sig   the signal sent to it
\* code  its exit status              said  the objection on its stderr
\* log   the other lines there the driver looks for
\* soft  its soft RLIMIT_NOFILE       clean whether it ran to its own end
Absent == [st |-> "none", sig |-> "", code |-> 0, said |-> NoError,
           log |-> {}, soft |-> 0, clean |-> FALSE]

Init ==
  /\ probe \in RefusalCases \cup run_runtime_nofile_probe
                 \cup {run_runtime_sigterm_probe}
  /\ proc = [r \in Roles |-> Absent]
  /\ pc = "start" /\ load = "none" /\ health = FALSE /\ verdict = "none"
  /\ raised = FALSE /\ report = FALSE /\ judged = "none"

-----------------------------------------------------------------------------
(* A daemon.                                                               *)

config(r) == IF r = "main" THEN Base ELSE probe.cfg

Alive(r) == proc[r].st \notin {"none", "exited"}
Exited(r) == proc[r].st = "exited"
Answers(r) == proc[r].st \in {"bound", "serving"}

Exit(r, code, said) ==
  /\ proc' = [proc EXCEPT ![r] = [@ EXCEPT !.st = "exited", !.code = code,
                                           !.said = said, !.clean = code = 0]]
  /\ UNCHANGED <<probe, pc, load, health, verdict, raised, report, judged>>

(* AppConfig::from_path or the descriptor check fails: one line on stderr. *)
Refuse(r) ==
  /\ proc[r].st = "starting" /\ proc[r].sig = ""
  /\ startup_error(config(r)) # NoError
  /\ Exit(r, 1, startup_error(config(r)))

(* free_port released the port, and another process has it by now.         *)
BindFails(r) ==
  /\ proc[r].st = "starting" /\ proc[r].sig = ""
  /\ startup_error(config(r)) = NoError
  /\ Exit(r, 1, [NoError EXCEPT !.path = "bind"])

(* On the way to its listeners the daemon raises its descriptor limit to a *)
(* configured floor, and says so.                                          *)
Bind(r) ==
  /\ proc[r].st = "starting" /\ proc[r].sig = ""
  /\ startup_error(config(r)) = NoError
  /\ proc' = [proc EXCEPT ![r].st = "bound",
                          ![r].soft = apply_nofile_floor(config(r)),
                          ![r].log = IF Value(config(r), "runtime.min_nofile") = 0
                                     THEN {} ELSE {"nofile"}]
  /\ UNCHANGED <<probe, pc, load, health, verdict, raised, report, judged>>

(* run_daemon polls its signal future only once every listener is up.      *)
InstallHandler(r) ==
  /\ proc[r].st = "bound" /\ proc[r].sig = ""
  /\ proc' = [proc EXCEPT ![r].st = "serving"]
  /\ UNCHANGED <<probe, pc, load, health, verdict, raised, report, judged>>

(* A listener or worker fails for good and the daemon returns the error.   *)
ListenerFails(r) ==
  /\ Answers(r) /\ proc[r].sig # "KILL"
  /\ Exit(r, 1, [NoError EXCEPT !.path = "listener"])

DieOfSignal(r) ==
  \/ /\ proc[r].sig = "TERM" /\ proc[r].st \in {"starting", "bound"}
     /\ Exit(r, -15, NoError)
  \/ /\ proc[r].sig = "KILL" /\ Alive(r)
     /\ Exit(r, -9, NoError)

(* The line comes first; the listeners are stopped, and the daemon is      *)
(* gone, only later, and a driver out of patience may kill it in between.  *)
HearSignal(r) ==
  /\ proc[r].sig = "TERM" /\ proc[r].st = "serving"
  /\ proc' = [proc EXCEPT ![r].st = "stopping", ![r].log = @ \cup {"signal"}]
  /\ UNCHANGED <<probe, pc, load, health, verdict, raised, report, judged>>

ShutDown(r) == proc[r].st = "stopping" /\ Exit(r, 0, NoError)

DaemonStep(r) == Refuse(r) \/ BindFails(r) \/ Bind(r) \/ InstallHandler(r)
                   \/ ListenerFails(r) \/ DieOfSignal(r) \/ HearSignal(r)
                   \/ ShutDown(r)

-----------------------------------------------------------------------------
(* The driver's dealings with a child.                                     *)

Popen(r) ==
  proc' = [proc EXCEPT ![r].st = "starting", ![r].soft = config(r).ulimit.soft]

Send(r, sig) ==
  proc' = [proc EXCEPT ![r].sig = IF Exited(r) THEN @ ELSE sig]

Goto(l) == pc' = l

StartMain ==
  /\ pc = "start" /\ Popen("main") /\ Goto("wait_main")
  /\ UNCHANGED <<probe, load, health, verdict, raised, report, judged>>

\* Mutant: the poll has no deadline.
wait_http_forever(r, ready, late) ==
  Answers(r) /\ Goto(ready) /\ raised' = raised

(* wait_http and wait_tcp_port: poll until the listeners answer or the     *)
(* deadline passes; a process that has exited is not noticed before that.  *)
wait_http(r, ready, late) ==
  \/ /\ Answers(r) /\ Goto(ready) /\ raised' = raised
  \/ /\ ~Answers(r) /\ Goto(late) /\ raised' = TRUE

WaitMain ==
  /\ pc = "wait_main" /\ wait_http("main", "load", "stop")
  /\ UNCHANGED <<probe, proc, load, health, verdict, report, judged>>

(* The two floods, the echo bench and the metrics read after them: a proxy *)
(* that is gone shows as an exception, a proxy in trouble as errors.       *)
Load ==
  /\ pc = "load"
  /\ \/ /\ Answers("main") /\ load' \in {"clean", "errors"}
        /\ Goto("popen") /\ raised' = raised
     \/ /\ load' = load /\ Goto("stop") /\ raised' = TRUE
  /\ UNCHANGED <<probe, proc, health, verdict, report, judged>>

Serves == {"nofile", "sigterm"}

StartProbe ==
  /\ pc = "popen" /\ Popen("probe")
  /\ Goto(IF probe.probe \in Serves THEN "wait_probe" ELSE "communicate")
  /\ UNCHANGED <<probe, load, health, verdict, raised, report, judged>>

(* Both serving probes ask for the health page, then send SIGTERM.  When   *)
(* the daemon never answers, one terminates it and the other kills it      *)
(* before the exception goes on.                                           *)
WaitProbe ==
  /\ pc = "wait_probe"
  /\ health' = Answers("probe")
  /\ \/ /\ Answers("probe") /\ Send("probe", "TERM") /\ Goto("communicate2")
        /\ raised' = raised
     \/ /\ ~Answers("probe") /\ raised' = TRUE
        /\ IF probe.probe = "nofile"
           THEN Send("probe", "TERM") /\ Goto("communicate2")
           ELSE Send("probe", "KILL")
                  /\ Goto(IF Exited("probe") THEN "stop" ELSE "communicate4")
  /\ UNCHANGED <<probe, load, verdict, report, judged>>

\* Mutant: the second expiry gives up instead of killing the process.
CommunicateTimeoutOnce ==
  /\ ~Exited("probe")
  /\ \/ /\ pc = "communicate" /\ Send("probe", "TERM")
        /\ Goto("communicate2") /\ raised' = raised
     \/ /\ pc \in {"communicate2", "communicate4"} /\ raised' = TRUE
        /\ proc' = proc /\ Goto("stop")
  /\ UNCHANGED <<probe, load, health, verdict, report, judged>>

(* communicate(timeout=5) expires: ask, then insist, then give up.         *)
CommunicateTimeout ==
  /\ ~Exited("probe")
  /\ \/ /\ pc = "communicate" /\ Send("probe", "TERM")
        /\ Goto("communicate2") /\ raised' = raised
     \/ /\ pc = "communicate2" /\ Send("probe", "KILL")
        /\ Goto("communicate3") /\ raised' = raised
     \/ /\ pc = "communicate3" /\ raised' = TRUE
        /\ IF probe.probe = "sigterm"
           THEN Send("probe", "KILL") /\ Goto("communicate4")
           ELSE proc' = proc /\ Goto("stop")
     \/ /\ pc = "communicate4" /\ raised' = TRUE
        /\ proc' = proc /\ Goto("stop")
  /\ UNCHANGED <<probe, load, health, verdict, report, judged>>

\* Mutant: any failure of the daemon counts as a refusal.
startup_rejected_by_code == proc["probe"].code # 0

startup_rejected ==
  /\ proc["probe"].code # 0
  /\ proc["probe"].said = [path |-> probe.path, reason |-> probe.reason,
                           at |-> probe.at]

runtime_nofile_observed == health /\ "nofile" \in proc["probe"].log

sigterm_graceful ==
  health /\ proc["probe"].code = 0 /\ "signal" \in proc["probe"].log

Verdict ==
  LET yes == CASE probe.probe = "nofile" -> runtime_nofile_observed
               [] probe.probe = "sigterm" -> sigterm_graceful
               [] OTHER -> startup_rejected
  IN  IF yes THEN "yes" ELSE "no"

Collect ==
  /\ pc \in {"communicate", "communicate2", "communicate3", "communicate4"}
  /\ Exited("probe")
  /\ IF raised THEN verdict' = verdict /\ Goto("stop")
     ELSE verdict' = Verdict /\ Goto("report")
  /\ UNCHANGED <<probe, proc, load, health, raised, report, judged>>

PrintReport ==
  /\ pc = "report" /\ report' = TRUE /\ Goto("stop")
  /\ UNCHANGED <<probe, proc, load, health, verdict, raised, judged>>

(* stop_process_and_collect_stderr, on the way out of every path.          *)
StopMain ==
  /\ \/ /\ pc = "stop" /\ Send("main", "TERM") /\ Goto("stop2")
     \/ /\ pc = "stop2" /\ ~Exited("main")
        /\ Send("main", "KILL") /\ Goto("stop3")
     \/ /\ pc \in {"stop2", "stop3"} /\ Exited("main")
        /\ proc' = proc /\ Goto("done")
     \/ /\ pc = "stop3" /\ ~Exited("main")
        /\ proc' = proc /\ Goto("done")
  /\ UNCHANGED <<probe, load, health, verdict, raised, report, judged>>

-----------------------------------------------------------------------------
(* assert_local_bench.py: the guardrails that must be true, by probe.      *)

RequiredRequestChecks ==
  {"hosts", "methods", "header_floor", "header_ceiling", "header_count",
   "header_read"}

RequiredEndpointChecks ==
  {"http_endpoint", "tcp_endpoint", "client_ip", "global_trust"}

RequiredStateChecks ==
  {"filter_rule", "config_file", "negative_rate", "zero_capacity",
   "dynamic", "control", "metadata"}

RequiredCeilingChecks ==
  {"stream_timeouts", "body_size", "min_rate", "connect_timeout",
   "upstream_timeout", "circuit", "idle_pool", "duration", "requests",
   "queue", "backups", "nofile", "nofile_capacity"}

RequiredAdminChecks == {"admin_prefix", "admin_token"}

RequiredTrueChecks ==
  RequiredRequestChecks \cup RequiredEndpointChecks \cup RequiredStateChecks
    \cup RequiredCeilingChecks \cup RequiredAdminChecks \cup {"sigterm"}

\* Mutant: the load surfaces are not looked at.
append_surface_errors_never == FALSE

append_surface_errors == load # "clean"

assert_report ==
  /\ report
  /\ ~append_surface_errors
  /\ probe.probe \in RequiredTrueChecks => verdict = "yes"

Judge ==
  /\ pc = "done" /\ judged = "none"
  /\ judged' = IF assert_report THEN "pass" ELSE "fail"
  /\ UNCHANGED <<probe, proc, pc, load, health, verdict, raised, report>>

-----------------------------------------------------------------------------
Driver == StartMain \/ WaitMain \/ Load \/ StartProbe \/ WaitProbe
            \/ CommunicateTimeout \/ Collect \/ PrintReport \/ StopMain
            \/ Judge

Next == Driver \/ \E r \in Roles : DaemonStep(r)

(* The driver's waits have deadlines; the kernel delivers signals.         *)
Fairness ==
  WF_vars(Driver) /\ \A r \in Roles : WF_vars(DieOfSignal(r))

Spec == Init /\ [][Next]_vars /\ Fairness

-----------------------------------------------------------------------------
(* A refusal probe says "rejected" exactly when its daemon stopped by      *)
(* itself with an objection: a daemon the driver had to signal never       *)
(* counts as one that refused, and no case is masked by a check the daemon *)
(* makes earlier (validate in config.rs reports only the first failure).   *)
(* The SIGTERM probe is positive exactly when the daemon's own shutdown    *)
(* path ran to its end: a daemon that reported the signal and was killed   *)
(* while it stopped does not count.  The descriptor probe is positive      *)
(* exactly when a daemon answered that runs with the floor it was given,   *)
(* whatever limit it inherited.                                            *)
ProbeExact ==
  verdict # "none" =>
    (verdict = "yes") =
      CASE probe.probe = "nofile" ->
             health /\ proc["probe"].soft >= Value(probe.cfg, "runtime.min_nofile")
        [] probe.probe = "sigterm" -> proc["probe"].clean
        [] OTHER -> proc["probe"].said # NoError

(* When the gate passes a report, the measured proxy answered every load   *)
(* surface without an error, no exception was swallowed on the way, and    *)
(* the probe's daemon did of its own accord what its case expects.         *)
GreenIsEarned ==
  judged = "pass" =>
    /\ load = "clean" /\ ~raised
    /\ Exited("probe")
    /\ probe.probe \notin Serves =>
         proc["probe"].code = 1 /\ proc["probe"].said.path = probe.path
    /\ probe.probe = "sigterm" => proc["probe"].clean

(* Once the driver is done, on whatever path, no daemon it started is left *)
(* running: each has exited or has a SIGKILL it cannot ignore.             *)
NothingLeftRunning ==
  pc = "done" => \A r \in Roles : Alive(r) => proc[r].sig = "KILL"

(* The driver always reaches its end and the gate its verdict, with every  *)
(* daemon gone for good, whatever the daemons do: the communicate calls    *)
(* and the readiness polls all have deadlines.                             *)
BenchEnds == <>[](judged # "none" /\ \A r \in Roles : ~Alive(r))

=============================================================================

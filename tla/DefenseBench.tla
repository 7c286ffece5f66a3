---------------------------- MODULE DefenseBench ----------------------------
(***************************************************************************)
(* The defense benchmark: src/tools/run_defense_bench.py drives one        *)
(* scenario through a list of protection layers and writes a report, and   *)
(* src/tools/assert_defense_bench.py decides whether the report shows a    *)
(* defended system.  src/tools/run_codexsdgate_e2e.py, the second program  *)
(* modelled here, keeps one proxy for all its scenarios.                   *)
(*                                                                         *)
(* A phase (module BenchPhase) is one step with an outcome from a table of *)
(* counts around the two targets; a proxy that is gone yields only errors. *)
(* A behaviour has at most MaxOdd outcomes other than the expected one: a  *)
(* process that fails by itself, a failed read, an unexpected phase.       *)
(* Deadlines may pass at any time.                                         *)
(***************************************************************************)
EXTENDS Integers, Sequences, SequencesExt

CONSTANTS Plans,       \* the layer lists run_scenario may be given
          Rounds,      \* scenarios the end-to-end program runs
          MaxOdd       \* unexpected outcomes in one behaviour

VARIABLES tool,      \* "defense" or "e2e"
          plan,      \* the layers of this scenario
          proc,      \* the proxy and the analyzer
          leaked,    \* a live process was dropped without a SIGKILL
          pc,        \* where the driver is
          attempt,   \* of run_proxy_layer
          phases,    \* the finished phases of the current layer
          report,    \* what main has gathered
          raised,    \* an exception is on its way out
          gate,      \* the gate's options and verdict
          odd        \* unexpected outcomes so far

vars == <<tool, plan, proc, leaked, pc, attempt, phases, report, raised,
          gate, odd>>

Slots == {"proxy", "analyzer"}

Init ==
  /\ tool \in {"defense", "e2e"} /\ plan \in Plans
  /\ proc = [s \in Slots |-> [st |-> "none", sig |-> ""]] /\ leaked = FALSE
  /\ pc = "main" /\ attempt = 1 /\ phases = <<>>
  /\ report = [tree |-> FALSE, direct |-> "none", layers |-> <<>>,
               metrics |-> FALSE]
  /\ raised = FALSE /\ odd = 0
  /\ gate = [strict |-> FALSE, static |-> "any", verdict |-> "none"]

Goto(l) == pc' = l
Odd(unexpected) ==
  /\ odd' = odd + (IF unexpected THEN 1 ELSE 0)
  /\ odd' <= MaxOdd

-----------------------------------------------------------------------------
(* Processes.                                                              *)

Alive(s) == proc[s].st \in {"starting", "ready"}
Doomed(s) == proc[s].sig = "KILL"

Becomes(s, st) ==
  /\ proc' = [proc EXCEPT ![s].st = st]
  /\ UNCHANGED <<tool, plan, leaked, pc, attempt, phases, report, raised, gate>>

Ready(s) ==
  proc[s] = [st |-> "starting", sig |-> ""] /\ Becomes(s, "ready") /\ Odd(FALSE)
Fails(s) ==
  Alive(s) /\ proc[s].sig = "" /\ Becomes(s, "gone") /\ Odd(TRUE)
DieOfSignal(s) ==
  Alive(s) /\ proc[s].sig # "" /\ Becomes(s, "gone") /\ Odd(FALSE)

Popen(s) ==
  /\ proc' = [proc EXCEPT ![s] = [st |-> "starting", sig |-> ""]]
  /\ leaked' = (leaked \/ (Alive(s) /\ ~Doomed(s)))

(* Ask, wait five seconds, kill without waiting.                           *)
stop_process(s, asked, next) ==
  \/ /\ Alive(s) /\ proc[s].sig = "" /\ Goto(asked)
     /\ proc' = [proc EXCEPT ![s].sig = "TERM"]
  \/ /\ Alive(s) /\ proc[s].sig = "TERM" /\ Goto(next)
     /\ proc' = [proc EXCEPT ![s].sig = "KILL"]
  \/ ~Alive(s) /\ proc' = proc /\ Goto(next)

-----------------------------------------------------------------------------
(* Phases and the start of main.                                           *)

Count(req, block, limit, allow, err, hung) ==
  [requests |-> req, blocked |-> block, limited |-> limit, allowed |-> allow,
   errors |-> err, hung |-> hung, ulp |-> 0]

(* 90% of 20 requests is 18, 95% is 19.  The last three are as close to a  *)
(* target as larger counts come: 89.99% and 94.995%, which the report      *)
(* rounds up to the target, and 90.007%, whose rounded 90.0 the products   *)
(* in floating point leave short of it (ulp).                              *)
PhaseResult ==
  [stopped |-> Count(20, 10, 8, 2, 0, 0), mostly  |-> Count(20, 10, 7, 3, 0, 0),
   through |-> Count(20, 0, 1, 19, 0, 0), limited |-> Count(20, 0, 2, 18, 0, 0),
   flaky   |-> Count(20, 0, 1, 19, 1, 0), errors  |-> Count(1, 0, 0, 1, 9, 0),
   hung    |-> Count(20, 18, 0, 2, 1, 1), dead    |-> Count(0, 0, 0, 0, 2, 0),
   almost  |-> Count(1009, 28, 880, 101, 0, 0), served |-> Count(1019, 51, 0, 968, 0, 0),
   short   |-> [Count(4553, 2049, 2049, 455, 0, 0) EXCEPT !.ulp = 1]]

run_phase(expected) ==
  \E o \in IF proc["proxy"].st = "ready" THEN DOMAIN PhaseResult \ {"dead"}
           ELSE {"dead"} :
    phases' = Append(phases, o) /\ Odd(o \notin {"dead", expected})

(* Each git command may fail or time out; the later ones need the earlier. *)
source_tree_metadata(answered) ==
  LET git_root == "root" \in answered
      git_commit == git_root /\ "commit" \in answered
  IN  [git_root |-> git_root, git_commit |-> git_commit,
       git_dirty |-> git_root /\ "status" \in answered,
       git_commit_short |-> git_commit /\ "short" \in answered,
       git_branch |-> git_commit /\ "branch" \in answered]

provenance_errors(t) == \E key \in DOMAIN t : ~t[key]

(* The report's metadata and the baseline without a proxy come first.      *)
StartReport ==
  /\ pc = "main" /\ Goto("start")
  /\ \E answered \in SUBSET {"root", "commit", "status", "short", "branch"},
        direct \in DOMAIN PhaseResult \ {"dead"} :
       LET complete == ~provenance_errors(source_tree_metadata(answered))
       IN  /\ report' = [report EXCEPT !.tree = complete, !.direct = direct]
           /\ Odd(~complete \/ direct # "through")
  /\ UNCHANGED <<tool, plan, proc, leaked, attempt, phases, raised, gate>>

-----------------------------------------------------------------------------
(* run_proxy_layer.                                                        *)

Layer == plan[Len(report.layers) + 1]
analyzer == Layer \in {"learned_filter_strict", "learned_filter_observed"}

(* A fresh port, configuration, filters file and event log per attempt.    *)
StartProxy ==
  /\ pc = "start" /\ Popen("proxy") /\ Goto("wait_health") /\ phases' = <<>>
  /\ UNCHANGED <<tool, plan, attempt, report, raised, gate, odd>>

(* The process is looked at before each request, so a proxy that exited is *)
(* noticed; the deadline covers one that never answers.                    *)
wait_health ==
  /\ pc = "wait_health"
  /\ \/ proc["proxy"].st = "ready" /\ Goto("metrics_before")
     \/ proc["proxy"].st # "ready" /\ Goto("retry")
  /\ UNCHANGED <<tool, plan, proc, leaked, attempt, phases, report, raised,
                 gate, odd>>

\* Mutant: the next attempt begins without stopping the last one's proxy.
RetryProxyLeaves ==
  /\ pc = "retry" /\ Goto(IF attempt = 3 THEN "exit" ELSE "start")
  /\ attempt' = IF pc' = "start" THEN attempt + 1 ELSE attempt
  /\ raised' = (raised \/ pc' = "exit")
  /\ UNCHANGED <<tool, plan, proc, leaked, phases, report, gate, odd>>

(* Three attempts; the failed proxy is stopped before the next one.        *)
RetryProxy ==
  /\ pc \in {"retry", "retry_wait"}
  /\ stop_process("proxy", "retry_wait", IF attempt = 3 THEN "exit" ELSE "start")
  /\ attempt' = IF pc' = "start" THEN attempt + 1 ELSE attempt
  /\ raised' = (raised \/ pc' = "exit")
  /\ UNCHANGED <<tool, plan, leaked, phases, report, gate, odd>>

(* try_fetch_metrics turns every failure into an entry of metrics_errors.  *)
FetchMetrics ==
  /\ pc \in {"metrics_before", "metrics_after"}
  /\ \E failed \in IF proc["proxy"].st = "ready" THEN BOOLEAN ELSE {TRUE} :
       /\ report' = [report EXCEPT !.metrics = @ \/ failed]
       /\ Odd(failed /\ proc["proxy"].st = "ready")
  /\ Goto(IF pc = "metrics_before" THEN "analyzer" ELSE "stop_analyzer")
  /\ UNCHANGED <<tool, plan, proc, leaked, attempt, phases, raised, gate>>

(* start_analyzer, or an exception that the finally clause cleans up after.*)
StartAnalyzer ==
  /\ pc = "analyzer"
  /\ \/ /\ analyzer /\ Popen("analyzer") /\ Goto("collect")
        /\ raised' = raised /\ Odd(FALSE)
     \/ /\ analyzer /\ raised' = TRUE /\ Goto("stop_analyzer") /\ Odd(TRUE)
        /\ UNCHANGED <<proc, leaked>>
     \/ /\ ~analyzer /\ Goto("collect") /\ Odd(FALSE)
        /\ UNCHANGED <<proc, leaked, raised>>
  /\ UNCHANGED <<tool, plan, attempt, phases, report, gate>>

Phase(from, expected, to) ==
  /\ pc = from /\ run_phase(expected) /\ Goto(to)
  /\ UNCHANGED <<tool, plan, proc, leaked, attempt, report, raised, gate>>

Collect == Phase("collect",
                 IF analyzer \/ Layer = "proxy_open" THEN "through" ELSE "stopped",
                 IF analyzer THEN "wait_filters" ELSE "bypass")
Replay == Phase("replay", "stopped", "bypass")
Bypass == Phase("bypass", "through", "metrics_after")

(* Returns as soon as the file has an entry, or empty-handed in the end.   *)
wait_for_filters ==
  /\ pc = "wait_filters" /\ Goto("replay")
  /\ UNCHANGED <<tool, plan, proc, leaked, attempt, phases, report, raised,
                 gate, odd>>

(* The finally clause: the analyzer first, then the proxy.                 *)
StopAnalyzer ==
  /\ pc \in {"stop_analyzer", "stop_analyzer_wait"}
  /\ stop_process("analyzer", "stop_analyzer_wait", "stop_proxy")
  /\ UNCHANGED <<tool, plan, leaked, attempt, phases, report, raised, gate, odd>>

(* The layer's payload joins the report unless an exception is passing.    *)
StopProxy ==
  /\ pc \in {"stop_proxy", "stop_proxy_wait"}
  /\ stop_process("proxy", "stop_proxy_wait",
                  IF raised \/ Len(report.layers) + 1 = Len(plan) THEN "exit"
                  ELSE "start")
  /\ report' = IF pc' = "stop_proxy_wait" \/ raised THEN report
               ELSE [report EXCEPT !.layers = Append(@, phases)]
  /\ attempt' = IF pc' = "start" THEN 1 ELSE attempt
  /\ UNCHANGED <<tool, plan, leaked, phases, raised, gate, odd>>

-----------------------------------------------------------------------------
(* run_codexsdgate_e2e.py: one proxy, no retries, an analyzer per scenario.*)

E2EStart ==
  /\ pc = "main" /\ Popen("proxy") /\ Goto("health")
  /\ UNCHANGED <<tool, plan, attempt, phases, report, raised, gate, odd>>

(* This wait_health does not look at the process.                          *)
E2EHealth ==
  /\ pc = "health"
  /\ \/ proc["proxy"].st = "ready" /\ Goto("round") /\ raised' = raised
     \/ proc["proxy"].st # "ready" /\ Goto("exit") /\ raised' = TRUE
  /\ UNCHANGED <<tool, plan, proc, leaked, attempt, phases, report, gate, odd>>

(* The files are reset while the proxy runs, then an analyzer is started.  *)
E2ERound ==
  /\ pc = "round" /\ Popen("analyzer") /\ Goto("phases") /\ phases' = <<>>
  /\ UNCHANGED <<tool, plan, attempt, report, raised, gate, odd>>

(* collect, replay and, with verify_persistence, a replay after a quiet    *)
(* period.  Nothing judges their counts.  An exception goes past the stop  *)
(* of the analyzer: main's finally clause knows the proxy alone.           *)
E2EPhase ==
  /\ pc = "phases" /\ phases' = Append(phases, "through")
  /\ \/ Len(phases) < 2 /\ Goto("phases") /\ raised' = raised /\ Odd(FALSE)
     \/ Len(phases) > 0 /\ Goto("stop") /\ raised' = raised /\ Odd(FALSE)
     \/ Goto("exit") /\ raised' = TRUE /\ Odd(TRUE)
  /\ UNCHANGED <<tool, plan, proc, leaked, attempt, report, gate>>

E2EStop ==
  /\ pc \in {"stop", "stop_wait"}
  /\ stop_process("analyzer", "stop_wait",
                  IF Len(report.layers) + 1 = Rounds THEN "exit" ELSE "round")
  /\ report' = IF pc' = "stop_wait" THEN report
               ELSE [report EXCEPT !.layers = Append(@, phases)]
  /\ UNCHANGED <<tool, plan, leaked, attempt, phases, raised, gate, odd>>

E2EExit ==
  /\ pc \in {"exit", "exit_wait"}
  /\ stop_process("proxy", "exit_wait", "done")
  /\ UNCHANGED <<tool, plan, leaked, attempt, phases, report, raised, gate, odd>>

E2E == E2EStart \/ E2EHealth \/ E2ERound \/ E2EPhase \/ E2EStop \/ E2EExit

-----------------------------------------------------------------------------
(* summarize_phase and target_score: percentages in hundredths, each       *)
(* rounded before they are added and compared.                             *)

Larger(a, b) == IF a > b THEN a ELSE b
Smaller(a, b) == IF a < b THEN a ELSE b

percent(x, n) == (20000 * x + n) \div (2 * n)

allowed_percent(r) == percent(r.allowed, Larger(1, r.requests))
blocked_percent(r) == percent(r.blocked, Larger(1, r.requests))
limited_percent(r) == percent(r.limited, Larger(1, r.requests))

(* Errors of the attacker count as stopped attempts.                       *)
attacker_stopped(r) ==
  LET attempts == r.requests + r.errors
  IN  IF attempts = 0 THEN 0
      ELSE Smaller(10000,
             ((blocked_percent(r) + limited_percent(r)) * r.requests
                + 10000 * r.errors - r.ulp) \div attempts)

(* effective_target_score takes the replay where there is one.             *)
collect_of(l) == PhaseResult[l[1]]
replay_of(l) == PhaseResult[l[Len(l) - 1]]
bypass_of(l) == PhaseResult[l[Len(l)]]

target_score(l) ==
  LET attacker == attacker_stopped(replay_of(l))
      benign == allowed_percent(bypass_of(l))
      errors == bypass_of(l).errors
  IN  [attacker |-> attacker, benign |-> benign, bypass_errors |-> errors,
       meets_attacker |-> attacker >= 9000,
       meets_benign |-> benign >= 9500 /\ errors = 0]

-----------------------------------------------------------------------------
(* assert_defense_bench.py on the one scenario of the report.              *)

score_passes(s) == s.meets_attacker /\ s.meets_benign /\ s.bypass_errors = 0

phase_has_hung_workers(r) == r.hung # 0

phase_traffic_errors(r) == r.requests <= 0 \/ r.errors # 0 \/ r.hung # 0

\* Mutant: only the benign phase is looked at.
layer_traffic_errors_bypass(l) == phase_traffic_errors(PhaseResult[l[Len(l)]])

layer_traffic_errors(l) ==
  \E i \in DOMAIN l : phase_traffic_errors(PhaseResult[l[i]])

direct_baseline_errors ==
  LET r == PhaseResult[report.direct]
  IN  phase_traffic_errors(r) \/ allowed_percent(r) < 9500

open_proxy_negative_control_errors ==
  LET l == report.layers[1]
  IN  \/ phase_traffic_errors(collect_of(l))
      \/ allowed_percent(collect_of(l)) < 9500
      \/ target_score(l).meets_attacker

score_consistency_errors(s) ==
  \/ s.meets_attacker # (s.attacker >= 9000)
  \/ s.meets_benign # (s.bypass_errors = 0 /\ s.benign >= 9500)

passing_layers ==
  {i \in DOMAIN report.layers : score_passes(target_score(report.layers[i]))}

static_only_scenario_errors(static) ==
  LET only == passing_layers # {}
                /\ \A i \in passing_layers : plan[i] = "static_filter"
  IN  (static = "none" /\ only) \/ (static = "this" /\ ~only)

(* phase_hung_messages looks for the baseline inside each layer, so only   *)
(* the strict options judge its hung workers.                              *)
assert_report(strict, static) ==
  /\ strict => /\ report.tree /\ ~direct_baseline_errors
               /\ ~open_proxy_negative_control_errors
  /\ \A i \in DOMAIN report.layers : LET l == report.layers[i] IN
       /\ \A j \in DOMAIN l : ~phase_has_hung_workers(PhaseResult[l[j]])
       /\ strict => /\ ~layer_traffic_errors(l)
                    /\ ~score_consistency_errors(target_score(l))
  /\ ~report.metrics
  /\ passing_layers # {}
  /\ ~static_only_scenario_errors(static)

(* No report is printed when an exception leaves main.                     *)
Judge ==
  /\ pc = "exit" /\ Goto("done")
  /\ \E strict \in BOOLEAN, static \in {"any", "none", "this"} :
       gate' = [strict |-> strict, static |-> static,
                verdict |-> IF ~raised /\ assert_report(strict, static)
                            THEN "accept" ELSE "reject"]
  /\ UNCHANGED <<tool, plan, proc, leaked, attempt, phases, report, raised, odd>>

-----------------------------------------------------------------------------
Defense == StartReport \/ StartProxy \/ wait_health \/ RetryProxy
             \/ FetchMetrics \/ StartAnalyzer \/ Collect \/ wait_for_filters
             \/ Replay \/ Bypass \/ StopAnalyzer \/ StopProxy \/ Judge

Driver == (tool = "defense" /\ Defense) \/ (tool = "e2e" /\ E2E)

Next == Driver \/ \E s \in Slots : Ready(s) \/ Fails(s) \/ DieOfSignal(s)

Spec == Init /\ [][Next]_vars

-----------------------------------------------------------------------------
(* What a layer really did, from the counts alone, with a tolerance: e = 1 *)
(* grants, and e = -1 demands on top of the target, half a hundredth of a  *)
(* percent for every figure that is rounded.                               *)

StoppedFor(r, e) ==
  20000 * (r.blocked + r.limited + r.errors) + 2 * e * r.requests
    >= 18000 * (r.requests + r.errors)
ServedFor(r, e) ==
  r.requests > 0 /\ 20000 * r.allowed + e * r.requests >= 19000 * r.requests /\ r.errors = 0
Clean(r) == r.requests > 0 /\ r.errors = 0 /\ r.hung = 0
Defended(l, e) == StoppedFor(replay_of(l), e) /\ ServedFor(bypass_of(l), e)

(* A defended system: git metadata and metrics are complete, every phase   *)
(* was answered without an error or a hung worker, the upstream and the    *)
(* unprotected proxy let the traffic through, some layer stopped nine      *)
(* tenths of the attack while nineteen twentieths of the benign traffic    *)
(* were served, and the static filter is alone in that exactly when the    *)
(* gate was told so.                                                       *)
Shown(e) ==
  LET layers == report.layers
      direct == PhaseResult[report.direct]
      other == {i \in DOMAIN layers : plan[i] # "static_filter"}
  IN  /\ ~raised /\ ~report.metrics /\ report.tree
      /\ ServedFor(direct, e) /\ Clean(direct)
      /\ \A i \in DOMAIN layers : \A j \in DOMAIN layers[i] :
           Clean(PhaseResult[layers[i][j]])
      /\ ServedFor(collect_of(layers[1]), e)
      /\ ~StoppedFor(collect_of(layers[1]), -e)
      /\ \E i \in DOMAIN layers : Defended(layers[i], e)
      /\ (gate.static = "none") => \E i \in other : Defended(layers[i], e)
      /\ (gate.static = "this") => \A i \in other : ~Defended(layers[i], -e)

(* The gate and the counts agree, to the precision of the report.  Under   *)
(* the strict options assert_defense_bench.py accepts no report whose      *)
(* counts miss a target by more than the rounding of summarize_phase, and  *)
(* refuses none whose counts clear it by as much.  Errors, which           *)
(* target_score counts as stopped requests, never earn a pass.             *)
GateExact ==
  (gate.verdict # "none" /\ gate.strict) =>
    /\ gate.verdict = "accept" => Shown(1)
    /\ Shown(-1) => gate.verdict = "accept"

(* No path through either driver, retries and exceptions included, forgets *)
(* a process: one that is replaced or still there at the end has exited or *)
(* has a SIGKILL.  The one exception is the analyzer of the scenario in    *)
(* which run_codexsdgate_e2e.py itself fails.                              *)
NoOrphans ==
  /\ ~leaked
  /\ pc = "done" => \A s \in Slots :
       Alive(s) => Doomed(s) \/ (s = "analyzer" /\ tool = "e2e" /\ raised)
=============================================================================

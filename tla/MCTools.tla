------------------------------- MODULE MCTools -------------------------------
(***************************************************************************)
(* The operator's tools for TLC: the preflight of the edge templates and   *)
(* the bench's probe of it (EdgeCases), the namespace smoke (EdgeSmoke),   *)
(* the defense and end-to-end benches (DefenseBench) and the provider      *)
(* settings with the analyzer that reads them (Providers).  Separate       *)
(* programs, nothing they share is modelled: a behaviour follows one and   *)
(* the others are over.                                                    *)
(***************************************************************************)
EXTENDS EdgeCases

CONSTANTS CLI_AGENTS, API_PROVIDERS, Values, EnvKeys, MaxCommands, \* Providers
          Rounds, MaxOdd                                           \* DefenseBench

VARIABLES opts, pc, step, left, server, nft, probe, raised, refused, code,
          config, secrets, cmd, cli, commands, asked, stored, at, chosen,
          tool, plan, proc, leaked, driver, attempt, phases, report, failed,
          gate, odd

(* The layer lists of run_scenario cut down to the negative control and    *)
(* the layers the gate tells apart.                                        *)
MCPlans == { <<"proxy_open", "static_filter">>,
             <<"proxy_open", "learned_filter_strict">> }

ASSUME DefenseBenchAssumption ==
  /\ \A p \in MCPlans : IsInjective(p) /\ Len(p) > 0 /\ p[1] = "proxy_open"
  /\ Rounds \in Nat \ {0} /\ MaxOdd \in Nat

S == INSTANCE EdgeSmoke
P == INSTANCE Providers
D == INSTANCE DefenseBench WITH Plans <- MCPlans, pc <- driver, raised <- failed

ASSUME ProvidersAssumption == P!ProvidersOK

edgeVars == <<vars, probeVars>>
smokeVars == <<opts, pc, step, left, server, nft, probe, raised, refused, code>>
providerVars == <<config, secrets, cmd, cli, commands, asked, stored, at, chosen>>
benchVars == <<tool, plan, proc, leaked, driver, attempt, phases, report,
               failed, gate, odd>>

-----------------------------------------------------------------------------
TemplatesOver ==
  /\ tmpl = ShippedNft /\ sysctl = ShippedSysctl /\ unit = ShippedUnit
  /\ cfg = ExampleConfig /\ absent = {} /\ edits = 0 /\ verdict = "refused"
  /\ bench = 0 /\ judged = <<>>

SmokeOver ==
  /\ opts = [require |-> FALSE, packet |-> FALSE, mustProbe |-> FALSE]
  /\ pc = "done" /\ step = 1 /\ left = {} /\ server = "none" /\ nft = "none"
  /\ probe = S!NoReport /\ raised = FALSE /\ refused = FALSE
  /\ code = 1

ProvidersOver ==
  /\ config = P!Absent /\ secrets = P!NoSecrets /\ cmd = P!Idle
  /\ cli = "idle" /\ commands = MaxCommands
  /\ asked = P!DEFAULT_PROVIDER_CONFIG /\ stored = FALSE
  /\ at = "off" /\ chosen = [p |-> "codex", value |-> P!Default]

BenchOver ==
  /\ tool = "e2e" /\ plan = <<"proxy_open", "static_filter">>
  /\ proc = [s \in D!Slots |-> [st |-> "none", sig |-> ""]]
  /\ leaked = FALSE /\ driver = "done" /\ attempt = 1 /\ phases = <<>>
  /\ report = [tree |-> FALSE, direct |-> "none", layers |-> <<>>,
               metrics |-> FALSE]
  /\ failed = TRUE /\ odd = 0
  /\ gate = [strict |-> FALSE, static |-> "any", verdict |-> "none"]

MCInit ==
  \/ EdgeInit /\ SmokeOver /\ ProvidersOver /\ BenchOver
  \/ TemplatesOver /\ S!Init /\ ProvidersOver /\ BenchOver
  \/ TemplatesOver /\ SmokeOver /\ P!Init /\ BenchOver
  \/ TemplatesOver /\ SmokeOver /\ ProvidersOver /\ D!Init

MCNext ==
  \/ EdgeNext /\ UNCHANGED <<smokeVars, providerVars, benchVars>>
  \/ S!Next /\ UNCHANGED <<edgeVars, providerVars, benchVars>>
  \/ P!Next /\ UNCHANGED <<edgeVars, smokeVars, benchVars>>
  \/ D!Next /\ UNCHANGED <<edgeVars, smokeVars, providerVars>>

MCSpec == MCInit /\ [][MCNext]_<<edgeVars, smokeVars, providerVars, benchVars>>

-----------------------------------------------------------------------------
(* assert_defense_bench.py accepts the reports whose counts show a         *)
(* defended system, and no others, to the precision the report rounds to.  *)
GateExact == D!GateExact

(* No namespace, link, proxy or analyzer is forgotten: what the smoke      *)
(* leaves behind shows in its exit status unless a delete itself failed,   *)
(* and run_defense_bench.py and run_codexsdgate_e2e.py end having stopped  *)
(* every process they started, unless an exception took the end-to-end     *)
(* driver past its analyzer.                                               *)
NothingForgotten == S!LeakReported /\ D!NoOrphans

(* providers.json holds what the finished commands of ai_provider_cli.py   *)
(* asked for whenever it parses, and never a login's selection without the *)
(* key stored with it.                                                     *)
ProviderSettings == P!ProviderSettings
=============================================================================

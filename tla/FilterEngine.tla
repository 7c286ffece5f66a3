---------------------------- MODULE FilterEngine ----------------------------
(***************************************************************************)
(* The filter engine of src/filter.rs: the reload loop replaces the rule   *)
(* list from the runtime file, the detector activates adaptive rules for a *)
(* while, and requests are evaluated against the list, all concurrently.   *)
(*                                                                         *)
(* The list is an Arc<Vec<RuntimeRule>>: a task that took a snapshot       *)
(* shares the list until a reload replaces it, and then keeps the old one. *)
(* A condition is the set of its matchers, each a fact a request may have: *)
(* a signature, a path shape, a prefix, a header and so on.                *)
(***************************************************************************)
EXTENDS Integers, Sequences, FiniteSets

CONSTANTS
  Ids,             \* rule ids, numbers, ordered as the ids are
  Facts,           \* what a matcher may ask for
  StaticRules,     \* filters.static_rules, validated with the configuration
  Contents,        \* the rule sets the runtime file may hold
  MaxRuntimeFilters,
  DefaultTtl,      \* activation_ttl
  Activators,      \* request tasks in the detector's activation
  Evaluators,      \* request tasks in evaluate
  FactsOf,         \* the facts a task's request has
  SignalOf,        \* the signature or path shape a task activates
  Nobody,          \* holder of a free mutex
  MaxClock, MaxWrites, MaxActivations  \* bounds

Tasks == Activators \cup Evaluators

Rule == [id : Ids, priority : Nat, when : SUBSET Facts, enabled : BOOLEAN,
         adaptive : BOOLEAN, ttl : Nat, expires : Nat]
Never == MaxClock + 1   \* expires of a rule without expires_at_unix_ms
NoTtl == 0              \* ttl of a rule without ttl_seconds

ASSUME FilterAssumption ==
  /\ Ids \subseteq Nat \ {0} /\ StaticRules \subseteq Rule
  /\ \A c \in Contents : c \subseteq Rule /\ IsFiniteSet(c)
  /\ IsFiniteSet(StaticRules)
  /\ FactsOf \in [Tasks -> SUBSET Facts] /\ SignalOf \in [Tasks -> Facts]
  /\ Nobody \notin Tasks
  /\ DefaultTtl \in Nat \ {0} /\ MaxRuntimeFilters \in Nat /\ MaxClock \in Nat

VARIABLES
  up,          \* new_with_limits has returned and requests are served
  clock,       \* unix_time_ms
  file,        \* the runtime file: readable, and the rules in it
  rules,       \* the current rule list, in scan order
  until,       \* active_until_ms of the current list's rules, by id
  deadlines,   \* activation_deadlines, 0 for an id that is not there
  mutex,       \* the holder of the activation_deadlines mutex
  loader,      \* the reload task
  at,          \* where each task is
  time,        \* the unix_ms a task read
  shares,      \* the task's snapshot is the current list
  kept,        \* the task's snapshot, once it is not
  pos,         \* the rule the task looks at next
  verdict,     \* the id of the rule that blocks the request, 0 for none
  writes, activations,
  must,        \* history: rules in force ever since the evaluation began
  may          \* history: rules in force for the request at some list of it

engine == <<rules, until, deadlines, mutex, loader>>
task == <<at, time, shares, kept, pos, verdict>>
history == <<must, may>>
vars == <<up, clock, file, engine, task, writes, activations, history>>

----------------------------------------------------------------------------
UniqueIds(S) == \A a, b \in S : a.id = b.id => a = b

Before(a, b) == a.priority > b.priority \/ (a.priority = b.priority /\ a.id < b.id)

(* The lists of exactly the rules of S in the order sort_by puts them in.  *)
InScanOrder(S) ==
  {list \in [1..Cardinality(S) -> S] :
     /\ \A rule \in S : \E i \in DOMAIN list : list[i] = rule
     /\ \A i, j \in DOMAIN list : i < j => Before(list[i], list[j])}

Expired(rule, ms) == rule.expires <= ms

IdsIn(list) == {list[i].id : i \in DOMAIN list}

(* rule_matches: every matcher the condition has.                          *)
Matches(rule, t) == rule.when \subseteq FactsOf[t]

(* rule_is_active, for a rule of the current list.                         *)
Active(i, ms) ==
  /\ rules[i].enabled /\ ~Expired(rules[i], ms)
  /\ rules[i].adaptive => until[rules[i].id] > ms

(* The current rules that would block the request of task t.               *)
InForce(t, ms) ==
  {rules[i].id : i \in {j \in DOMAIN rules : Matches(rules[j], t) /\ Active(j, ms)}}

(* bounded_activation_ttl: the rule's own ttl goes before the detector's.  *)
Ttl(rule) == IF rule.ttl # NoTtl THEN rule.ttl ELSE DefaultTtl

NoList == [rules |-> << >>, until |-> [id \in Ids |-> 0]]

Snapshot(t) == IF shares[t] THEN [rules |-> rules, until |-> until] ELSE kept[t]

(* Part of every action: what the evaluations under way have witnessed.    *)
Witnessed ==
  /\ must' = [t \in Tasks |->
       CASE at'[t] = "evaluate" /\ at[t] = "idle" -> InForce(t, clock)'
         [] at'[t] \in {"evaluate", "scan"}       -> must[t] \cap InForce(t, clock)'
         [] at'[t] = "done"                       -> must[t]
         [] OTHER                                 -> {}]
  /\ may' = [t \in Tasks |->
       IF at'[t] \in {"evaluate", "scan", "done"}
       THEN may[t] \cup InForce(t, time[t])' ELSE {}]

Goto(t, loc) == at' = [at EXCEPT ![t] = loc]

----------------------------------------------------------------------------
(* Activation: activate_signature and activate_path_shape, called by the   *)
(* detector on behalf of a request.                                        *)

BeginActivate(t) ==
  /\ up /\ t \in Activators
  /\ at[t] = "idle" /\ activations < MaxActivations
  /\ activations' = activations + 1
  /\ Goto(t, "activate")
  /\ time' = [time EXCEPT ![t] = clock]
  /\ UNCHANGED <<up, clock, file, engine, shares, kept, pos, verdict, writes>>
  /\ Witnessed

(* lock_activation_deadlines, then rules_snapshot under that lock.         *)
LockActivate(t) ==
  /\ at[t] = "activate" /\ mutex = Nobody
  /\ mutex' = t
  /\ Goto(t, "store")
  /\ shares' = [shares EXCEPT ![t] = TRUE]
  /\ pos' = [pos EXCEPT ![t] = 1]
  /\ UNCHANGED <<up, clock, file, rules, until, deadlines, loader, time, kept, verdict,
                 writes, activations>>
  /\ Witnessed

(* The next rule of the snapshot: store its deadline when it applies.      *)
StoreDeadline(t) ==
  LET rule == Snapshot(t).rules[pos[t]]
      hit  == /\ rule.enabled /\ rule.adaptive /\ ~Expired(rule, time[t])
              /\ SignalOf[t] \in rule.when
  IN  /\ at[t] = "store" /\ pos[t] <= Len(Snapshot(t).rules)
      /\ pos' = [pos EXCEPT ![t] = @ + 1]
      /\ IF hit
         THEN /\ deadlines' = [deadlines EXCEPT ![rule.id] = clock + Ttl(rule)]
              /\ until' = IF shares[t] THEN [until EXCEPT ![rule.id] = clock + Ttl(rule)]
                          ELSE until
              /\ kept' = IF shares[t] THEN kept
                         ELSE [kept EXCEPT ![t].until[rule.id] = clock + Ttl(rule)]
         ELSE UNCHANGED <<deadlines, until, kept>>
      /\ UNCHANGED <<up, clock, file, rules, mutex, loader, at, time, shares, verdict,
                     writes, activations>>
      /\ Witnessed

EndActivate(t) ==
  /\ at[t] = "store" /\ pos[t] > Len(Snapshot(t).rules)
  /\ mutex' = Nobody
  /\ Goto(t, "idle")
  /\ shares' = [shares EXCEPT ![t] = FALSE]
  /\ kept' = [kept EXCEPT ![t] = NoList]
  /\ pos' = [pos EXCEPT ![t] = 0]
  /\ time' = [time EXCEPT ![t] = 0]
  /\ UNCHANGED <<up, clock, file, rules, until, deadlines, loader, verdict, writes, activations>>
  /\ Witnessed

----------------------------------------------------------------------------
(* evaluate: read the clock, take a snapshot, scan it without any lock.    *)

BeginEvaluate(t) ==
  /\ up /\ t \in Evaluators
  /\ at[t] = "idle"
  /\ Goto(t, "evaluate")
  /\ time' = [time EXCEPT ![t] = clock]
  /\ UNCHANGED <<up, clock, file, engine, shares, kept, pos, verdict, writes, activations>>
  /\ Witnessed

TakeSnapshot(t) ==
  /\ at[t] = "evaluate"
  /\ Goto(t, "scan")
  /\ shares' = [shares EXCEPT ![t] = TRUE]
  /\ pos' = [pos EXCEPT ![t] = 1]
  /\ UNCHANGED <<up, clock, file, engine, time, kept, verdict, writes, activations>>
  /\ Witnessed

Finish(t, id) ==
  /\ Goto(t, "done")
  /\ verdict' = [verdict EXCEPT ![t] = id]
  /\ shares' = [shares EXCEPT ![t] = FALSE]
  /\ kept' = [kept EXCEPT ![t] = NoList]
  /\ pos' = [pos EXCEPT ![t] = 0]

\* Mutant: a matching rule that is dormant ends the scan.
ScanRuleOnce(t) ==
  LET list == Snapshot(t)
      rule == list.rules[pos[t]]
      on   == /\ rule.enabled /\ ~Expired(rule, time[t])
              /\ rule.adaptive => list.until[rule.id] > time[t]
  IN  /\ at[t] = "scan"
      /\ IF pos[t] > Len(list.rules) THEN Finish(t, 0)
         ELSE IF Matches(rule, t) THEN Finish(t, IF on THEN rule.id ELSE 0)
         ELSE pos' = [pos EXCEPT ![t] = @ + 1] /\ UNCHANGED <<at, verdict, shares, kept>>
      /\ UNCHANGED <<up, clock, file, engine, time, writes, activations>>
      /\ Witnessed

ScanRule(t) ==
  LET list == Snapshot(t)
      rule == list.rules[pos[t]]
      on   == /\ rule.enabled /\ ~Expired(rule, time[t])
              /\ rule.adaptive => list.until[rule.id] > time[t]
  IN  /\ at[t] = "scan"
      /\ IF pos[t] > Len(list.rules) THEN Finish(t, 0)
         ELSE IF on /\ Matches(rule, t) THEN Finish(t, rule.id)
         ELSE pos' = [pos EXCEPT ![t] = @ + 1] /\ UNCHANGED <<at, verdict, shares, kept>>
      /\ UNCHANGED <<up, clock, file, engine, time, writes, activations>>
      /\ Witnessed

(* The request is over; the task serves another.                           *)
NextRequest(t) ==
  /\ at[t] = "done"
  /\ Goto(t, "idle")
  /\ verdict' = [verdict EXCEPT ![t] = 0]
  /\ time' = [time EXCEPT ![t] = 0]
  /\ UNCHANGED <<up, clock, file, engine, shares, kept, pos, writes, activations>>
  /\ Witnessed

----------------------------------------------------------------------------
(* reload, run by the daemon every reload_seconds.                         *)

(* load_runtime_filter_file and the checks on the merged rules.            *)
Loadable(f) ==
  /\ f.readable
  /\ Cardinality(f.rules) <= MaxRuntimeFilters
  /\ UniqueIds(StaticRules \cup f.rules)

LoadFile ==
  /\ loader.at = "idle" /\ Loadable(file)
  /\ \E list \in InScanOrder(StaticRules \cup file.rules) :
       loader' = [at |-> "loaded", rules |-> list, since |-> clock]
  /\ UNCHANGED <<up, clock, file, rules, until, deadlines, mutex, task, writes, activations>>
  /\ Witnessed

\* Mutant: an error ends the reload task.
LoadFailsForever ==
  /\ loader.at = "idle" /\ ~Loadable(file)
  /\ up' = TRUE
  /\ loader' = [loader EXCEPT !.at = "stopped"]
  /\ UNCHANGED <<clock, file, rules, until, deadlines, mutex, task, writes, activations>>
  /\ Witnessed

(* Any error ends the reload and keeps the list.  The reload that          *)
(* new_with_limits makes is no exception: the engine starts all the same.  *)
LoadFails ==
  /\ loader.at = "idle" /\ ~Loadable(file)
  /\ up' = TRUE
  /\ UNCHANGED <<clock, file, engine, task, writes, activations>>
  /\ Witnessed

\* Mutant: the new list starts with every rule dormant.
SwapRulesDormant ==
  /\ loader.at = "loaded" /\ mutex = Nobody
  /\ deadlines' = [id \in Ids |-> 0] /\ until' = [id \in Ids |-> 0]
  /\ rules' = loader.rules
  /\ loader' = [at |-> "idle", rules |-> << >>, since |-> 0]
  /\ kept' = [t \in Tasks |-> IF shares[t] THEN Snapshot(t) ELSE kept[t]]
  /\ shares' = [t \in Tasks |-> FALSE]
  /\ up' = TRUE
  /\ UNCHANGED <<clock, file, mutex, at, time, pos, verdict, writes, activations>>
  /\ Witnessed

(* Under the mutex: keep the deadlines still ahead of now_ms for the ids   *)
(* that are loaded, and replace the list.                                  *)
SwapRules ==
  /\ loader.at = "loaded" /\ mutex = Nobody
  /\ \E now \in loader.since..clock :
       LET live == [id \in Ids |-> IF deadlines[id] > now /\ id \in IdsIn(loader.rules)
                                   THEN deadlines[id] ELSE 0]
       IN  deadlines' = live /\ until' = live
  /\ rules' = loader.rules
  /\ loader' = [at |-> "idle", rules |-> << >>, since |-> 0]
  /\ kept' = [t \in Tasks |-> IF shares[t] THEN Snapshot(t) ELSE kept[t]]
  /\ shares' = [t \in Tasks |-> FALSE]
  /\ up' = TRUE
  /\ UNCHANGED <<clock, file, mutex, at, time, pos, verdict, writes, activations>>
  /\ Witnessed

----------------------------------------------------------------------------
File == [readable : {TRUE}, rules : Contents] \cup {[readable |-> FALSE, rules |-> {}]}

(* The analyzer or an operator replaces the runtime file; a file that does *)
(* not exist or is empty holds no rules, one that cannot be read or parsed *)
(* is not readable.                                                        *)
WriteFile ==
  /\ writes < MaxWrites
  /\ writes' = writes + 1
  /\ file' \in File
  /\ UNCHANGED <<up, clock, engine, task, activations>>
  /\ Witnessed

Tick ==
  /\ clock < MaxClock
  /\ clock' = clock + 1
  /\ UNCHANGED <<up, file, engine, task, writes, activations>>
  /\ Witnessed

Init ==
  /\ up = FALSE /\ clock = 0
  /\ file \in File
  /\ rules = << >>
  /\ until = [id \in Ids |-> 0] /\ deadlines = [id \in Ids |-> 0]
  /\ mutex = Nobody
  /\ loader = [at |-> "idle", rules |-> << >>, since |-> 0]
  /\ at = [t \in Tasks |-> "idle"] /\ time = [t \in Tasks |-> 0]
  /\ shares = [t \in Tasks |-> FALSE] /\ kept = [t \in Tasks |-> NoList]
  /\ pos = [t \in Tasks |-> 0] /\ verdict = [t \in Tasks |-> 0]
  /\ writes = 0 /\ activations = 0
  /\ must = [t \in Tasks |-> {}] /\ may = [t \in Tasks |-> {}]

Activating(t) == LockActivate(t) \/ StoreDeadline(t) \/ EndActivate(t)

Next ==
  \/ \E t \in Tasks :
       \/ BeginActivate(t) \/ Activating(t)
       \/ BeginEvaluate(t) \/ TakeSnapshot(t) \/ ScanRule(t) \/ NextRequest(t)
  \/ LoadFile \/ LoadFails \/ SwapRules \/ WriteFile \/ Tick

Spec == Init /\ [][Next]_vars

(* The reload loop keeps running, and a task that holds the mutex is never *)
(* suspended there: it makes no await between lock and unlock.             *)
FairSpec ==
  /\ Spec
  /\ WF_vars(LoadFile) /\ WF_vars(SwapRules)
  /\ \A t \in Tasks : WF_vars(Activating(t))

----------------------------------------------------------------------------
TypeOK ==
  /\ clock \in 0..MaxClock
  /\ file.rules \subseteq Rule
  /\ rules \in Seq(Rule) /\ Cardinality(IdsIn(rules)) = Len(rules)
  /\ until \in [Ids -> Nat] /\ deadlines \in [Ids -> Nat]
  /\ mutex \in Tasks \cup {Nobody}
  /\ at \in [Tasks -> {"idle", "activate", "store", "evaluate", "scan", "done"}]
  /\ time \in [Tasks -> 0..MaxClock]
  /\ verdict \in [Tasks -> Ids \cup {0}]

(* docs/ARCHITECTURE.md: "reload swaps in a new snapshot while preserving  *)
(* active rule deadlines".  While a rule stays loaded only an activation   *)
(* touches a deadline that still lies ahead.                               *)
DeadlinePreserved ==
  [][\A id \in IdsIn(rules) \cap IdsIn(rules') :
       until[id] > clock /\ until'[id] # until[id] => \E t \in Tasks : at[t] = "store"]_vars

(* The list, the deadlines and the clock change while a request scans.     *)
(* Still, one that evaluate lets pass had no rule in force against it from *)
(* the beginning of its evaluation to the end, and one that it blocks is   *)
(* blocked by a rule that some list of that time held in force, at the     *)
(* time the request read.                                                  *)
VerdictJustified ==
  \A t \in Tasks : at[t] = "done" =>
    IF verdict[t] = 0 THEN must[t] = {} ELSE verdict[t] \in may[t]

(* A valid runtime file that is left alone is loaded in the end, however   *)
(* activations compete for the mutex.                                      *)
FileLoaded ==
  <>[](Loadable(file) => {rules[i] : i \in DOMAIN rules} = StaticRules \cup file.rules)
=============================================================================

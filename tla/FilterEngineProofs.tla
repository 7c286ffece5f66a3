------------------------- MODULE FilterEngineProofs -------------------------
(***************************************************************************)
(* What filters rest on.  For every set of rules, runtime files and        *)
(* request tasks: evaluate's verdicts are justified and a reload preserves *)
(* the deadlines that lie ahead (FilterEngine).  The analyzer that writes  *)
(* the runtime file: its provider is the one the finished commands asked   *)
(* for (Providers), and no event of the log it reads, while the daemon     *)
(* rotates it, counts twice (Analyzer).                                    *)
(***************************************************************************)
EXTENDS FilterEngine, FiniteSetTheorems, TLAPS

List == [rules : Seq(Rule), until : [Ids -> Nat]]

TypeInv ==
  /\ clock \in Nat
  /\ file.rules \subseteq Rule /\ IsFiniteSet(file.rules)
  /\ rules \in Seq(Rule) /\ until \in [Ids -> Nat] /\ deadlines \in [Ids -> Nat]
  /\ loader \in [at : {"idle", "loaded"}, rules : Seq(Rule), since : Nat]
  /\ at \in [Tasks -> {"idle", "activate", "store", "evaluate", "scan", "done"}]
  /\ time \in [Tasks -> Nat] /\ shares \in [Tasks -> BOOLEAN] /\ kept \in [Tasks -> List]
  /\ pos \in [Tasks -> Nat] /\ verdict \in [Tasks -> Ids \cup {0}]

(* The rules carry the deadlines of the table, and whoever is storing one  *)
(* holds the mutex, so that no reload takes the list away meanwhile.       *)
MutexInv ==
  /\ until = deadlines
  /\ \A t \in Tasks : at[t] = "store" => mutex = t /\ shares[t] /\ pos[t] >= 1

(* What scanning rule i of a list at the instant ms would find.            *)
Blocks(list, i, t, ms) ==
  /\ list.rules[i].enabled /\ ~Expired(list.rules[i], ms)
  /\ list.rules[i].adaptive => list.until[list.rules[i].id] > ms
  /\ Matches(list.rules[i], t)

(* The ids of the rules from position p on that would block the request.   *)
BlockingFrom(list, p, t, ms) ==
  {list.rules[i].id : i \in {j \in DOMAIN list.rules : j >= p /\ Blocks(list, j, t, ms)}}

(* A rule in force all along has not been passed over by the scan, and     *)
(* what the scan may still find was in force for this request.             *)
EvalOK(t) ==
  /\ time[t] <= clock
  /\ at[t] \in {"evaluate", "scan", "done"} => InForce(t, time[t]) \subseteq may[t]
  /\ at[t] = "scan" =>
       /\ pos[t] >= 1
       /\ must[t] \subseteq BlockingFrom(Snapshot(t), pos[t], t, time[t])
       /\ BlockingFrom(Snapshot(t), 1, t, time[t]) \subseteq may[t]
  /\ at[t] = "done" => IF verdict[t] = 0 THEN must[t] = {} ELSE verdict[t] \in may[t]

IInv == TypeInv /\ MutexInv /\ \A t \in Tasks : EvalOK(t)

----------------------------------------------------------------------------
(* A rule that blocks at an instant blocks at an earlier one.              *)
LEMMA BlocksEarlier ==
  ASSUME NEW list \in List, NEW i \in DOMAIN list.rules, NEW t \in Tasks,
         NEW a \in Nat, NEW b \in Nat, a <= b, Blocks(list, i, t, b)
  PROVE  Blocks(list, i, t, a)
<1>1. list.rules \in Seq(Rule) /\ list.until \in [Ids -> Nat] BY Zenon DEF List
<1>2. list.rules[i] \in Rule BY <1>1
<1>3. list.rules[i].expires \in Nat /\ list.rules[i].id \in Ids BY <1>2, Zenon DEF Rule
<1>4. list.until[list.rules[i].id] \in Nat BY <1>1, <1>3, Zenon
<1> QED BY <1>3, <1>4 DEF Blocks, Expired

LEMMA BlockingEarlier ==
  ASSUME NEW list \in List, NEW p \in Nat, NEW t \in Tasks, NEW a \in Nat, NEW b \in Nat, a <= b
  PROVE  BlockingFrom(list, p, t, b) \subseteq BlockingFrom(list, p, t, a)
BY BlocksEarlier, Zenon DEF BlockingFrom

(* The current list's rules in force, as a scan of it would find them.     *)
LEMMA ForceBlocksPrimed ==
  ASSUME rules' \in Seq(Rule), NEW t \in Tasks, NEW ms
  PROVE  InForce(t, ms)' = BlockingFrom([rules |-> rules', until |-> until'], 1, t, ms)
<1>1. DOMAIN rules' = 1..Len(rules') /\ Len(rules') \in Nat OBVIOUS
<1> QED BY <1>1 DEF InForce, BlockingFrom, Blocks, Active

(* What the history keeps for one task in any step.                        *)
LEMMA WitnessedFor ==
  ASSUME Witnessed, NEW t \in Tasks
  PROVE  /\ at'[t] \in {"evaluate", "scan", "done"} =>
              InForce(t, time[t])' \subseteq may'[t] /\ may[t] \subseteq may'[t]
         /\ at'[t] = "scan" => must'[t] \subseteq must[t] /\ must'[t] \subseteq InForce(t, clock)'
         /\ at'[t] = "done" => must'[t] = must[t]
<1>1. at'[t] \in {"evaluate", "scan", "done"} => may'[t] = may[t] \cup InForce(t, time[t])'
  BY Zenon DEF Witnessed
<1>2. at'[t] = "scan" => must'[t] = must[t] \cap InForce(t, clock)'
  BY Zenon DEF Witnessed
<1>3. at'[t] = "done" => must'[t] = must[t]
  BY Zenon DEF Witnessed
<1> QED BY <1>1, <1>2, <1>3, Zenon

(* A step of the engine or of another task.                                *)
LEMMA EvalKept ==
  ASSUME IInv, Witnessed, NEW t \in Tasks, rules' \in Seq(Rule), clock \in Nat, clock' \in Nat,
         clock <= clock', at'[t] = at[t], time'[t] = time[t], pos'[t] = pos[t],
         verdict'[t] = verdict[t],
         at[t] = "scan" =>
           \/ /\ shares'[t] /\ shares[t] /\ rules' = rules
              /\ \A i \in DOMAIN rules :
                   Blocks([rules |-> rules, until |-> until], i, t, time[t])
                     => Blocks([rules |-> rules', until |-> until'], i, t, time[t])
           \/ ~shares'[t] /\ kept'[t] = Snapshot(t)
  PROVE  EvalOK(t)'
<1>0. EvalOK(t) /\ time[t] \in Nat BY Zenon DEF IInv, TypeInv
<1>1. time'[t] <= clock' BY <1>0 DEF EvalOK
<1>2. at'[t] \in {"evaluate", "scan", "done"} =>
        InForce(t, time[t])' \subseteq may'[t] /\ may[t] \subseteq may'[t]
  BY WitnessedFor, Zenon
<1>3. ASSUME at'[t] = "scan"
      PROVE  /\ pos'[t] >= 1
             /\ must'[t] \subseteq BlockingFrom(Snapshot(t)', pos'[t], t, time'[t])
             /\ BlockingFrom(Snapshot(t)', 1, t, time'[t]) \subseteq may'[t]
  <2>1. /\ pos[t] >= 1 /\ must'[t] \subseteq must[t]
        /\ must[t] \subseteq BlockingFrom(Snapshot(t), pos[t], t, time[t])
        /\ BlockingFrom(Snapshot(t), 1, t, time[t]) \subseteq may[t]
    BY <1>0, <1>3, WitnessedFor, Zenon DEF EvalOK
  <2>2. CASE ~shares'[t] /\ kept'[t] = Snapshot(t)
    <3>1. Snapshot(t)' = Snapshot(t) BY <2>2, Zenon DEF Snapshot
    <3> QED BY <1>2, <1>3, <2>1, <3>1, Zenon
  <2>3. CASE /\ shares'[t] /\ shares[t] /\ rules' = rules
             /\ \A i \in DOMAIN rules :
                  Blocks([rules |-> rules, until |-> until], i, t, time[t])
                    => Blocks([rules |-> rules', until |-> until'], i, t, time[t])
    <3>1. /\ Snapshot(t) = [rules |-> rules, until |-> until]
          /\ Snapshot(t)' = [rules |-> rules', until |-> until']
      BY <2>3, Zenon DEF Snapshot
    <3>2. BlockingFrom(Snapshot(t), pos[t], t, time[t])
            \subseteq BlockingFrom(Snapshot(t)', pos[t], t, time[t])
      BY <2>3, <3>1 DEF BlockingFrom
    <3>3. InForce(t, time[t])' = BlockingFrom(Snapshot(t)', 1, t, time'[t])
      BY <3>1, ForceBlocksPrimed, Zenon
    <3> QED BY <1>2, <1>3, <2>1, <3>2, <3>3, Zenon
  <2> QED BY <1>3, <2>2, <2>3, Zenon
<1>4. ASSUME at'[t] = "done"
      PROVE  IF verdict'[t] = 0 THEN must'[t] = {} ELSE verdict'[t] \in may'[t]
  BY <1>0, <1>2, <1>4, WitnessedFor, Zenon DEF EvalOK
<1> QED BY <1>1, <1>2, <1>3, <1>4, Zenon DEF EvalOK

LEMMA OthersKept ==
  ASSUME IInv, Witnessed, UNCHANGED <<rules, until>>, clock' \in Nat, clock <= clock',
         NEW x \in Tasks, at'[x] = at[x], time'[x] = time[x], pos'[x] = pos[x],
         verdict'[x] = verdict[x], shares'[x] = shares[x], kept'[x] = kept[x]
  PROVE  EvalOK(x)'
<1>1. clock \in Nat /\ rules' \in Seq(Rule) /\ shares[x] \in BOOLEAN BY Zenon DEF IInv, TypeInv
<1>2. CASE shares[x] BY <1>1, <1>2, EvalKept, Zenon
<1>3. CASE ~shares[x]
  <2>1. kept'[x] = Snapshot(x) BY <1>3, Zenon DEF Snapshot
  <2> QED BY <1>1, <1>3, <2>1, EvalKept, Zenon
<1> QED BY <1>1, <1>2, <1>3, Zenon

(* A task that is not scanning after its step.                             *)
LEMMA ActorAway ==
  ASSUME Witnessed, NEW t \in Tasks, at'[t] \in {"idle", "activate", "store", "evaluate"},
         time'[t] <= clock'
  PROVE  EvalOK(t)'
BY WitnessedFor, Zenon DEF EvalOK

LEMMA BeginActivateInv ==
  ASSUME IInv, NEW t \in Tasks, BeginActivate(t)
  PROVE  IInv'
<1>1. TypeInv' BY Zenon DEF IInv, TypeInv, BeginActivate, Goto, engine
<1>2. MutexInv' BY Zenon DEF IInv, TypeInv, MutexInv, BeginActivate, Goto, engine
<1>3. ASSUME NEW x \in Tasks PROVE EvalOK(x)'
  <2>1. clock \in Nat /\ Witnessed BY Zenon DEF IInv, TypeInv, BeginActivate
  <2>2. CASE x = t
    BY <2>1, <2>2, ActorAway DEF IInv, TypeInv, BeginActivate, Goto
  <2>3. CASE x # t
    <3>1. /\ at'[x] = at[x] /\ time'[x] = time[x] /\ pos'[x] = pos[x]
          /\ verdict'[x] = verdict[x] /\ shares'[x] = shares[x] /\ kept'[x] = kept[x]
      BY <2>3, Zenon DEF IInv, TypeInv, BeginActivate, Goto
    <3>2. UNCHANGED <<rules, until, clock>> BY Zenon DEF BeginActivate, engine
    <3>3. clock' \in Nat /\ clock <= clock' BY <2>1, <3>2
    <3> QED BY <2>1, <3>1, <3>2, <3>3, OthersKept, Zenon
  <2> QED BY <2>2, <2>3, Zenon
<1> QED BY <1>1, <1>2, <1>3, Zenon DEF IInv

LEMMA LockActivateInv ==
  ASSUME IInv, NEW t \in Tasks, LockActivate(t)
  PROVE  IInv'
<1>1. TypeInv' BY Zenon DEF IInv, TypeInv, LockActivate, Goto
<1>2. MutexInv'
  <2>1. \A x \in Tasks \ {t} : at'[x] # "store"
    BY FilterAssumption, Zenon DEF IInv, TypeInv, MutexInv, LockActivate, Goto
  <2>2. mutex' = t /\ shares'[t] /\ pos'[t] >= 1 /\ UNCHANGED <<until, deadlines>>
    BY DEF IInv, TypeInv, LockActivate
  <2> QED BY <2>1, <2>2, Zenon DEF IInv, MutexInv
<1>3. ASSUME NEW x \in Tasks PROVE EvalOK(x)'
  <2>1. clock \in Nat /\ Witnessed /\ time[t] <= clock
    BY Zenon DEF IInv, TypeInv, EvalOK, LockActivate
  <2>2. CASE x = t
    BY <2>1, <2>2, ActorAway, Zenon DEF IInv, TypeInv, LockActivate, Goto
  <2>3. CASE x # t
    <3>1. /\ at'[x] = at[x] /\ time'[x] = time[x] /\ pos'[x] = pos[x] /\ verdict'[x] = verdict[x]
          /\ shares'[x] = shares[x] /\ kept'[x] = kept[x]
      BY <2>3, Zenon DEF IInv, TypeInv, LockActivate, Goto
    <3>2. UNCHANGED <<rules, until, clock>> BY Zenon DEF LockActivate
    <3> QED BY <2>1, <3>1, <3>2, OthersKept
  <2> QED BY <2>2, <2>3
<1> QED BY <1>1, <1>2, <1>3 DEF IInv

LEMMA EndActivateInv ==
  ASSUME IInv, NEW t \in Tasks, EndActivate(t)
  PROVE  IInv'
<1>1. TypeInv'
  <2>1. NoList \in List BY DEF NoList, List
  <2> QED BY <2>1, Zenon DEF IInv, TypeInv, EndActivate, Goto
<1>2. MutexInv'
  <2>1. \A x \in Tasks : at'[x] # "store"
    BY Zenon DEF IInv, TypeInv, MutexInv, EndActivate, Goto
  <2> QED BY <2>1, Zenon DEF IInv, MutexInv, EndActivate
<1>3. ASSUME NEW x \in Tasks PROVE EvalOK(x)'
  <2>1. clock \in Nat /\ Witnessed BY Zenon DEF IInv, TypeInv, EndActivate
  <2>2. CASE x = t
    BY <2>1, <2>2, ActorAway DEF IInv, TypeInv, EndActivate, Goto
  <2>3. CASE x # t
    <3>1. /\ at'[x] = at[x] /\ time'[x] = time[x] /\ pos'[x] = pos[x] /\ verdict'[x] = verdict[x]
          /\ shares'[x] = shares[x] /\ kept'[x] = kept[x]
      BY <2>3, Zenon DEF IInv, TypeInv, EndActivate, Goto
    <3>2. UNCHANGED <<rules, until, clock>> BY Zenon DEF EndActivate
    <3> QED BY <2>1, <3>1, <3>2, OthersKept
  <2> QED BY <2>2, <2>3
<1> QED BY <1>1, <1>2, <1>3 DEF IInv

(* The rule stored to gets a deadline after the clock, and so after any    *)
(* instant an evaluation under way may have read.                          *)
LEMMA StoreDeadlineInv ==
  ASSUME IInv, NEW t \in Tasks, StoreDeadline(t)
  PROVE  IInv'
<1> DEFINE rule == rules[pos[t]]
<1>0. /\ clock \in Nat /\ rules \in Seq(Rule) /\ until \in [Ids -> Nat] /\ until = deadlines
      /\ pos[t] \in Nat /\ pos[t] >= 1 /\ shares[t] /\ at[t] = "store" /\ mutex = t
      /\ kept \in [Tasks -> List]
  BY Zenon DEF IInv, TypeInv, MutexInv, StoreDeadline
<1>1. Snapshot(t).rules = rules BY <1>0, Zenon DEF Snapshot
<1>2. rule \in Rule /\ rule.id \in Ids /\ rule.ttl \in Nat
  <2>1. pos[t] <= Len(rules) BY <1>1, Zenon DEF StoreDeadline
  <2>2. rule \in Rule BY <1>0, <2>1
  <2> QED BY <2>2, Zenon DEF Rule
<1>3. Ttl(rule) \in Nat \ {0} BY <1>2, FilterAssumption, Zenon DEF Ttl, NoTtl
<1> HIDE DEF rule
<1>4. /\ pos' = [pos EXCEPT ![t] = @ + 1] /\ kept' = kept
      /\ UNCHANGED <<up, clock, file, rules, mutex, loader, at, time, shares, verdict>>
      /\ Witnessed
      /\ \/ UNCHANGED <<deadlines, until>>
         \/ /\ deadlines' = [deadlines EXCEPT ![rule.id] = clock + Ttl(rule)]
            /\ until' = [until EXCEPT ![rule.id] = clock + Ttl(rule)]
  BY <1>0, <1>1, Zenon DEF StoreDeadline, rule
<1>5. until' \in [Ids -> Nat] /\ until' = deadlines'
  <2>1. clock + Ttl(rule) \in Nat BY <1>0, <1>3
  <2>2. CASE UNCHANGED <<deadlines, until>> BY <1>0, <2>2, Zenon
  <2>3. CASE /\ deadlines' = [deadlines EXCEPT ![rule.id] = clock + Ttl(rule)]
             /\ until' = [until EXCEPT ![rule.id] = clock + Ttl(rule)]
    BY <1>0, <1>2, <2>1, <2>3, Zenon
  <2> QED BY <1>4, <2>2, <2>3, Zenon
<1>6. TypeInv' BY <1>4, <1>5 DEF IInv, TypeInv
<1>7. MutexInv' BY <1>0, <1>4, <1>5 DEF IInv, TypeInv, MutexInv
<1>8. ASSUME NEW x \in Tasks PROVE EvalOK(x)'
  <2>1. time[x] \in Nat /\ time[x] <= clock /\ shares[x] \in BOOLEAN
    BY <1>8, Zenon DEF IInv, TypeInv, EvalOK
  <2>2. CASE x = t BY <1>0, <1>4, <2>1, <2>2, ActorAway, Zenon
  <2>3. CASE x # t
    <3>1. pos'[x] = pos[x] BY <1>4, <2>3, Zenon DEF IInv, TypeInv
    <3>2. ASSUME NEW i \in DOMAIN rules,
                 Blocks([rules |-> rules, until |-> until], i, x, time[x])
          PROVE  Blocks([rules |-> rules', until |-> until'], i, x, time[x])
      <4>1. rules[i].id \in Ids
        <5>1. rules[i] \in Rule BY <1>0, <3>2
        <5> QED BY <5>1, Zenon DEF Rule
      <4>2. until[rules[i].id] > time[x] => until'[rules[i].id] > time[x]
        <5>1. clock + Ttl(rule) > time[x] BY <1>0, <1>3, <2>1
        <5>2. until'[rules[i].id] \in {until[rules[i].id], clock + Ttl(rule)}
          BY <1>0, <1>4, <4>1, Zenon
        <5> QED BY <5>1, <5>2, Zenon
      <4> QED BY <1>4, <3>2, <4>2, Zenon DEF Blocks
    <3>3. CASE shares[x]
      <4>1. /\ shares'[x] /\ shares[x] /\ rules' = rules
            /\ \A i \in DOMAIN rules :
                 Blocks([rules |-> rules, until |-> until], i, x, time[x])
                   => Blocks([rules |-> rules', until |-> until'], i, x, time[x])
        BY <1>4, <3>2, <3>3, Zenon
      <4>2. /\ clock' \in Nat /\ clock <= clock' /\ at'[x] = at[x] /\ time'[x] = time[x]
            /\ verdict'[x] = verdict[x] /\ rules' \in Seq(Rule)
        BY <1>0, <1>4
      <4> QED BY <1>0, <1>4, <3>1, <4>1, <4>2, EvalKept, Zenon
    <3>4. CASE ~shares[x]
      <4>1. kept'[x] = Snapshot(x) /\ ~shares'[x] BY <1>4, <3>4, Zenon DEF Snapshot
      <4>2. /\ clock' \in Nat /\ clock <= clock' /\ at'[x] = at[x] /\ time'[x] = time[x]
            /\ verdict'[x] = verdict[x] /\ rules' \in Seq(Rule)
        BY <1>0, <1>4
      <4> QED BY <1>0, <1>4, <3>1, <4>1, <4>2, EvalKept, Zenon
    <3> QED BY <2>1, <3>3, <3>4, Zenon
  <2> QED BY <2>2, <2>3
<1> QED BY <1>6, <1>7, <1>8 DEF IInv

----------------------------------------------------------------------------
LEMMA BeginEvaluateInv ==
  ASSUME IInv, NEW t \in Tasks, BeginEvaluate(t)
  PROVE  IInv'
<1>1. TypeInv' BY Zenon DEF IInv, TypeInv, BeginEvaluate, Goto, engine
<1>2. MutexInv' BY Zenon DEF IInv, TypeInv, MutexInv, BeginEvaluate, Goto, engine
<1>3. ASSUME NEW x \in Tasks PROVE EvalOK(x)'
  <2>1. clock \in Nat /\ Witnessed BY Zenon DEF IInv, TypeInv, BeginEvaluate
  <2>2. CASE x = t
    BY <2>1, <2>2, ActorAway DEF IInv, TypeInv, BeginEvaluate, Goto
  <2>3. CASE x # t
    <3>1. /\ at'[x] = at[x] /\ time'[x] = time[x] /\ pos'[x] = pos[x] /\ verdict'[x] = verdict[x]
          /\ shares'[x] = shares[x] /\ kept'[x] = kept[x]
      BY <2>3, Zenon DEF IInv, TypeInv, BeginEvaluate, Goto
    <3>2. UNCHANGED <<rules, until, clock>> BY Zenon DEF BeginEvaluate, engine
    <3> QED BY <2>1, <3>1, <3>2, OthersKept
  <2> QED BY <2>2, <2>3
<1> QED BY <1>1, <1>2, <1>3 DEF IInv

(* A rule in force now was already in force at the instant the request     *)
(* read, so the snapshot has every rule in force all along.                *)
LEMMA TakeSnapshotInv ==
  ASSUME IInv, NEW t \in Tasks, TakeSnapshot(t)
  PROVE  IInv'
<1>1. TypeInv' BY Zenon DEF IInv, TypeInv, TakeSnapshot, Goto, engine
<1>2. MutexInv' BY Zenon DEF IInv, TypeInv, MutexInv, TakeSnapshot, Goto, engine
<1>3. ASSUME NEW x \in Tasks PROVE EvalOK(x)'
  <2>1. /\ clock \in Nat /\ time[t] \in Nat /\ time[t] <= clock /\ Witnessed
        /\ UNCHANGED <<rules, until, clock, time, kept, verdict>>
        /\ rules \in Seq(Rule) /\ until \in [Ids -> Nat]
        /\ at'[t] = "scan" /\ shares'[t] /\ pos'[t] = 1
    BY Zenon DEF IInv, TypeInv, EvalOK, TakeSnapshot, engine, Goto
  <2>2. CASE x = t
    <3> DEFINE list == [rules |-> rules', until |-> until']
    <3>1. Snapshot(t)' = list /\ list \in List BY <2>1, Zenon DEF Snapshot, List
    <3>2. /\ InForce(t, time[t])' \subseteq may'[t]
          /\ must'[t] \subseteq InForce(t, clock)'
      BY <2>1, WitnessedFor, Zenon
    <3>3. /\ InForce(t, clock)' = BlockingFrom(list, 1, t, clock')
          /\ InForce(t, time[t])' = BlockingFrom(list, 1, t, time'[t])
      BY <2>1, ForceBlocksPrimed, Zenon
    <3> HIDE DEF list
    <3>4. BlockingFrom(list, 1, t, clock') \subseteq BlockingFrom(list, 1, t, time'[t])
      BY <2>1, <3>1, BlockingEarlier, Zenon
    <3> QED BY <2>1, <2>2, <3>1, <3>2, <3>3, <3>4, SMTT(30) DEF EvalOK
  <2>3. CASE x # t
    <3>1. /\ at'[x] = at[x] /\ time'[x] = time[x] /\ pos'[x] = pos[x] /\ verdict'[x] = verdict[x]
          /\ shares'[x] = shares[x] /\ kept'[x] = kept[x]
      BY <2>3, Zenon DEF IInv, TypeInv, TakeSnapshot, Goto
    <3> QED BY <2>1, <3>1, OthersKept
  <2> QED BY <2>2, <2>3
<1> QED BY <1>1, <1>2, <1>3 DEF IInv

LEMMA ScanRuleInv ==
  ASSUME IInv, NEW t \in Tasks, ScanRule(t)
  PROVE  IInv'
<1> DEFINE list == Snapshot(t)
           rule == list.rules[pos[t]]
<1>0. /\ at[t] = "scan" /\ pos[t] \in Nat /\ pos[t] >= 1 /\ clock \in Nat
      /\ time[t] \in Nat /\ time[t] <= clock /\ Witnessed
      /\ must[t] \subseteq BlockingFrom(list, pos[t], t, time[t])
      /\ BlockingFrom(list, 1, t, time[t]) \subseteq may[t]
      /\ UNCHANGED <<up, clock, file, rules, until, deadlines, mutex, loader, time>>
  <2>1. /\ at[t] = "scan" /\ Witnessed
        /\ UNCHANGED <<up, clock, file, rules, until, deadlines, mutex, loader, time>>
    BY Zenon DEF ScanRule, engine
  <2>2. pos[t] \in Nat /\ clock \in Nat /\ time[t] \in Nat BY Zenon DEF IInv, TypeInv
  <2>3. EvalOK(t) BY Zenon DEF IInv
  <2>4. /\ pos[t] >= 1 /\ time[t] <= clock
        /\ must[t] \subseteq BlockingFrom(list, pos[t], t, time[t])
        /\ BlockingFrom(list, 1, t, time[t]) \subseteq may[t]
    BY <2>1, <2>3, Zenon DEF EvalOK
  <2> QED BY <2>1, <2>2, <2>4, Zenon
<1>1. list \in List /\ list.rules \in Seq(Rule)
  BY Zenon DEF IInv, TypeInv, Snapshot, List
<1>2. \/ pos[t] > Len(list.rules) /\ Finish(t, 0)
      \/ /\ pos[t] <= Len(list.rules) /\ Blocks(list, pos[t], t, time[t])
         /\ Finish(t, rule.id)
      \/ /\ pos[t] <= Len(list.rules) /\ ~Blocks(list, pos[t], t, time[t])
         /\ pos' = [pos EXCEPT ![t] = @ + 1] /\ UNCHANGED <<at, verdict, shares, kept>>
  <2>1. Len(list.rules) \in Nat BY <1>1
  <2>2. pos[t] > Len(list.rules) \/ pos[t] <= Len(list.rules)
    <3>1. pos[t] \in Nat BY <1>0, Zenon
    <3> QED BY <2>1, <3>1
  <2>3. CASE pos[t] > Len(list.rules) BY <2>3, Zenon DEF ScanRule
  <2>4. CASE ~(pos[t] > Len(list.rules)) /\ Blocks(list, pos[t], t, time[t])
    <3>1. Finish(t, rule.id) BY <2>4, Zenon DEF ScanRule, Blocks
    <3> QED BY <2>2, <2>4, <3>1, Zenon
  <2>5. CASE ~(pos[t] > Len(list.rules)) /\ ~Blocks(list, pos[t], t, time[t])
    <3>1. pos' = [pos EXCEPT ![t] = @ + 1] /\ UNCHANGED <<at, verdict, shares, kept>>
      BY <2>5, Zenon DEF ScanRule, Blocks
    <3> QED BY <2>2, <2>5, <3>1, Zenon
  <2> QED BY <2>3, <2>4, <2>5, Zenon
<1>3. pos[t] <= Len(list.rules) => rule.id \in Ids \ {0}
  <2> SUFFICES ASSUME pos[t] <= Len(list.rules) PROVE rule.id \in Ids \ {0}
    BY Zenon
  <2>1. /\ list.rules \in Seq(Rule) /\ pos[t] \in Nat /\ pos[t] >= 1
        /\ pos[t] <= Len(list.rules)
    BY <1>0, <1>1, Zenon
  <2>2. rule \in Rule BY <2>1
  <2> QED BY <2>2, FilterAssumption, Zenon DEF Rule
<1> HIDE DEF list, rule
<1>4. TypeInv'
  <2>1. NoList \in List BY DEF NoList, List
  <2>2. ASSUME NEW id \in Ids \cup {0}, Finish(t, id) PROVE TypeInv'
    BY <1>0, <2>1, <2>2, Zenon DEF IInv, TypeInv, Finish, Goto
  <2>3. CASE pos' = [pos EXCEPT ![t] = @ + 1] /\ UNCHANGED <<at, verdict, shares, kept>>
    <3>1. pos \in [Tasks -> Nat] BY Zenon DEF IInv, TypeInv
    <3>2. pos' \in [Tasks -> Nat] BY <2>3, <3>1
    <3> QED BY <1>0, <2>3, <3>2, Zenon DEF IInv, TypeInv
  <2> QED BY <1>2, <1>3, <2>2, <2>3, Zenon
<1>5. MutexInv'
  <2>1. \A x \in Tasks : at'[x] = "store" =>
          at[x] = "store" /\ shares'[x] = shares[x] /\ pos'[x] = pos[x]
    BY <1>0, <1>2 DEF IInv, TypeInv, Finish, Goto
  <2>2. \A x \in Tasks : at[x] = "store" => mutex = x /\ shares[x] /\ pos[x] >= 1
    BY Zenon DEF IInv, MutexInv
  <2>3. until' = deadlines' /\ mutex' = mutex BY <1>0, Zenon DEF IInv, MutexInv
  <2> QED BY <2>1, <2>2, <2>3, Zenon DEF MutexInv
<1>6. ASSUME NEW x \in Tasks, x # t PROVE EvalOK(x)'
  <2>1. /\ at'[x] = at[x] /\ time'[x] = time[x] /\ pos'[x] = pos[x] /\ verdict'[x] = verdict[x]
        /\ shares'[x] = shares[x] /\ kept'[x] = kept[x]
    <3>0. time'[x] = time[x] BY <1>0, Zenon
    <3>1. /\ at \in [Tasks -> {"idle", "activate", "store", "evaluate", "scan", "done"}]
          /\ pos \in [Tasks -> Nat] /\ verdict \in [Tasks -> Ids \cup {0}]
          /\ shares \in [Tasks -> BOOLEAN] /\ kept \in [Tasks -> List]
      BY Zenon DEF IInv, TypeInv
    <3>2. ASSUME NEW id, Finish(t, id)
          PROVE  /\ at'[x] = at[x] /\ pos'[x] = pos[x] /\ verdict'[x] = verdict[x]
                 /\ shares'[x] = shares[x] /\ kept'[x] = kept[x]
      BY <1>6, <3>1, <3>2, Zenon DEF Finish, Goto
    <3>3. CASE pos' = [pos EXCEPT ![t] = @ + 1] /\ UNCHANGED <<at, verdict, shares, kept>>
      BY <1>6, <3>0, <3>1, <3>3, Zenon
    <3> QED BY <1>2, <3>0, <3>2, <3>3, Zenon
  <2>2. Witnessed /\ UNCHANGED <<rules, until>> BY <1>0, Zenon
  <2>3. clock' \in Nat /\ clock <= clock'
    <3>1. clock \in Nat /\ clock' = clock BY <1>0, Zenon
    <3> QED BY <3>1
  <2> QED BY <2>1, <2>2, <2>3, OthersKept, Zenon
<1>7. EvalOK(t)'
  <2>1. CASE pos[t] > Len(list.rules) /\ Finish(t, 0)
    <3>1. at'[t] = "done" /\ verdict'[t] = 0 BY <2>1, Zenon DEF IInv, TypeInv, Finish, Goto
    <3>2. BlockingFrom(list, pos[t], t, time[t]) = {}
      <4>1. \A i \in DOMAIN list.rules : ~(i >= pos[t]) BY <1>0, <1>1, <2>1
      <4> QED BY <4>1, Zenon DEF BlockingFrom
    <3>3. must'[t] = {} BY <1>0, <3>1, <3>2, WitnessedFor, Zenon
    <3> QED BY <1>0, <3>1, <3>3, WitnessedFor, Zenon DEF EvalOK
  <2>2. CASE /\ pos[t] <= Len(list.rules) /\ Blocks(list, pos[t], t, time[t])
             /\ Finish(t, rule.id)
    <3>1. at'[t] = "done" /\ verdict'[t] = rule.id BY <2>2, Zenon DEF IInv, TypeInv, Finish, Goto
    <3>2. rule.id \in BlockingFrom(list, 1, t, time[t])
      <4>1. pos[t] \in DOMAIN list.rules BY <1>0, <1>1, <2>2
      <4> QED BY <1>0, <2>2, <4>1, Zenon DEF BlockingFrom, rule
    <3>3. rule.id \in may'[t] BY <1>0, <3>1, <3>2, WitnessedFor, Zenon
    <3> QED BY <1>0, <1>3, <2>2, <3>1, <3>3, WitnessedFor, Zenon DEF EvalOK
  <2>3. CASE /\ pos[t] <= Len(list.rules) /\ ~Blocks(list, pos[t], t, time[t])
             /\ pos' = [pos EXCEPT ![t] = @ + 1] /\ UNCHANGED <<at, verdict, shares, kept>>
    <3>1. Snapshot(t)' = list /\ pos'[t] = pos[t] + 1 /\ at'[t] = "scan"
      BY <1>0, <2>3, Zenon DEF Snapshot, list, IInv, TypeInv
    <3>2. BlockingFrom(list, pos[t], t, time[t])
            \subseteq BlockingFrom(list, pos[t] + 1, t, time[t])
      <4>1. \A i \in DOMAIN list.rules :
              i >= pos[t] /\ Blocks(list, i, t, time[t]) => i >= pos[t] + 1
        <5>1. \A i \in DOMAIN list.rules : Blocks(list, i, t, time[t]) => i # pos[t]
          BY <2>3, Zenon
        <5>2. pos[t] \in Nat /\ \A i \in DOMAIN list.rules : i \in Nat BY <1>0, <1>1
        <5> QED BY <5>1, <5>2
      <4> QED BY <4>1, Zenon DEF BlockingFrom
    <3>3. /\ must'[t] \subseteq must[t] /\ may[t] \subseteq may'[t]
          /\ InForce(t, time[t])' \subseteq may'[t]
      BY <1>0, <3>1, WitnessedFor, Zenon
    <3>4. time'[t] = time[t] /\ time'[t] <= clock' /\ pos'[t] >= 1 BY <1>0, <3>1
    <3> QED BY <1>0, <3>1, <3>2, <3>3, <3>4, Zenon DEF EvalOK
  <2> QED BY <1>2, <2>1, <2>2, <2>3, Zenon
<1> QED BY <1>4, <1>5, <1>6, <1>7, Zenon DEF IInv

LEMMA NextRequestInv ==
  ASSUME IInv, NEW t \in Tasks, NextRequest(t)
  PROVE  IInv'
<1>1. TypeInv' BY Zenon DEF IInv, TypeInv, NextRequest, Goto, engine
<1>2. MutexInv' BY Zenon DEF IInv, TypeInv, MutexInv, NextRequest, Goto, engine
<1>3. ASSUME NEW x \in Tasks PROVE EvalOK(x)'
  <2>1. clock \in Nat /\ Witnessed BY Zenon DEF IInv, TypeInv, NextRequest
  <2>2. CASE x = t
    BY <2>1, <2>2, ActorAway DEF IInv, TypeInv, NextRequest, Goto
  <2>3. CASE x # t
    <3>1. /\ at'[x] = at[x] /\ time'[x] = time[x] /\ pos'[x] = pos[x] /\ verdict'[x] = verdict[x]
          /\ shares'[x] = shares[x] /\ kept'[x] = kept[x]
      BY <2>3, Zenon DEF IInv, TypeInv, NextRequest, Goto
    <3>2. UNCHANGED <<rules, until, clock>> BY Zenon DEF NextRequest, engine
    <3> QED BY <2>1, <3>1, <3>2, OthersKept
  <2> QED BY <2>2, <2>3
<1> QED BY <1>1, <1>2, <1>3 DEF IInv

----------------------------------------------------------------------------
LEMMA FileType == ASSUME NEW f \in File PROVE f.rules \subseteq Rule /\ IsFiniteSet(f.rules)
<1>1. CASE f \in [readable : {TRUE}, rules : Contents] BY <1>1, FilterAssumption, Zenon
<1>2. CASE f = [readable |-> FALSE, rules |-> {}] BY <1>2, FS_EmptySet, Zenon
<1> QED BY <1>1, <1>2, Zenon DEF File

LEMMA ScanOrderType ==
  ASSUME NEW S \in SUBSET Rule, IsFiniteSet(S), NEW list \in InScanOrder(S)
  PROVE  list \in Seq(Rule)
<1>1. Cardinality(S) \in Nat BY FS_CardinalityType, Zenon
<1>2. list \in [1..Cardinality(S) -> Rule] BY Zenon DEF InScanOrder
<1> QED BY <1>1, <1>2

(* Steps of the environment and of the loader before its swap.             *)
LEMMA TasksKept ==
  ASSUME IInv, Witnessed, UNCHANGED <<rules, until, deadlines, mutex, task>>,
         clock' \in Nat, clock <= clock', TypeInv'
  PROVE  IInv'
<1>1. MutexInv' BY Zenon DEF IInv, MutexInv, task
<1>2. ASSUME NEW x \in Tasks PROVE EvalOK(x)'
  BY OthersKept, Zenon DEF task
<1> QED BY <1>1, <1>2, Zenon DEF IInv

LEMMA LoadFileInv ==
  ASSUME IInv, LoadFile
  PROVE  IInv'
<1>1. PICK list \in InScanOrder(StaticRules \cup file.rules) :
        loader' = [at |-> "loaded", rules |-> list, since |-> clock]
  BY Zenon DEF LoadFile
<1>2. list \in Seq(Rule)
  <2>1. StaticRules \cup file.rules \subseteq Rule BY FilterAssumption, Zenon DEF IInv, TypeInv
  <2>2. IsFiniteSet(StaticRules \cup file.rules)
    <3>1. IsFiniteSet(StaticRules) BY FilterAssumption, Zenon
    <3>2. IsFiniteSet(file.rules) BY Zenon DEF IInv, TypeInv
    <3> QED BY <3>1, <3>2, FS_Union, Zenon
  <2> QED BY <2>1, <2>2, ScanOrderType, Zenon
<1>3. TypeInv' BY <1>1, <1>2, Zenon DEF IInv, TypeInv, LoadFile, task
<1>4. UNCHANGED <<clock, rules, until, deadlines, mutex, task>> /\ Witnessed
  BY Zenon DEF LoadFile
<1>5. clock' \in Nat /\ clock <= clock'
  <2>1. clock \in Nat BY Zenon DEF IInv, TypeInv
  <2> QED BY <1>4, <2>1
<1> QED BY <1>3, <1>4, <1>5, TasksKept, Zenon

LEMMA SwapRulesInv ==
  ASSUME IInv, SwapRules
  PROVE  IInv'
<1>0. /\ clock \in Nat /\ loader.rules \in Seq(Rule) /\ deadlines \in [Ids -> Nat]
      /\ rules' = loader.rules /\ Witnessed /\ mutex = Nobody
      /\ kept' = [x \in Tasks |-> IF shares[x] THEN Snapshot(x) ELSE kept[x]]
      /\ shares' = [x \in Tasks |-> FALSE]
      /\ loader' = [at |-> "idle", rules |-> << >>, since |-> 0]
      /\ UNCHANGED <<clock, file, mutex, at, time, pos, verdict>>
  BY Zenon DEF IInv, TypeInv, SwapRules
<1>1. until' = deadlines' /\ until' \in [Ids -> Nat]
  <2>1. PICK now \in loader.since..clock :
          LET live == [id \in Ids |-> IF deadlines[id] > now /\ id \in IdsIn(loader.rules)
                                      THEN deadlines[id] ELSE 0]
          IN  deadlines' = live /\ until' = live
    BY Zenon DEF SwapRules
  <2> QED BY <1>0, <2>1, Zenon
<1>2. \A x \in Tasks : kept'[x] = Snapshot(x) /\ Snapshot(x) \in List
  BY <1>0, Zenon DEF Snapshot, IInv, TypeInv, List
<1>3. TypeInv' BY <1>0, <1>1, <1>2, SMTT(30) DEF IInv, TypeInv
<1>4. MutexInv' BY <1>0, <1>1, FilterAssumption, Zenon DEF IInv, MutexInv
<1>5. ASSUME NEW x \in Tasks PROVE EvalOK(x)'
  <2>1. /\ rules' \in Seq(Rule) /\ at'[x] = at[x] /\ time'[x] = time[x] /\ pos'[x] = pos[x]
        /\ verdict'[x] = verdict[x] /\ ~shares'[x] /\ clock' = clock
    BY <1>0, Zenon
  <2>2. clock' \in Nat /\ clock <= clock' BY <1>0, <2>1
  <2>3. kept'[x] = Snapshot(x) BY <1>2, Zenon
  <2> QED BY <1>0, <2>1, <2>2, <2>3, EvalKept, Zenon
<1> QED BY <1>3, <1>4, <1>5, Zenon DEF IInv

LEMMA InitInv == Init => IInv
<1> HAVE Init
<1>1. TypeInv
  <2>1. NoList \in List BY DEF NoList, List
  <2>2. file.rules \subseteq Rule /\ IsFiniteSet(file.rules) BY FileType, Zenon DEF Init
  <2>3. rules \in Seq(Rule) /\ clock \in Nat /\ [id \in Ids |-> 0] \in [Ids -> Nat] BY DEF Init
  <2>4. loader \in [at : {"idle", "loaded"}, rules : Seq(Rule), since : Nat] BY DEF Init
  <2>5. /\ at \in [Tasks -> {"idle", "activate", "store", "evaluate", "scan", "done"}]
        /\ time \in [Tasks -> Nat] /\ pos \in [Tasks -> Nat]
        /\ verdict \in [Tasks -> Ids \cup {0}] /\ shares \in [Tasks -> BOOLEAN]
        /\ kept \in [Tasks -> List]
    BY <2>1, Zenon DEF Init
  <2> QED BY <2>2, <2>3, <2>4, <2>5, Zenon DEF Init, TypeInv
<1>2. MutexInv BY Zenon DEF Init, MutexInv
<1>3. ASSUME NEW t \in Tasks PROVE EvalOK(t)
  <2>1. at[t] = "idle" /\ time[t] = 0 /\ clock = 0 BY Zenon DEF Init
  <2> QED BY <2>1 DEF EvalOK
<1> QED BY <1>1, <1>2, <1>3, Zenon DEF IInv

LEMMA NextInv == IInv /\ [Next]_vars => IInv'
<1> SUFFICES ASSUME IInv, [Next]_vars PROVE IInv'
  BY Zenon
<1>1. CASE LoadFails
  <2>1. TypeInv' BY <1>1, Zenon DEF IInv, TypeInv, LoadFails, engine, task
  <2>3. UNCHANGED <<clock, rules, until, deadlines, mutex, task>> /\ Witnessed
    BY <1>1, Zenon DEF LoadFails, engine
  <2>4. clock' \in Nat /\ clock <= clock' BY <2>3 DEF IInv, TypeInv
  <2> QED BY <2>1, <2>3, <2>4, TasksKept, Zenon
<1>2. CASE WriteFile
  <2>1. file'.rules \subseteq Rule /\ IsFiniteSet(file'.rules)
    BY <1>2, FileType, Zenon DEF WriteFile
  <2>2. TypeInv' BY <1>2, <2>1, Zenon DEF IInv, TypeInv, WriteFile, engine, task
  <2>3. UNCHANGED <<clock, rules, until, deadlines, mutex, task>> /\ Witnessed
    BY <1>2, Zenon DEF WriteFile, engine
  <2>4. clock' \in Nat /\ clock <= clock' BY <2>3 DEF IInv, TypeInv
  <2> QED BY <2>2, <2>3, <2>4, TasksKept
<1>3. CASE Tick
  <2>1. clock \in Nat /\ clock' = clock + 1 BY <1>3, Zenon DEF IInv, TypeInv, Tick
  <2>2. TypeInv' BY <1>3, <2>1 DEF IInv, TypeInv, Tick, engine, task
  <2>3. clock' \in Nat /\ clock <= clock' BY <2>1
  <2>4. Witnessed /\ UNCHANGED <<rules, until, deadlines, mutex, task>>
    BY <1>3, Zenon DEF Tick, engine
  <2> QED BY <2>2, <2>3, <2>4, TasksKept, Zenon
<1>4. CASE UNCHANGED vars
  <2>1. TypeInv' BY <1>4, Zenon DEF IInv, TypeInv, vars, engine, task
  <2>2. MutexInv' BY <1>4, Zenon DEF IInv, MutexInv, vars, engine, task
  <2>3. \A t \in Tasks : EvalOK(t)'
    BY <1>4, Zenon DEF IInv, EvalOK, Snapshot, InForce, Active, vars, engine, task, history
  <2> QED BY <2>1, <2>2, <2>3, Zenon DEF IInv
<1> QED BY <1>1, <1>2, <1>3, <1>4, BeginActivateInv, LockActivateInv, StoreDeadlineInv,
           EndActivateInv, BeginEvaluateInv, TakeSnapshotInv, ScanRuleInv, NextRequestInv,
           LoadFileInv, SwapRulesInv
        DEF Next, Activating

----------------------------------------------------------------------------
(* At every step of reloads, activations and evaluations the list carries  *)
(* the deadlines of activation_deadlines, and no scan has passed over a    *)
(* rule that was in force all along (FilterEngine::evaluate, reload).      *)
THEOREM FilterInvariant == Spec => []IInv
<1> QED BY InitInv, NextInv, PTL DEF Spec

(* FilterEngine::evaluate, for any rules and any number of tasks: what it  *)
(* lets pass had no rule in force against it from beginning to end, what   *)
(* it blocks is blocked by a rule in force at the instant it read.         *)
THEOREM VerdictJustifiedHolds == Spec => []VerdictJustified
<1>1. IInv => VerdictJustified BY Zenon DEF IInv, EvalOK, VerdictJustified
<1> QED BY <1>1, FilterInvariant, PTL

(* FilterEngine::reload never takes away, moves or shortens a deadline     *)
(* that still lies ahead: while a rule stays loaded only activate_signature *)
(* and activate_path_shape do.                                             *)
THEOREM DeadlinePreservedHolds == Spec => DeadlinePreserved
<1> DEFINE Preserved ==
      \A id \in IdsIn(rules) \cap IdsIn(rules') :
        until[id] > clock /\ until'[id] # until[id] => \E t \in Tasks : at[t] = "store"
<1>1. IInv /\ [Next]_vars => [Preserved]_vars
  <2> SUFFICES ASSUME IInv, [Next]_vars,
                      NEW id \in IdsIn(rules) \cap IdsIn(rules'), until[id] > clock,
                      until'[id] # until[id]
               PROVE  \E t \in Tasks : at[t] = "store"
    BY Zenon
  <2>1. \/ SwapRules
        \/ \E t \in Tasks : StoreDeadline(t)
        \/ UNCHANGED until
    BY Zenon DEF Next, Activating, BeginActivate, LockActivate, EndActivate, BeginEvaluate,
           TakeSnapshot, ScanRule, NextRequest, LoadFile, LoadFails, WriteFile, Tick, vars,
           engine
  <2>2. CASE SwapRules
    <3>1. PICK now \in loader.since..clock :
            until' = [x \in Ids |-> IF deadlines[x] > now /\ x \in IdsIn(loader.rules)
                                    THEN deadlines[x] ELSE 0]
      BY <2>2, Zenon DEF SwapRules
    <3>2. /\ clock \in Nat /\ deadlines \in [Ids -> Nat] /\ until = deadlines
          /\ rules \in Seq(Rule) /\ loader.since \in Nat
      BY Zenon DEF IInv, TypeInv, MutexInv
    <3>3. id \in Ids /\ id \in IdsIn(loader.rules)
      <4>1. \A i \in DOMAIN rules : rules[i].id \in Ids
        <5>1. \A i \in DOMAIN rules : rules[i] \in Rule BY <3>2
        <5> QED BY <5>1, Zenon DEF Rule
      <4> QED BY <2>2, <4>1, Zenon DEF IdsIn, SwapRules
    <3>4. deadlines[id] > now BY <3>2, <3>3
    <3> QED BY <3>1, <3>2, <3>3, <3>4, Zenon
  <2>3. CASE \E t \in Tasks : StoreDeadline(t) BY <2>3, Zenon DEF StoreDeadline
  <2> QED BY <2>1, <2>2, <2>3, Zenon
<1> QED BY <1>1, FilterInvariant, PTL DEF Spec, DeadlinePreserved

----------------------------------------------------------------------------
(* The provider settings that codex_analyzer.py reads before it writes     *)
(* rules, and the commands that change them (Providers).                   *)
CONSTANTS CLI_AGENTS, API_PROVIDERS, Values, EnvKeys, MaxCommands

VARIABLES config, secrets, cmd, cli, commands, asked, stored, round, chosen

P == INSTANCE Providers WITH at <- round

Entries == Values \cup {P!Default}
Settings == [sel : P!PROVIDERS, set : [P!PROVIDERS -> Entries]]

(* A file is missing, torn or whole.                                       *)
FilesOK ==
  /\ \/ config = P!Torn \/ config = P!Absent
     \/ config.whole = TRUE /\ config.sel \in P!PROVIDERS
          /\ config.set \in [P!PROVIDERS -> Entries]
  /\ secrets = P!Torn \/ (secrets.whole = TRUE /\ secrets.keys \subseteq P!PROVIDERS)
  /\ asked \in Settings /\ stored \in BOOLEAN /\ cli \in {"idle", "open", "write"}

(* A configuration that parses says what was asked for, and says so itself *)
(* once a login has stored a key.                                          *)
ConfigInv ==
  config.whole => P!load_provider_config = asked /\ (stored => config.sel = asked.sel)

(* The secrets file is cut off and its keys are with the command.          *)
Saving == cli = "write" /\ cmd.todo[1] = "secrets"

HasKey(p) ==
  /\ secrets.whole => p \in secrets.keys
  /\ Saving => p \in cmd.secrets.keys

(* A command at work still holds the edit of what was asked for when it    *)
(* has yet to write it, and a login that has come to the configuration has *)
(* stored its key.                                                         *)
CommandInv ==
  cli # "idle" =>
    /\ cmd = [op |-> cmd.op, ask |-> cmd.ask, todo |-> cmd.todo, loaded |-> cmd.loaded,
              secrets |-> cmd.secrets]
    /\ cmd.ask \in P!Commands /\ cmd.op = cmd.ask.op
    /\ cmd.todo \in {<<"config">>, <<"secrets">>, P!Steps(cmd.ask)}
    /\ cmd.todo # <<"secrets">> => cmd.loaded = P!Edited(asked, cmd.ask)
    /\ cmd.todo = <<"config">> /\ cmd.op = "login" /\ P!StoresKey(cmd.ask) =>
         secrets.whole /\ cmd.ask.p \in secrets.keys
    /\ cmd.todo[1] = "secrets" => cmd.ask.p \in P!PROVIDERS
    /\ Saving => ~secrets.whole /\ cmd.secrets.keys \subseteq P!PROVIDERS

ProvidersInv ==
  FilesOK /\ ConfigInv /\ CommandInv /\ (stored => HasKey(asked.sel))

(* A command's edit of settings gives settings.                            *)
LEMMA EditedSettings ==
  ASSUME NEW c \in Settings, NEW a \in P!Commands
  PROVE  P!Edited(c, a) \in Settings
<1>0. c = [sel |-> c.sel, set |-> c.set] /\ c.sel \in P!PROVIDERS /\ c.set \in [P!PROVIDERS -> Entries]
  BY Zenon DEF Settings
<1>1. CASE a \in [op : {"init"}]
  <2>1. a.op = "init" BY <1>1
  <2> QED BY <2>1 DEF P!Edited
<1>2. CASE a \in [op : {"select"}, p : P!PROVIDERS]
  <2>1. a.op = "select" /\ a.p \in P!PROVIDERS BY <1>2
  <2>2. P!Edited(c, a) = [c EXCEPT !.sel = a.p] BY <2>1 DEF P!Edited
  <2> QED BY <1>0, <2>1, <2>2 DEF Settings
<1>3. CASE a \in [op : {"set"}, p : P!PROVIDERS, value : Values \cup {P!Default},
                  select : BOOLEAN, key : BOOLEAN]
  <2>1. a.op = "set" /\ a.p \in P!PROVIDERS /\ a.value \in Entries BY <1>3 DEF Entries
  <2>2. P!Edited(c, a) = P!set_provider(c, a) BY <2>1 DEF P!Edited
  <2>3. [c.set EXCEPT ![a.p] = IF a.value = P!Default THEN @ ELSE a.value] \in [P!PROVIDERS -> Entries]
    BY <1>0, <2>1
  <2>4. (IF a.select THEN a.p ELSE c.sel) \in P!PROVIDERS BY <1>0, <2>1
  <2> QED BY <2>2, <2>3, <2>4 DEF P!set_provider, Settings
<1>4. CASE a \in [op : {"login"}, p : P!PROVIDERS, value : Values, key : BOOLEAN]
  <2>1. a.op = "login" /\ a.p \in P!PROVIDERS /\ a.value \in Entries BY <1>4 DEF Entries
  <2>2. P!Edited(c, a) = P!login_provider(c, a) BY <2>1 DEF P!Edited
  <2>3. [c.set EXCEPT ![a.p] = a.value] \in [P!PROVIDERS -> Entries] BY <1>0, <2>1
  <2> QED BY <2>1, <2>2, <2>3 DEF P!login_provider, Settings
<1> QED BY <1>1, <1>2, <1>3, <1>4, Zenon DEF P!Commands

(* Settings that were written out whole are read back as they are.         *)
LEMMA ReadBack ==
  ASSUME P!ProvidersOK, NEW c \in Settings, NEW cfg,
         cfg = [whole |-> TRUE, sel |-> c.sel, set |-> c.set]
  PROVE  P!deep_merge(P!DEFAULT_PROVIDER_CONFIG, cfg) = c
<1>0. c = [sel |-> c.sel, set |-> c.set] /\ c.sel \in P!PROVIDERS /\ c.set \in [P!PROVIDERS -> Entries]
  BY Zenon DEF Settings
<1>1. cfg.sel = c.sel /\ cfg.set = c.set BY Zenon
<1>2. c.sel # "none" BY <1>0, Zenon DEF P!ProvidersOK
<1>3. [p \in P!PROVIDERS |-> IF p \in DOMAIN cfg.set THEN cfg.set[p]
                             ELSE P!DEFAULT_PROVIDER_CONFIG.set[p]] = c.set
  BY <1>0, <1>1
<1> QED BY <1>0, <1>1, <1>2, <1>3, Zenon DEF P!deep_merge

(* Without a file there are the defaults.                                  *)
LEMMA Defaults ==
  ASSUME P!ProvidersOK, NEW cfg, cfg = P!Absent
  PROVE  P!deep_merge(P!DEFAULT_PROVIDER_CONFIG, cfg) = P!DEFAULT_PROVIDER_CONFIG /\ P!DEFAULT_PROVIDER_CONFIG \in Settings
<1>1. cfg.sel = "none" /\ cfg.set = [p \in {} |-> P!Default] BY Zenon DEF P!Absent
<1>2. DOMAIN cfg.set = {} BY <1>1
<1> DEFINE d == [p \in P!PROVIDERS |-> P!Default]
<1>3. P!DEFAULT_PROVIDER_CONFIG.sel = "codex" /\ P!DEFAULT_PROVIDER_CONFIG.set = d
  BY DEF P!DEFAULT_PROVIDER_CONFIG
<1>4. [p \in P!PROVIDERS |-> IF p \in DOMAIN cfg.set THEN cfg.set[p]
                             ELSE P!DEFAULT_PROVIDER_CONFIG.set[p]] = d
  BY <1>2, <1>3
<1>5. P!deep_merge(P!DEFAULT_PROVIDER_CONFIG, cfg) = P!DEFAULT_PROVIDER_CONFIG
  BY <1>1, <1>3, <1>4 DEF P!deep_merge, P!DEFAULT_PROVIDER_CONFIG
<1>6. "codex" \in P!PROVIDERS /\ d \in [P!PROVIDERS -> Entries]
  BY DEF P!ProvidersOK, P!PROVIDERS, Entries
<1> QED BY <1>5, <1>6 DEF P!DEFAULT_PROVIDER_CONFIG, Settings

(* What a command writes, and in which order.                              *)
LEMMA CommandSteps ==
  ASSUME NEW a \in P!Commands
  PROVE  \/ ~P!StoresKey(a) /\ P!Steps(a) = <<"config">>
         \/ /\ P!StoresKey(a) /\ a.p \in P!PROVIDERS
            /\ \/ a.op = "login" /\ P!Steps(a) = <<"secrets", "config">>
               \/ a.op # "login" /\ P!Steps(a) = <<"config", "secrets">>
<1>1. CASE ~P!StoresKey(a) BY <1>1, Zenon DEF P!Steps
<1>2. CASE P!StoresKey(a)
  <2>1. a.op = "set" \/ a.op = "login" BY <1>2, Zenon DEF P!StoresKey
  <2>2. a.p \in P!PROVIDERS BY <2>1 DEF P!Commands
  <2> QED BY <1>2, <2>2, Zenon DEF P!Steps
<1> QED BY <1>1, <1>2, Zenon

LEMMA ProvidersInit ==
  ASSUME P!ProvidersOK, P!Init
  PROVE  ProvidersInv
<1>1. /\ config = P!Absent /\ secrets = P!NoSecrets /\ cli = "idle" /\ stored = FALSE
      /\ asked = P!DEFAULT_PROVIDER_CONFIG
  BY Zenon DEF P!Init
<1>2. P!load_provider_config = asked /\ asked \in Settings
  BY <1>1, Defaults, Zenon DEF P!load_provider_config
<1>3. secrets.whole = TRUE /\ secrets.keys \subseteq P!PROVIDERS BY <1>1 DEF P!NoSecrets
<1> QED BY <1>1, <1>2, <1>3, Zenon DEF ProvidersInv, FilesOK, ConfigInv, CommandInv

(* While a configuration parses its settings are those asked for.          *)
LEMMA Loaded ==
  ASSUME ProvidersInv, config.whole
  PROVE  P!load_provider_config = asked /\ asked \in Settings
BY Zenon DEF ProvidersInv, FilesOK, ConfigInv

LEMMA StartStep ==
  ASSUME P!ProvidersOK, ProvidersInv, P!StartCommand
  PROVE  ProvidersInv'
<1>1. cli = "idle" /\ UNCHANGED <<config, secrets, asked, stored>>
  BY Zenon DEF P!StartCommand, P!files
<1>2. ConfigInv' BY <1>1, Zenon DEF ProvidersInv, ConfigInv, P!load_provider_config, P!deep_merge
<1>3. CASE UNCHANGED <<cmd, cli>>
  BY <1>1, <1>2, <1>3, Zenon DEF ProvidersInv, FilesOK, CommandInv, HasKey, Saving
<1>4. CASE ~UNCHANGED <<cmd, cli>>
  <2>1. PICK a \in P!Commands :
          /\ config.whole /\ cli' = "open"
          /\ cmd' = [op |-> a.op, ask |-> a, todo |-> P!Steps(a),
                     loaded |-> P!Edited(P!load_provider_config, a), secrets |-> secrets]
    BY <1>4, Zenon DEF P!StartCommand
  <2>2. /\ cmd'.op = a.op /\ cmd'.ask = a /\ cmd'.todo = P!Steps(a)
        /\ cmd'.loaded = P!Edited(P!load_provider_config, a) /\ cmd'.secrets = secrets
    BY <2>1, Zenon
  <2>3. cmd'.loaded = P!Edited(asked', cmd'.ask) BY <1>1, <2>1, <2>2, Loaded, Zenon
  <2>4. ~Saving' BY <2>1, Zenon DEF Saving
  <2>5. /\ cmd'.todo[1] = "secrets" => a.p \in P!PROVIDERS
        /\ cmd'.todo = <<"config">> /\ a.op = "login" => ~P!StoresKey(a)
    BY <2>2, CommandSteps
  <2>6. CommandInv' BY <2>1, <2>2, <2>3, <2>4, <2>5, Zenon DEF CommandInv
  <2>7. stored' => HasKey(asked.sel)' BY <1>1, <2>4, Zenon DEF ProvidersInv, HasKey
  <2> QED BY <1>1, <1>2, <2>1, <2>6, <2>7, Zenon DEF ProvidersInv, FilesOK
<1> QED BY <1>3, <1>4, Zenon

(* A command that ends or is cut off leaves the files and the wish.        *)
LEMMA CommandEnds ==
  ASSUME ProvidersInv, cli' = "idle", UNCHANGED <<config, secrets, asked, stored>>
  PROVE  ProvidersInv'
<1>1. ConfigInv' BY Zenon DEF ProvidersInv, ConfigInv, P!load_provider_config, P!deep_merge
<1> QED BY <1>1, Zenon DEF ProvidersInv, FilesOK, CommandInv, HasKey, Saving

LEMMA TruncateStep ==
  ASSUME P!ProvidersOK, ProvidersInv, P!Truncate
  PROVE  ProvidersInv'
<1>1. cli = "open" /\ UNCHANGED <<asked, stored>> BY Zenon DEF P!Truncate
<1>2. CASE cmd.todo[1] = "config"
  <2>1. config' = P!Torn /\ cli' = "write" /\ UNCHANGED <<secrets, cmd>>
    BY <1>2, Zenon DEF P!Truncate
  <2>2. ~config'.whole BY <2>1, Zenon DEF P!Torn
  <2>3. ~Saving' /\ ~Saving BY <1>1, <1>2, <2>1, Zenon DEF Saving
  <2>4. CommandInv' BY <1>1, <2>1, <2>3, Zenon DEF ProvidersInv, CommandInv
  <2> QED BY <1>1, <2>1, <2>2, <2>3, <2>4, Zenon DEF ProvidersInv, FilesOK, ConfigInv, HasKey
<1>3. CASE cmd.todo[1] # "config" /\ ~secrets.whole
  BY <1>1, <1>3, CommandEnds, Zenon DEF P!Truncate, P!files
<1>4. CASE cmd.todo[1] # "config" /\ secrets.whole
  <2>1. /\ cmd' = [cmd EXCEPT !.secrets = secrets]
        /\ secrets' = P!Torn /\ cli' = "write" /\ UNCHANGED config
    BY <1>4, Zenon DEF P!Truncate
  <2>2. CommandInv BY Zenon DEF ProvidersInv
  <2>3. /\ cmd' = [op |-> cmd.op, ask |-> cmd.ask, todo |-> cmd.todo, loaded |-> cmd.loaded,
                   secrets |-> secrets]
        /\ cmd.todo # <<"config">> /\ cmd.ask.p \in P!PROVIDERS
    <3>1. cmd.todo[1] = "secrets"
      BY <1>1, <1>4, <2>2, CommandSteps DEF CommandInv
    <3>2. cmd.todo # <<"config">> BY <1>4
    <3> QED BY <1>1, <2>1, <2>2, <3>1, <3>2 DEF CommandInv
  <2>4. /\ cmd'.op = cmd.op /\ cmd'.ask = cmd.ask /\ cmd'.todo = cmd.todo
        /\ cmd'.loaded = cmd.loaded /\ cmd'.secrets = secrets
    BY <2>3, Zenon
  <2>5. ~secrets'.whole BY <2>1, Zenon DEF P!Torn
  <2>6. secrets.keys \subseteq P!PROVIDERS BY <1>4 DEF ProvidersInv, FilesOK, P!Torn
  <2>7. CommandInv' BY <1>1, <2>1, <2>2, <2>3, <2>4, <2>5, <2>6, Zenon DEF CommandInv
  <2>8. ConfigInv' BY <1>1, <2>1, Zenon DEF ProvidersInv, ConfigInv, P!load_provider_config, P!deep_merge
  <2>9. stored' => HasKey(asked.sel)' BY <1>1, <1>4, <2>4, <2>5, Zenon DEF ProvidersInv, HasKey
  <2> QED BY <1>1, <2>1, <2>7, <2>8, <2>9, Zenon DEF ProvidersInv, FilesOK
<1> QED BY <1>2, <1>3, <1>4, Zenon

(* A command goes on to its second file, or ends.                          *)
LEMMA Continues ==
  ASSUME ProvidersInv, cli = "write", P!Finish(Len(cmd.todo) = 1)
  PROVE  \/ cli' = "idle"
         \/ /\ cli' = "open" /\ P!StoresKey(cmd.ask) /\ cmd.ask.p \in P!PROVIDERS
            /\ \/ cmd.op = "login" /\ cmd.todo = <<"secrets", "config">> /\ cmd'.todo = <<"config">>
               \/ cmd.op # "login" /\ cmd.todo = <<"config", "secrets">> /\ cmd'.todo = <<"secrets">>
            /\ cmd' = [op |-> cmd.op, ask |-> cmd.ask, todo |-> cmd'.todo, loaded |-> cmd.loaded,
                       secrets |-> cmd.secrets]
            /\ cmd'.op = cmd.op /\ cmd'.ask = cmd.ask /\ cmd'.loaded = cmd.loaded
            /\ cmd'.secrets = cmd.secrets
<1>0. CommandInv BY Zenon DEF ProvidersInv
<1>1. CASE Len(cmd.todo) = 1 BY <1>1, Zenon DEF P!Finish
<1>2. CASE Len(cmd.todo) # 1
  <2>1. cli' = "open" /\ cmd' = [cmd EXCEPT !.todo = <<cmd.todo[2]>>] BY <1>2, Zenon DEF P!Finish
  <2>2. /\ cmd.ask \in P!Commands /\ cmd.op = cmd.ask.op /\ cmd.todo = P!Steps(cmd.ask)
        /\ cmd = [op |-> cmd.op, ask |-> cmd.ask, todo |-> cmd.todo, loaded |-> cmd.loaded,
                  secrets |-> cmd.secrets]
    BY <1>0, <1>2 DEF CommandInv
  <2>3. cmd' = [op |-> cmd.op, ask |-> cmd.ask, todo |-> <<cmd.todo[2]>>, loaded |-> cmd.loaded,
                secrets |-> cmd.secrets]
    BY <2>1, <2>2
  <2>4. /\ cmd'.op = cmd.op /\ cmd'.ask = cmd.ask /\ cmd'.loaded = cmd.loaded
        /\ cmd'.secrets = cmd.secrets
        /\ cmd'.todo = <<cmd.todo[2]>>
    BY <2>3, Zenon
  <2>5. /\ P!StoresKey(cmd.ask) /\ cmd.ask.p \in P!PROVIDERS
        /\ \/ cmd.op = "login" /\ cmd.todo = <<"secrets", "config">>
           \/ cmd.op # "login" /\ cmd.todo = <<"config", "secrets">>
    BY <1>2, <2>2, CommandSteps
  <2>6. cmd.op = "login" => cmd.todo[2] = "config" BY <2>5
  <2>7. cmd.op # "login" => cmd.todo[2] = "secrets" BY <2>5
  <2> QED BY <2>1, <2>3, <2>4, <2>5, <2>6, <2>7, Zenon
<1> QED BY <1>1, <1>2, Zenon

LEMMA WriteConfigStep ==
  ASSUME P!ProvidersOK, ProvidersInv, P!write_provider_config
  PROVE  ProvidersInv'
<1>1. /\ cli = "write" /\ cmd.todo[1] = "config" /\ P!Finish(Len(cmd.todo) = 1)
      /\ config' = [whole |-> TRUE, sel |-> cmd.loaded.sel, set |-> cmd.loaded.set]
      /\ asked' = P!Edited(asked, cmd.ask) /\ UNCHANGED secrets
      /\ stored' = IF cmd.loaded.sel # asked.sel \/ cmd.op = "login"
                   THEN cmd.op = "login" /\ P!StoresKey(cmd.ask) ELSE stored
  BY Zenon DEF P!write_provider_config
<1>2. CommandInv /\ asked \in Settings /\ stored \in BOOLEAN BY Zenon DEF ProvidersInv, FilesOK
<1>3. cmd.ask \in P!Commands /\ cmd.op = cmd.ask.op /\ asked' = cmd.loaded
  <2>1. cmd.todo # <<"secrets">> BY <1>1
  <2> QED BY <1>1, <1>2, <2>1, Zenon DEF CommandInv
<1>4. asked' \in Settings BY <1>1, <1>2, <1>3, EditedSettings, Zenon
<1>5. /\ P!load_provider_config' = asked'
      /\ config'.whole = TRUE /\ config'.sel = asked'.sel /\ config'.set = asked'.set
      /\ asked'.sel \in P!PROVIDERS /\ asked'.set \in [P!PROVIDERS -> Entries]
  <2>1. P!deep_merge(P!DEFAULT_PROVIDER_CONFIG, config') = asked'
    BY <1>1, <1>3, <1>4, ReadBack, Zenon
  <2>2. asked'.sel \in P!PROVIDERS /\ asked'.set \in [P!PROVIDERS -> Entries]
    BY <1>4, Zenon DEF Settings
  <2>3. config'.whole = TRUE /\ config'.sel = asked'.sel /\ config'.set = asked'.set
    BY <1>1, <1>3, Zenon
  <2> QED BY <2>1, <2>2, <2>3, Zenon DEF P!load_provider_config
<1>6. ~Saving BY <1>1, Zenon DEF Saving
<1>7. stored' \in BOOLEAN /\ (stored' /\ secrets.whole => asked'.sel \in secrets.keys)
  <2>1. CASE cmd.op = "login" /\ P!StoresKey(cmd.ask)
    <3>1. cmd.todo = <<"config">>
      <4>1. cmd.todo \in {<<"config">>, <<"secrets">>, P!Steps(cmd.ask)}
        BY <1>1, <1>2, Zenon DEF CommandInv
      <4>2. P!Steps(cmd.ask) = <<"secrets", "config">> BY <1>3, <2>1, CommandSteps, Zenon
      <4>3. P!Steps(cmd.ask)[1] = "secrets" BY <4>2
      <4> QED BY <1>1, <4>1, <4>3
    <3>2. cmd.ask.p \in secrets.keys BY <1>1, <1>2, <2>1, <3>1, Zenon DEF CommandInv
    <3>3. asked' = P!login_provider(asked, cmd.ask) BY <1>1, <1>3, <2>1 DEF P!Edited
    <3>4. asked'.sel = cmd.ask.p BY <3>3, Zenon DEF P!login_provider
    <3> QED BY <1>1, <2>1, <3>2, <3>4, Zenon
  <2>2. CASE ~(cmd.op = "login" /\ P!StoresKey(cmd.ask)) /\ (cmd.loaded.sel # asked.sel \/ cmd.op = "login")
    BY <1>1, <2>2, Zenon
  <2>3. CASE ~(cmd.loaded.sel # asked.sel \/ cmd.op = "login")
    BY <1>1, <1>2, <1>3, <2>3, Zenon DEF ProvidersInv, HasKey
  <2> QED BY <2>1, <2>2, <2>3, Zenon
<1>8. FilesOK' /\ ConfigInv'
  <2>1. cli' \in {"idle", "open", "write"} BY <1>1, Zenon DEF P!Finish
  <2> QED BY <1>1, <1>4, <1>5, <1>7, <2>1, Zenon DEF ProvidersInv, FilesOK, ConfigInv
<1>9. CommandInv' /\ ~Saving'
  <2>1. CASE cli' = "idle" BY <2>1, Zenon DEF CommandInv, Saving
  <2>2. CASE cli' # "idle"
    <3>1. /\ cli' = "open" /\ cmd.ask.p \in P!PROVIDERS /\ cmd'.todo = <<"secrets">>
          /\ cmd' = [op |-> cmd.op, ask |-> cmd.ask, todo |-> cmd'.todo, loaded |-> cmd.loaded,
                     secrets |-> cmd.secrets]
          /\ cmd'.op = cmd.op /\ cmd'.ask = cmd.ask /\ cmd'.loaded = cmd.loaded
          /\ cmd'.secrets = cmd.secrets
      BY <1>1, <2>2, Continues
    <3>2. ~Saving' BY <3>1, Zenon DEF Saving
    <3>3. cmd'.todo # <<"config">> BY <3>1
    <3> QED BY <1>3, <3>1, <3>2, <3>3, Zenon DEF CommandInv
  <2> QED BY <2>1, <2>2, Zenon
<1> QED BY <1>1, <1>7, <1>8, <1>9, Zenon DEF ProvidersInv, HasKey

LEMMA WriteSecretsStep ==
  ASSUME P!ProvidersOK, ProvidersInv, P!write_provider_secrets
  PROVE  ProvidersInv'
<1>1. /\ cli = "write" /\ cmd.todo[1] = "secrets" /\ P!Finish(Len(cmd.todo) = 1)
      /\ secrets' = [whole |-> TRUE, keys |-> cmd.secrets.keys \cup {cmd.ask.p}]
      /\ UNCHANGED <<config, asked, stored>>
  BY Zenon DEF P!write_provider_secrets
<1>2. CommandInv /\ Saving BY <1>1, Zenon DEF ProvidersInv, Saving
<1>3. /\ cmd.ask.p \in P!PROVIDERS /\ cmd.secrets.keys \subseteq P!PROVIDERS
      /\ cmd.ask \in P!Commands /\ cmd.op = cmd.ask.op
  BY <1>1, <1>2, Zenon DEF CommandInv
<1>4. secrets'.whole = TRUE /\ secrets'.keys = cmd.secrets.keys \cup {cmd.ask.p} BY <1>1, Zenon
<1>5. stored' => asked'.sel \in secrets'.keys
  BY <1>1, <1>2, <1>4, Zenon DEF ProvidersInv, HasKey
<1>6. FilesOK' /\ ConfigInv'
  <2>1. cli' \in {"idle", "open", "write"} BY <1>1, Zenon DEF P!Finish
  <2>2. ConfigInv'
    BY <1>1, Zenon DEF ProvidersInv, ConfigInv, P!load_provider_config, P!deep_merge
  <2>3. secrets'.keys \subseteq P!PROVIDERS BY <1>3, <1>4, Zenon
  <2> QED BY <1>1, <1>4, <2>1, <2>2, <2>3, Zenon DEF ProvidersInv, FilesOK
<1>7. CommandInv' /\ ~Saving'
  <2>1. CASE cli' = "idle" BY <2>1, Zenon DEF CommandInv, Saving
  <2>2. CASE cli' # "idle"
    <3>1. /\ cli' = "open" /\ cmd.ask.p \in P!PROVIDERS /\ cmd'.todo = <<"config">>
          /\ cmd' = [op |-> cmd.op, ask |-> cmd.ask, todo |-> cmd'.todo, loaded |-> cmd.loaded,
                     secrets |-> cmd.secrets]
          /\ cmd'.op = cmd.op /\ cmd'.ask = cmd.ask /\ cmd'.loaded = cmd.loaded
          /\ cmd'.secrets = cmd.secrets
          /\ cmd.todo # <<"secrets">>
      BY <1>1, <2>2, Continues
    <3>2. ~Saving' BY <3>1, Zenon DEF Saving
    <3>3. cmd'.todo[1] # "secrets" BY <3>1
    <3>4. cmd.loaded = P!Edited(asked, cmd.ask) BY <1>1, <1>2, <3>1, Zenon DEF CommandInv
    <3> QED BY <1>1, <1>3, <1>4, <3>1, <3>2, <3>3, <3>4, Zenon DEF CommandInv
  <2> QED BY <2>1, <2>2, Zenon
<1> QED BY <1>1, <1>5, <1>6, <1>7, Zenon DEF ProvidersInv, HasKey

LEMMA RepairStep ==
  ASSUME P!ProvidersOK, ProvidersInv, P!Repair
  PROVE  ProvidersInv'
<1>1. /\ config' = P!Absent /\ asked' = P!DEFAULT_PROVIDER_CONFIG /\ stored' = FALSE
      /\ cli' = "idle" /\ UNCHANGED secrets
  BY Zenon DEF P!Repair
<1>2. P!load_provider_config' = asked' /\ asked' \in Settings
  BY <1>1, Defaults, Zenon DEF P!load_provider_config
<1> QED BY <1>1, <1>2, Zenon DEF ProvidersInv, FilesOK, ConfigInv, CommandInv

(* The analyzer only reads.                                                *)
LEMMA AnalyzerReads ==
  ASSUME P!Analyze \/ P!Restart
  PROVE  UNCHANGED <<P!files, P!user>>
<1> USE DEF P!Round
<1>1. P!LoadConfig => UNCHANGED <<P!files, P!user>> BY Zenon DEF P!LoadConfig
<1>2. P!run_provider => UNCHANGED <<P!files, P!user>> BY Zenon DEF P!run_provider
<1>3. P!post_json => UNCHANGED <<P!files, P!user>> BY Zenon DEF P!post_json
<1>4. P!extract_json => UNCHANGED <<P!files, P!user>> BY Zenon DEF P!extract_json
<1>5. P!NextRound \/ P!Restart => UNCHANGED <<P!files, P!user>> BY Zenon DEF P!NextRound, P!Restart
<1> QED BY <1>1, <1>2, <1>3, <1>4, <1>5, Zenon DEF P!Analyze

LEMMA ProvidersKept ==
  ASSUME ProvidersInv, UNCHANGED <<P!files, P!user>>
  PROVE  ProvidersInv'
<1>1. UNCHANGED <<config, secrets, cmd, cli, asked, stored>> BY Zenon DEF P!files, P!user
<1>2. ConfigInv'
  BY <1>1, Zenon DEF ProvidersInv, ConfigInv, P!load_provider_config, P!deep_merge
<1> QED BY <1>1, <1>2, Zenon DEF ProvidersInv, FilesOK, CommandInv, HasKey, Saving

LEMMA ProvidersNext ==
  ASSUME P!ProvidersOK, ProvidersInv, [P!Next]_(P!vars)
  PROVE  ProvidersInv'
<1>1. CASE P!StartCommand BY <1>1, StartStep, Zenon
<1>2. CASE P!Truncate BY <1>2, TruncateStep, Zenon
<1>3. CASE P!write_provider_config BY <1>3, WriteConfigStep, Zenon
<1>4. CASE P!write_provider_secrets BY <1>4, WriteSecretsStep, Zenon
<1>5. CASE P!Interrupt BY <1>5, CommandEnds, Zenon DEF P!Interrupt, P!files
<1>6. CASE P!Repair BY <1>6, RepairStep, Zenon
<1>7. CASE P!Analyze \/ P!Restart BY <1>7, AnalyzerReads, ProvidersKept, Zenon
<1>8. CASE UNCHANGED P!vars BY <1>8, ProvidersKept, Zenon DEF P!vars
<1> QED BY <1>1, <1>2, <1>3, <1>4, <1>5, <1>6, <1>7, <1>8, Zenon DEF P!Next

(* However the commands of ai_provider_cli.py are interrupted between two  *)
(* writes, a providers.json that parses holds the settings the finished    *)
(* ones asked for, and no login's selection without the key it stored.     *)
THEOREM ProviderSettingsHold == P!ProvidersOK => (P!Spec => []P!ProviderSettings)
<1> SUFFICES ASSUME P!ProvidersOK PROVE P!Spec => []P!ProviderSettings OBVIOUS
<1>1. P!Init => ProvidersInv BY ProvidersInit, Zenon
<1>2. ProvidersInv /\ [P!Next]_(P!vars) => ProvidersInv' BY ProvidersNext, Zenon
<1>3. ProvidersInv => P!ProviderSettings
  BY Zenon DEF ProvidersInv, ConfigInv, HasKey, P!ProviderSettings, P!SettingsKept, P!KeyBeforeSelection
<1> QED BY <1>1, <1>2, <1>3, PTL DEF P!Spec

----------------------------------------------------------------------------
(* codex_analyzer.py reads the event log, the evidence for the rules it    *)
(* writes, while the daemon rotates it (Analyzer).  An event is a number;  *)
(* first what reading and rotating do to the order of events.              *)

Increasing(s) == \A i, j \in 1..Len(s) : i < j => s[i] < s[j]
Precedes(s, t) == \A i \in 1..Len(s), j \in 1..Len(t) : s[i] < t[j]
Last(n, s) == IF Len(s) <= n THEN s ELSE SubSeq(s, Len(s) - n + 1, Len(s))

(* The files fs hold events up to m, each in order and a backup the older  *)
(* ones.  The events read precede all that the files in T, and those below *)
(* them that a rotation may move there, hold.                              *)
Ordered(n, m, fs, read, T) ==
  /\ fs \in [0..n -> Seq(1..m)] /\ read \in Seq(1..m) /\ T \subseteq 0..n
  /\ Increasing(read) /\ \A k \in 0..n : Increasing(fs[k])
  /\ \A j, k \in 0..n : j < k => Precedes(fs[k], fs[j])
  /\ \A t \in T, k \in 0..n : k <= t => Precedes(read, fs[k])

(* The last events of a sequence in order are in order.                    *)
LEMMA LastInOrder ==
  ASSUME NEW m \in Nat, NEW s \in Seq(1..m), NEW n \in Nat \ {0}, Increasing(s)
  PROVE  /\ Last(n, s) \in Seq(1..m) /\ Increasing(Last(n, s))
         /\ \A t \in Seq(1..m) : Precedes(s, t) => Precedes(Last(n, s), t)
<1>1. CASE Len(s) <= n BY <1>1, Zenon DEF Last
<1>2. CASE ~(Len(s) <= n)
  <2> DEFINE l == SubSeq(s, Len(s) - n + 1, Len(s))
  <2>1. Last(n, s) = l BY <1>2, Zenon DEF Last
  <2>2. Len(s) \in Nat /\ n < Len(s) BY <1>2
  <2>3. Len(l) = n /\ \A i \in 1..n : l[i] = s[i + (Len(s) - n)] BY <2>2
  <2>4. \A i \in 1..n : i + (Len(s) - n) \in 1..Len(s) BY <2>2
  <2>5. l \in Seq(1..m) BY <2>2
  <2> HIDE DEF l
  <2>6. Increasing(l)
    <3> SUFFICES ASSUME NEW i \in 1..n, NEW j \in 1..n, i < j PROVE l[i] < l[j]
      BY <2>3, Zenon DEF Increasing
    <3>1. i + (Len(s) - n) < j + (Len(s) - n) BY <2>2
    <3> QED BY <2>3, <2>4, <3>1, Zenon DEF Increasing
  <2>7. \A t \in Seq(1..m) : Precedes(s, t) => Precedes(l, t)
    BY <2>3, <2>4, Zenon DEF Precedes
  <2> QED BY <2>1, <2>5, <2>6, <2>7, Zenon
<1> QED BY <1>1, <1>2, Zenon

(* Events in order followed by later events in order are in order.         *)
LEMMA JoinedInOrder ==
  ASSUME NEW m \in Nat, NEW s \in Seq(1..m), NEW t \in Seq(1..m),
         Increasing(s), Increasing(t), Precedes(s, t)
  PROVE  /\ s \o t \in Seq(1..m) /\ Increasing(s \o t)
         /\ \A u \in Seq(1..m) : Precedes(s, u) /\ Precedes(t, u) => Precedes(s \o t, u)
<1> DEFINE b == s \o t
<1>0. Len(s) \in Nat /\ Len(t) \in Nat OBVIOUS
<1>1. b \in Seq(1..m) OBVIOUS
<1>2. Len(b) = Len(s) + Len(t) OBVIOUS
<1>3. \A i \in 1..Len(b) : \/ i \in 1..Len(s) /\ b[i] = s[i]
                           \/ i > Len(s) /\ i - Len(s) \in 1..Len(t) /\ b[i] = t[i - Len(s)]
  OBVIOUS
<1> HIDE DEF b
<1>4. Increasing(b)
  <2> SUFFICES ASSUME NEW i \in 1..Len(b), NEW j \in 1..Len(b), i < j PROVE b[i] < b[j]
    BY Zenon DEF Increasing
  <2>1. CASE i \in 1..Len(s) /\ j \in 1..Len(s)
    <3>1. b[i] = s[i] /\ b[j] = s[j] BY <1>0, <1>3, <2>1
    <3> QED BY <2>1, <3>1, Zenon DEF Increasing
  <2>2. CASE i \in 1..Len(s) /\ j \notin 1..Len(s)
    <3>1. b[i] = s[i] /\ b[j] = t[j - Len(s)] /\ j - Len(s) \in 1..Len(t) BY <1>0, <1>3, <2>2
    <3> QED BY <2>2, <3>1, Zenon DEF Precedes
  <2>3. CASE i \notin 1..Len(s)
    <3>1. /\ b[i] = t[i - Len(s)] /\ b[j] = t[j - Len(s)] /\ i - Len(s) < j - Len(s)
          /\ i - Len(s) \in 1..Len(t) /\ j - Len(s) \in 1..Len(t)
      BY <1>0, <1>2, <1>3, <2>3
    <3> QED BY <3>1, Zenon DEF Increasing
  <2> QED BY <2>1, <2>2, <2>3, Zenon
<1>5. \A u \in Seq(1..m) : Precedes(s, u) /\ Precedes(t, u) => Precedes(b, u)
  BY <1>3, Zenon DEF Precedes
<1> QED BY <1>1, <1>4, <1>5, Zenon DEF b

(* Events read once each are no more than the events there are.            *)
LEMMA CountedOnce ==
  ASSUME NEW m \in Nat, NEW s \in Seq(1..m), Increasing(s), NEW strong \in SUBSET (1..m)
  PROVE  Cardinality({i \in DOMAIN s : s[i] \in strong}) <= Cardinality(strong)
<1> DEFINE I == {i \in DOMAIN s : s[i] \in strong}
           f == [i \in I |-> s[i]]
<1>1. IsFiniteSet(strong)
  <2>1. IsFiniteSet(1..m) BY FS_Interval
  <2> QED BY <2>1, FS_Subset, Zenon
<1>2. f \in [I -> strong] OBVIOUS
<1>3. \A i, j \in I : f[i] = f[j] => i = j
  <2> SUFFICES ASSUME NEW i \in I, NEW j \in I, s[i] = s[j] PROVE i = j OBVIOUS
  <2>1. i \in 1..Len(s) /\ j \in 1..Len(s) /\ s[i] \in Nat BY DEF Increasing
  <2> QED BY <2>1 DEF Increasing
<1>4. f \in Injection(I, strong) BY <1>2, <1>3, Zenon DEF Injection, IsInjective
<1> HIDE DEF I, f
<1>5. Cardinality(I) <= Cardinality(strong) BY <1>1, <1>4, FS_Injection, Zenon
<1> QED BY <1>5 DEF I

LEMMA EmptyInOrder ==
  ASSUME NEW S
  PROVE  /\ << >> \in Seq(S) /\ Increasing(<< >>)
         /\ \A t : Precedes(<< >>, t) /\ Precedes(t, << >>)
<1>1. << >> \in Seq(S) /\ Len(<< >>) = 0 /\ 1..0 = {} OBVIOUS
<1> QED BY <1>1, Zenon DEF Increasing, Precedes

(* A new event is later than all others.                                   *)
LEMMA LoggedInOrder ==
  ASSUME NEW n \in Nat, NEW m \in Nat, NEW fs, NEW read, NEW T, Ordered(n, m, fs, read, T)
  PROVE  Ordered(n, m + 1, [fs EXCEPT ![0] = Append(@, m + 1)], read, T)
<1> DEFINE new == [fs EXCEPT ![0] = Append(@, m + 1)]
           log == Append(fs[0], m + 1)
<1>0. 0 \in 0..n /\ m + 1 \in Nat OBVIOUS
<1>1. fs \in [0..n -> Seq(1..m)] /\ read \in Seq(1..m) BY Zenon DEF Ordered
<1>2. \A s \in Seq(1..m) : s \in Seq(1..(m + 1)) /\ \A i \in 1..Len(s) : s[i] \in 1..m
  OBVIOUS
<1>3. fs[0] \in Seq(1..m) BY <1>0, <1>1, Zenon
<1>4. /\ log \in Seq(1..(m + 1)) /\ Len(fs[0]) \in Nat
      /\ \A i \in 1..Len(log) : \/ i \in 1..Len(fs[0]) /\ log[i] = fs[0][i]
                                \/ i = Len(fs[0]) + 1 /\ log[i] = m + 1
  <2>1. fs[0] \in Seq(1..(m + 1)) /\ Len(fs[0]) \in Nat BY <1>2, <1>3
  <2>2. PICK l : l = fs[0] OBVIOUS
  <2>3. Append(l, m + 1) \in Seq(1..(m + 1)) BY <2>1, <2>2
  <2>4. \A i \in 1..Len(Append(l, m + 1)) : \/ i \in 1..Len(l) /\ Append(l, m + 1)[i] = l[i]
                                            \/ i = Len(l) + 1 /\ Append(l, m + 1)[i] = m + 1
    BY <2>1, <2>2
  <2> QED BY <2>1, <2>2, <2>3, <2>4, Zenon
<1>5. new \in [0..n -> Seq(1..(m + 1))] /\ new[0] = log /\ \A k \in 0..n : k # 0 => new[k] = fs[k]
  BY <1>0, <1>1, <1>2, <1>4, Zenon
<1> HIDE DEF new, log
<1>6. \A s \in Seq(1..m) : Precedes(s, fs[0]) => Precedes(s, log)
  <2> SUFFICES ASSUME NEW s \in Seq(1..m), Precedes(s, fs[0]), NEW i \in 1..Len(s),
                      NEW j \in 1..Len(log)
               PROVE  s[i] < log[j]
    BY Zenon DEF Precedes
  <2>1. CASE j \in 1..Len(fs[0]) /\ log[j] = fs[0][j] BY <2>1, Zenon DEF Precedes
  <2>2. CASE log[j] = m + 1
    <3>1. s[i] \in 1..m BY <1>2, Zenon
    <3> QED BY <2>2, <3>1
  <2> QED BY <1>4, <2>1, <2>2, Zenon
<1>7. Increasing(log)
  <2> SUFFICES ASSUME NEW i \in 1..Len(log), NEW j \in 1..Len(log), i < j PROVE log[i] < log[j]
    BY Zenon DEF Increasing
  <2>1. i \in 1..Len(fs[0]) /\ log[i] = fs[0][i]
    <3>1. PICK c \in Nat : c = Len(fs[0]) BY <1>4, Zenon
    <3>2. j \in 1..c \/ j = c + 1 BY <1>4, <3>1, Zenon
    <3>3. i # c + 1 BY <3>2
    <3> QED BY <1>4, <3>1, <3>3, Zenon
  <2>2. CASE j \in 1..Len(fs[0]) /\ log[j] = fs[0][j]
    <3>1. Increasing(fs[0]) BY <1>0, Zenon DEF Ordered
    <3> QED BY <2>1, <2>2, <3>1, Zenon DEF Increasing
  <2>3. CASE log[j] = m + 1
    <3>1. fs[0][i] \in 1..m BY <1>2, <1>3, <2>1, Zenon
    <3> QED BY <2>1, <2>3, <3>1
  <2> QED BY <1>4, <2>2, <2>3, Zenon
<1>8. \A k \in 0..n : Increasing(new[k]) BY <1>5, <1>7, Zenon DEF Ordered
<1>9. ASSUME NEW j \in 0..n, NEW k \in 0..n, j < k PROVE Precedes(new[k], new[j])
  <2>1. k # 0 /\ new[k] = fs[k] /\ Precedes(fs[k], fs[j]) /\ fs[k] \in Seq(1..m)
    <3>1. k # 0 BY <1>9
    <3> QED BY <1>1, <1>5, <1>9, <3>1, Zenon DEF Ordered
  <2> QED BY <1>5, <1>6, <2>1, Zenon
<1>10. ASSUME NEW t \in T, NEW k \in 0..n, k <= t PROVE Precedes(read, new[k])
  <2>1. Precedes(read, fs[k]) BY <1>10, Zenon DEF Ordered
  <2> QED BY <1>1, <1>5, <1>6, <2>1, Zenon
<1>11. read \in Seq(1..(m + 1)) BY <1>1, <1>2, Zenon
<1> QED BY <1>5, <1>8, <1>9, <1>10, <1>11, Zenon DEF Ordered, new

(* So does a rotation that drops the last backup,                          *)
LEMMA RemovedInOrder ==
  ASSUME NEW n \in Nat, NEW m \in Nat, NEW fs, NEW read, NEW T, Ordered(n, m, fs, read, T)
  PROVE  Ordered(n, m, [fs EXCEPT ![n] = << >>], read, T)
<1> DEFINE new == [fs EXCEPT ![n] = << >>]
<1>0. /\ << >> \in Seq(1..m) /\ Increasing(<< >>)
      /\ \A t : Precedes(<< >>, t) /\ Precedes(t, << >>)
  BY EmptyInOrder, Zenon
<1>1. fs \in [0..n -> Seq(1..m)] BY Zenon DEF Ordered
<1>2. new \in [0..n -> Seq(1..m)] /\ \A k \in 0..n : new[k] = << >> \/ new[k] = fs[k]
  BY <1>0, <1>1, Zenon
<1> HIDE DEF new
<1>3. \A k \in 0..n : Increasing(new[k]) BY <1>0, <1>2, Zenon DEF Ordered
<1>4. \A j, k \in 0..n : j < k => Precedes(new[k], new[j]) BY <1>0, <1>2, Zenon DEF Ordered
<1>5. \A t \in T, k \in 0..n : k <= t => Precedes(read, new[k]) BY <1>0, <1>2, Zenon DEF Ordered
<1> QED BY <1>2, <1>3, <1>4, <1>5, Zenon DEF Ordered, new

(* and one that renames a file: events only move away from the files that  *)
(* are read next.                                                          *)
LEMMA RenamedInOrder ==
  ASSUME NEW n \in Nat, NEW m \in Nat, NEW fs, NEW read, NEW T, Ordered(n, m, fs, read, T),
         NEW s \in 0..(n - 1)
  PROVE  Ordered(n, m, [fs EXCEPT ![s + 1] = fs[s], ![s] = << >>], read, T)
<1> DEFINE new == [fs EXCEPT ![s + 1] = fs[s], ![s] = << >>]
<1>0. /\ << >> \in Seq(1..m) /\ Increasing(<< >>)
      /\ \A t : Precedes(<< >>, t) /\ Precedes(t, << >>)
  BY EmptyInOrder, Zenon
<1>1. fs \in [0..n -> Seq(1..m)] BY Zenon DEF Ordered
<1>2. s \in 0..n /\ s + 1 \in 0..n /\ s # s + 1 OBVIOUS
<1>3. /\ new \in [0..n -> Seq(1..m)] /\ new[s + 1] = fs[s] /\ new[s] = << >>
      /\ \A k \in 0..n : k # s /\ k # s + 1 => new[k] = fs[k]
  BY <1>0, <1>1, <1>2, Zenon
<1> HIDE DEF new
<1>4. \A k \in 0..n : Increasing(new[k]) BY <1>0, <1>2, <1>3, Zenon DEF Ordered
<1>5. ASSUME NEW j \in 0..n, NEW k \in 0..n, j < k PROVE Precedes(new[k], new[j])
  <2>1. CASE j = s \/ k = s BY <1>0, <1>3, <2>1, Zenon
  <2>2. CASE k = s + 1 /\ j # s
    <3>1. j < s /\ j # s + 1 BY <1>5, <2>2
    <3> QED BY <1>2, <1>3, <2>2, <3>1, Zenon DEF Ordered
  <2>3. CASE j = s + 1
    <3>1. s < k /\ k # s /\ k # s + 1 BY <1>5, <2>3
    <3> QED BY <1>2, <1>3, <2>3, <3>1, Zenon DEF Ordered
  <2>4. CASE j # s /\ k # s /\ j # s + 1 /\ k # s + 1
    BY <1>3, <1>5, <2>4, Zenon DEF Ordered
  <2> QED BY <2>1, <2>2, <2>3, <2>4, Zenon
<1>6. ASSUME NEW t \in T, NEW k \in 0..n, k <= t PROVE Precedes(read, new[k])
  <2>1. CASE k = s BY <1>0, <1>3, <2>1, Zenon
  <2>2. CASE k = s + 1
    <3>1. t \in 0..n BY Zenon DEF Ordered
    <3>2. s <= t BY <1>6, <2>2, <3>1
    <3> QED BY <1>2, <1>3, <2>2, <3>2, Zenon DEF Ordered
  <2>3. CASE k # s /\ k # s + 1 BY <1>3, <1>6, <2>3, Zenon DEF Ordered
  <2> QED BY <2>1, <2>2, <2>3, Zenon
<1> QED BY <1>3, <1>4, <1>5, <1>6, Zenon DEF Ordered, new

(* Reading starts with nothing,                                            *)
LEMMA ListedInOrder ==
  ASSUME NEW n \in Nat, NEW m \in Nat, NEW fs, NEW read, NEW T, Ordered(n, m, fs, read, T),
         NEW S \in SUBSET (0..n)
  PROVE  Ordered(n, m, fs, << >>, S)
BY EmptyInOrder, Zenon DEF Ordered

(* and goes on with the oldest of the files that are left.                 *)
LEMMA ReadInOrder ==
  ASSUME NEW n \in Nat, NEW m \in Nat, NEW fs, NEW read, NEW T, Ordered(n, m, fs, read, T),
         NEW max \in Nat \ {0}, NEW k \in T, \A j \in T : j <= k
  PROVE  Ordered(n, m, fs, Last(max, read \o fs[k]), T \ {k})
<1> DEFINE b == read \o fs[k]
<1>1. /\ k \in 0..n /\ k <= k /\ fs \in [0..n -> Seq(1..m)] /\ read \in Seq(1..m) /\ T \subseteq 0..n
      /\ Increasing(read)
  <2>1. k \in 0..n BY Zenon DEF Ordered
  <2>2. k <= k BY <2>1
  <2> QED BY <2>1, <2>2, Zenon DEF Ordered
<1>2. fs[k] \in Seq(1..m) /\ Increasing(fs[k]) /\ Precedes(read, fs[k])
  BY <1>1, Zenon DEF Ordered
<1>3. /\ b \in Seq(1..m) /\ Increasing(b)
      /\ \A u \in Seq(1..m) : Precedes(read, u) /\ Precedes(fs[k], u) => Precedes(b, u)
  BY <1>1, <1>2, JoinedInOrder, Zenon
<1> HIDE DEF b
<1>4. /\ Last(max, b) \in Seq(1..m) /\ Increasing(Last(max, b))
      /\ \A u \in Seq(1..m) : Precedes(b, u) => Precedes(Last(max, b), u)
  BY <1>3, LastInOrder, Zenon
<1>5. ASSUME NEW t \in T \ {k}, NEW i \in 0..n, i <= t PROVE Precedes(Last(max, b), fs[i])
  <2>1. i < k /\ i <= k
    <3>1. t \in 0..n /\ t <= k /\ t # k BY <1>1, Zenon
    <3> QED BY <1>1, <1>5, <3>1
  <2>2. Precedes(read, fs[i]) /\ Precedes(fs[k], fs[i]) BY <1>1, <2>1, Zenon DEF Ordered
  <2>3. fs[i] \in Seq(1..m) BY <1>1, Zenon
  <2> QED BY <1>3, <1>4, <2>2, <2>3, Zenon
<1>6. T \ {k} \subseteq 0..n BY <1>1, Zenon
<1> QED BY <1>1, <1>4, <1>5, <1>6, Zenon DEF Ordered, b

----------------------------------------------------------------------------
CONSTANTS Signatures, Shapes, ShapeOf, Custom, NameOf, Answers, UseProvider, StrongCoverage,
          LearnObserved, MinCount, MinAttack, MaxRead, MaxFilters, BackupCount,
          MaxLogged, MaxRotations, MaxRestarts

VARIABLES logged, files, shift, rotations, restarts, phase, todo, lines, existing, fresh, library

A == INSTANCE Analyzer WITH at <- phase, file <- library

(* No event is read twice, and the provider was called on what was read.   *)
AnalyzerInv ==
  /\ logged \in Seq([sig : Signatures, reason : A!Reasons])
  /\ shift \in A!Idle..(BackupCount - 1)
  /\ Ordered(BackupCount, Len(logged), files, lines, todo)
  /\ phase = "provider" => A!CountOf(lines, {"strong"}) >= MinAttack

(* The instance counts as this module does.                                *)
LEMMA SameCount == \A S : A!Cardinality(S) = Cardinality(S)
BY ZenonT(30) DEF A!Cardinality, Cardinality, A!IsFiniteSet, IsFiniteSet

LEMMA LogStep ==
  ASSUME A!AnalyzerOK, AnalyzerInv, NEW s \in Signatures, NEW r \in A!Reasons, A!LogEvent(s, r)
  PROVE  AnalyzerInv'
<1>1. /\ logged' = Append(logged, [sig |-> s, reason |-> r])
      /\ files' = [files EXCEPT ![0] = Append(@, Len(logged) + 1)]
      /\ UNCHANGED <<shift, phase, lines, todo>>
  BY ZenonT(30) DEF A!LogEvent, A!analyzer
<1>2. BackupCount \in Nat BY ZenonT(30) DEF A!AnalyzerOK
<1>3. PICK E : E = [sig : Signatures, reason : A!Reasons] OBVIOUS
<1>4. logged \in Seq(E) /\ [sig |-> s, reason |-> r] \in E BY <1>3, ZenonT(30) DEF AnalyzerInv
<1>5. /\ logged' \in Seq(E) /\ Len(logged') = Len(logged) + 1 /\ Len(logged) \in Nat
      /\ \A i \in 1..Len(logged) : logged'[i] = logged[i]
  BY <1>1, <1>4, SMTT(30)
<1>6. Ordered(BackupCount, Len(logged) + 1, files', lines, todo)
  BY <1>1, <1>2, <1>5, LoggedInOrder, ZenonT(30) DEF AnalyzerInv
<1>7. A!CountOf(lines, {"strong"})' = A!CountOf(lines, {"strong"})
  <2>1. \A i \in DOMAIN lines : lines[i] \in 1..Len(logged)
    <3>1. lines \in Seq(1..Len(logged)) BY ZenonT(30) DEF AnalyzerInv, Ordered
    <3> QED BY <3>1, SMTT(30)
  <2>2. \A i \in DOMAIN lines : logged'[lines[i]] = logged[lines[i]] BY <1>5, <2>1, ZenonT(30)
  <2>3. {i \in DOMAIN lines : logged'[lines[i]].reason \in {"strong"}}
          = {i \in DOMAIN lines : logged[lines[i]].reason \in {"strong"}}
    BY <2>2, ZenonT(30)
  <2> QED BY <1>1, <2>3, ZenonT(30) DEF A!CountOf
<1> QED BY <1>1, <1>3, <1>5, <1>6, <1>7, ZenonT(30) DEF AnalyzerInv

LEMMA RemoveStep ==
  ASSUME A!AnalyzerOK, AnalyzerInv, A!RemoveOldest
  PROVE  AnalyzerInv'
<1>1. /\ files' = [files EXCEPT ![BackupCount] = << >>] /\ shift' = BackupCount - 1
      /\ UNCHANGED <<logged, phase, lines, todo>>
  BY ZenonT(30) DEF A!RemoveOldest, A!analyzer
<1>2. BackupCount \in Nat \ {0} BY ZenonT(30) DEF A!AnalyzerOK
<1>3. shift' \in A!Idle..(BackupCount - 1) BY <1>1, <1>2, SMTT(30) DEF A!Idle
<1>4. Len(logged) \in Nat
  <2>1. PICK E : logged \in Seq(E) BY ZenonT(30) DEF AnalyzerInv
  <2> QED BY <2>1, SMTT(30)
<1>5. Ordered(BackupCount, Len(logged), files', lines, todo)
  <2>1. BackupCount \in Nat BY <1>2, ZenonT(30)
  <2> QED BY <1>1, <1>4, <2>1, RemovedInOrder, ZenonT(30) DEF AnalyzerInv
<1> QED BY <1>1, <1>3, <1>5, ZenonT(30) DEF AnalyzerInv, A!CountOf

LEMMA RenameStep ==
  ASSUME A!AnalyzerOK, AnalyzerInv, A!Rename
  PROVE  AnalyzerInv'
<1>1. /\ shift # A!Idle /\ shift' = shift - 1
      /\ files' = [files EXCEPT ![shift + 1] = files[shift], ![shift] = << >>]
      /\ UNCHANGED <<logged, phase, lines, todo>>
  BY ZenonT(30) DEF A!Rename, A!analyzer
<1>2. BackupCount \in Nat \ {0} /\ shift \in A!Idle..(BackupCount - 1)
  BY ZenonT(30) DEF A!AnalyzerOK, AnalyzerInv
<1>3. shift \in 0..(BackupCount - 1) /\ shift' \in A!Idle..(BackupCount - 1)
  BY <1>1, <1>2, SMTT(30) DEF A!Idle
<1>4. Len(logged) \in Nat
  <2>1. PICK E : logged \in Seq(E) BY ZenonT(30) DEF AnalyzerInv
  <2> QED BY <2>1, SMTT(30)
<1>5. Ordered(BackupCount, Len(logged), files', lines, todo)
  <2>1. BackupCount \in Nat BY <1>2, ZenonT(30)
  <2> QED BY <1>1, <1>3, <1>4, <2>1, RenamedInOrder, ZenonT(30) DEF AnalyzerInv
<1> QED BY <1>1, <1>3, <1>5, ZenonT(30) DEF AnalyzerInv, A!CountOf

(* A round begins, or is over: nothing has been read.                      *)
LEMMA FreshRound ==
  ASSUME A!AnalyzerOK, AnalyzerInv, lines' = << >>, todo' \subseteq 0..BackupCount,
         phase' # "provider", UNCHANGED <<logged, files, shift>>
  PROVE  AnalyzerInv'
<1>1. BackupCount \in Nat BY ZenonT(30) DEF A!AnalyzerOK
<1>2. Len(logged) \in Nat
  <2>1. PICK E : logged \in Seq(E) BY ZenonT(30) DEF AnalyzerInv
  <2> QED BY <2>1, SMTT(30)
<1>3. Ordered(BackupCount, Len(logged), files, << >>, todo')
  BY <1>1, <1>2, ListedInOrder, ZenonT(30) DEF AnalyzerInv
<1> QED BY <1>3, ZenonT(30) DEF AnalyzerInv

LEMMA ListStep ==
  ASSUME A!AnalyzerOK, AnalyzerInv, A!List
  PROVE  AnalyzerInv'
<1>1. /\ todo' = A!EventLogPaths /\ lines' = << >> /\ phase' = "events"
      /\ UNCHANGED <<logged, files, shift>>
  BY ZenonT(30) DEF A!List, A!log
<1>2. todo' \subseteq 0..BackupCount
  <2>1. 0 \in 0..BackupCount BY SMTT(30) DEF A!AnalyzerOK
  <2> QED BY <1>1, <2>1, ZenonT(30) DEF A!EventLogPaths, A!Slots
<1> QED BY <1>1, <1>2, FreshRound, SMTT(30)

LEMMA ReadStep ==
  ASSUME A!AnalyzerOK, AnalyzerInv, A!ReadEvents
  PROVE  AnalyzerInv'
<1>1. phase' = "events" /\ UNCHANGED <<logged, files, shift>> BY ZenonT(30) DEF A!ReadEvents, A!log
<1>2. PICK k \in todo : /\ \A j \in todo : j <= k
                        /\ lines' = Last(MaxRead, lines \o files[k]) /\ todo' = todo \ {k}
  BY ZenonT(30) DEF A!ReadEvents, A!OldestFirst, A!LastOf, Last
<1>3. BackupCount \in Nat /\ MaxRead \in Nat \ {0} BY ZenonT(30) DEF A!AnalyzerOK
<1>4. Len(logged) \in Nat
  <2>1. PICK E : logged \in Seq(E) BY ZenonT(30) DEF AnalyzerInv
  <2> QED BY <2>1, SMTT(30)
<1>5. Ordered(BackupCount, Len(logged), files, lines', todo')
  BY <1>2, <1>3, <1>4, ReadInOrder, ZenonT(30) DEF AnalyzerInv
<1> QED BY <1>1, <1>5, SMTT(30) DEF AnalyzerInv

LEMMA DecideStep ==
  ASSUME AnalyzerInv, A!ReadFilters
  PROVE  AnalyzerInv'
<1>1. UNCHANGED <<logged, files, shift, lines, todo>> BY ZenonT(30) DEF A!ReadFilters, A!log
<1>2. phase' = "provider" => A!CountOf(lines, {"strong"}) >= MinAttack
  BY SMTT(30) DEF A!ReadFilters, A!Evidence
<1> QED BY <1>1, <1>2, ZenonT(30) DEF AnalyzerInv, A!CountOf

LEMMA AnalyzerInit ==
  ASSUME A!AnalyzerOK, A!Init
  PROVE  AnalyzerInv
<1>1. /\ logged = << >> /\ files = [k \in 0..BackupCount |-> << >>] /\ shift = A!Idle
      /\ phase = "list" /\ todo = {} /\ lines = << >>
  BY ZenonT(30) DEF A!Init, A!Slots
<1>2. logged \in Seq([sig : Signatures, reason : A!Reasons]) /\ Len(logged) = 0
  BY <1>1, SMTT(30)
<1>3. shift \in A!Idle..(BackupCount - 1) BY <1>1, SMTT(30) DEF A!AnalyzerOK, A!Idle
<1>4. Ordered(BackupCount, 0, files, lines, todo)
  <2>1. << >> \in Seq(1..0) /\ Increasing(<< >>) /\ Precedes(<< >>, << >>) BY EmptyInOrder, ZenonT(30)
  <2>2. files \in [0..BackupCount -> Seq(1..0)] /\ \A k \in 0..BackupCount : files[k] = << >>
    BY <1>1, <2>1, ZenonT(30)
  <2> QED BY <1>1, <2>1, <2>2, ZenonT(30) DEF Ordered
<1> QED BY <1>1, <1>2, <1>3, <1>4, SMTT(30) DEF AnalyzerInv

LEMMA AnalyzerNext ==
  ASSUME A!AnalyzerOK, AnalyzerInv, [A!Next]_(A!vars)
  PROVE  AnalyzerInv'
<1>1. CASE \E s \in Signatures, r \in A!Reasons : A!LogEvent(s, r) BY <1>1, LogStep, ZenonT(30)
<1>2. CASE A!RemoveOldest BY <1>2, RemoveStep, ZenonT(30)
<1>3. CASE A!Rename BY <1>3, RenameStep, ZenonT(30)
<1>4. CASE A!List BY <1>4, ListStep, ZenonT(30)
<1>5. CASE A!ReadEvents BY <1>5, ReadStep, ZenonT(30)
<1>6. CASE A!ReadFilters BY <1>6, DecideStep, ZenonT(30)
<1>7. CASE A!ProviderDone \/ UNCHANGED A!vars
  <2>1. UNCHANGED <<logged, files, shift, lines, todo>> /\ (phase' = "write" \/ phase' = phase)
    BY <1>7, ZenonT(30) DEF A!ProviderDone, A!vars, A!log, A!analyzer
  <2>2. phase' = "provider" => phase = "provider" BY <2>1, SMTT(30)
  <2> QED BY <2>1, <2>2, ZenonT(30) DEF AnalyzerInv, A!CountOf
<1>8. CASE A!WriteFilters \/ A!Restart
  <2>1. /\ lines' = << >> /\ phase' = "list" /\ (todo' = {} \/ todo' = todo)
        /\ UNCHANGED <<logged, files, shift>>
    BY <1>8, ZenonT(30) DEF A!WriteFilters, A!Restart, A!log
  <2>2. todo' \subseteq 0..BackupCount BY <2>1, ZenonT(30) DEF AnalyzerInv, Ordered
  <2>3. phase' # "provider" BY <2>1, SMTT(30)
  <2> QED BY <2>1, <2>2, <2>3, FreshRound, ZenonT(30)
<1> QED BY <1>1, <1>2, <1>3, <1>4, <1>5, <1>6, <1>7, <1>8, ZenonT(30) DEF A!Next, A!Analyze

(* However the log is rotated while codex_analyzer.py reads its files one  *)
(* by one, no event counts twice: the provider is only called when         *)
(* min_attack_events strong events were logged.                            *)
THEOREM EvidenceOnceHolds == A!AnalyzerOK => (A!Spec => []A!EvidenceOnce)
<1> SUFFICES ASSUME A!AnalyzerOK PROVE A!Spec => []A!EvidenceOnce OBVIOUS
<1>1. A!Init => AnalyzerInv BY AnalyzerInit, ZenonT(30)
<1>2. AnalyzerInv /\ [A!Next]_(A!vars) => AnalyzerInv' BY AnalyzerNext, ZenonT(30)
<1>3. AnalyzerInv => A!EvidenceOnce
  <2> SUFFICES ASSUME AnalyzerInv, phase = "provider"
               PROVE  A!CountOf(A!AllEvents, {"strong"}) >= MinAttack
    BY ZenonT(30) DEF A!EvidenceOnce
  <2> DEFINE strong == {i \in DOMAIN logged : logged[i].reason \in {"strong"}}
             seen == {i \in DOMAIN lines : lines[i] \in strong}
  <2>1. /\ Len(logged) \in Nat /\ DOMAIN logged = 1..Len(logged)
        /\ \A i \in DOMAIN lines : lines[i] \in DOMAIN logged
        /\ strong \in SUBSET (1..Len(logged))
    <3>1. PICK E : logged \in Seq(E) BY ZenonT(30) DEF AnalyzerInv
    <3>2. Len(logged) \in Nat /\ DOMAIN logged = 1..Len(logged) BY <3>1, SMTT(30)
    <3>3. lines \in Seq(1..Len(logged)) BY ZenonT(30) DEF AnalyzerInv, Ordered
    <3>4. \A i \in DOMAIN lines : lines[i] \in 1..Len(logged) BY <3>3, SMTT(30)
    <3> QED BY <3>2, <3>4, ZenonT(30)
  <2>2. A!CountOf(lines, {"strong"}) = Cardinality(seen)
    <3>1. seen = {i \in DOMAIN lines : logged[lines[i]].reason \in {"strong"}} BY <2>1, ZenonT(30)
    <3> QED BY <3>1, SameCount, ZenonT(30) DEF A!CountOf
  <2>3. A!CountOf(A!AllEvents, {"strong"}) = Cardinality(strong)
    <3>1. DOMAIN A!AllEvents = DOMAIN logged /\ \A i \in DOMAIN logged : A!AllEvents[i] = i
      BY ZenonT(30) DEF A!AllEvents
    <3>2. strong = {i \in DOMAIN A!AllEvents : logged[A!AllEvents[i]].reason \in {"strong"}}
      BY <3>1, ZenonT(30)
    <3> QED BY <3>2, SameCount, ZenonT(30) DEF A!CountOf
  <2> HIDE DEF strong
  <2>4. Cardinality(seen) <= Cardinality(strong)
    <3>1. lines \in Seq(1..Len(logged)) /\ Increasing(lines) BY ZenonT(30) DEF AnalyzerInv, Ordered
    <3> QED BY <2>1, <3>1, CountedOnce, ZenonT(30)
  <2>5. Cardinality(seen) \in Nat /\ Cardinality(strong) \in Nat
    <3>1. IsFiniteSet(1..Len(logged)) BY <2>1, FS_Interval, SMTT(30)
    <3>2. IsFiniteSet(strong) BY <2>1, <3>1, FS_Subset, ZenonT(30)
    <3>3. IsFiniteSet(seen)
      <4>1. lines \in Seq(1..Len(logged)) BY ZenonT(30) DEF AnalyzerInv, Ordered
      <4>2. DOMAIN lines = 1..Len(lines) /\ Len(lines) \in Nat BY <4>1, SMTT(30)
      <4>3. IsFiniteSet(DOMAIN lines) BY <4>2, FS_Interval, SMTT(30)
      <4>4. seen \in SUBSET DOMAIN lines BY ZenonT(30)
      <4> QED BY <4>3, <4>4, FS_Subset, ZenonT(30)
    <3> QED BY <3>2, <3>3, FS_CardinalityType, ZenonT(30)
  <2>6. Cardinality(seen) >= MinAttack BY <2>2, ZenonT(30) DEF AnalyzerInv
  <2>7. MinAttack \in Nat BY ZenonT(30) DEF A!AnalyzerOK
  <2>8. PICK a \in Nat, b \in Nat : a = Cardinality(seen) /\ b = Cardinality(strong) BY <2>5, ZenonT(30)
  <2>9. b >= MinAttack BY <2>4, <2>6, <2>7, <2>8, SMTT(30)
  <2> QED BY <2>3, <2>8, <2>9, ZenonT(30)
<1> QED BY <1>1, <1>2, <1>3, PTL DEF A!Spec
=============================================================================

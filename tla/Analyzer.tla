------------------------------ MODULE Analyzer ------------------------------
(***************************************************************************)
(* tools/codex_analyzer.py, the out-of-band loop that turns the event log  *)
(* into the runtime filter file, while the daemon's log writer rotates the *)
(* files it reads (EventLog has that in detail) and the filter engine      *)
(* loads the file it writes (FilterEngine).                                *)
(*                                                                         *)
(* An event is its place in the sequence of all events logged.  A filter   *)
(* is what it matches on and its id; an id is the name safe_id gives it    *)
(* with the suffixes added to make it unique, so "x-2" is <<x, 2>>.        *)
(***************************************************************************)
EXTENDS Integers, Sequences, FiniteSets, SequencesExt

CONSTANTS
  Signatures,
  Shapes,        \* learnable path shapes
  ShapeOf,       \* the path shape of a signature's requests
  Custom,        \* conditions with neither a signature nor a path shape
  NameOf,        \* the name of a learned filter, by what it matches on
  Answers,       \* what the provider may answer, sanitized
  UseProvider,   \* not --no-codex
  StrongCoverage,\* not --disable-strong-coverage
  LearnObserved, \* --learn-observed
  MinCount, MinAttack, MaxRead, MaxFilters,  \* the other options
  BackupCount,   \* event_log_backup_count
  MaxLogged, MaxRotations, MaxRestarts  \* bounds

Conditions == Signatures \cup Shapes \cup Custom

AnalyzerOK ==
  /\ ShapeOf \in [Signatures -> Shapes]
  /\ UseProvider \in BOOLEAN /\ StrongCoverage \in BOOLEAN /\ LearnObserved \in BOOLEAN
  /\ MinCount \in Nat \ {0} /\ MinAttack \in Nat /\ MaxRead \in Nat \ {0}
  /\ MaxFilters \in Nat \ {0} /\ BackupCount \in Nat \ {0}

ASSUME AnalyzerAssumption == AnalyzerOK

VARIABLES
  logged,    \* the events logged so far: signature and reason
  files,     \* the log (0) and its backups
  shift,     \* the backup a rotation renames next, -1 when there is none
  rotations,
  restarts,
  at,        \* where the analyzer is
  todo,      \* the log files it has still to read
  lines,     \* the events it has read, the last MaxRead of them
  existing,  \* the filters it has read
  fresh,     \* the filters of this round
  file       \* the runtime filter file

log == <<logged, files, shift, rotations>>
analyzer == <<at, todo, lines, existing, fresh, restarts>>
vars == <<log, analyzer, file>>

Slots == 0..BackupCount
Idle == -1
Reasons == {"strong", "global_observed", "observed"}

LastOf(n, s) == IF Len(s) <= n THEN s ELSE SubSeq(s, Len(s) - n + 1, Len(s))

Init ==
  /\ logged = << >> /\ files = [k \in Slots |-> << >>] /\ shift = Idle /\ rotations = 0
  /\ at = "list" /\ todo = {} /\ lines = << >> /\ existing = << >> /\ fresh = << >>
  /\ restarts = 0 /\ file = << >>

----------------------------------------------------------------------------
(* The daemon's log writer.                                                *)

LogEvent(s, r) ==
  /\ Len(logged) < MaxLogged /\ shift = Idle
  /\ logged' = Append(logged, [sig |-> s, reason |-> r])
  /\ files' = [files EXCEPT ![0] = Append(@, Len(logged) + 1)]
  /\ UNCHANGED <<shift, rotations, analyzer, file>>

RemoveOldest ==
  /\ shift = Idle /\ files[0] # << >> /\ rotations < MaxRotations
  /\ files' = [files EXCEPT ![BackupCount] = << >>]
  /\ shift' = BackupCount - 1
  /\ rotations' = rotations + 1
  /\ UNCHANGED <<logged, analyzer, file>>

Rename ==
  /\ shift # Idle
  /\ files' = [files EXCEPT ![shift + 1] = files[shift], ![shift] = << >>]
  /\ shift' = shift - 1
  /\ UNCHANGED <<logged, rotations, analyzer, file>>

----------------------------------------------------------------------------
(* Learning without a provider.                                            *)

Group(batch, on) ==
  SelectSeq(batch, LAMBDA n : on \in {logged[n].sig, ShapeOf[logged[n].sig]})

CountOf(g, reasons) == Cardinality({i \in DOMAIN g : logged[g[i]].reason \in reasons})

(* The conditions deterministic_signature_filters and                      *)
(* deterministic_path_shape_filters make filters for.                      *)
Learns(batch, on) ==
  LET g == Group(batch, on)
  IN  /\ g # << >>
      /\ on \in Shapes => Cardinality({logged[g[i]].sig : i \in DOMAIN g}) >= MinCount
      /\ \/ CountOf(g, {"strong"}) >= MinCount
         \/ on \in Shapes /\ CountOf(g, {"global_observed"}) >= MinCount
         \/ LearnObserved /\ Len(g) >= MinCount

(* Groups by size, the larger first, in the order of their first events.   *)
BySize(batch, S) ==
  SetToSortSeq(S, LAMBDA a, b :
    LET ga == Group(batch, a) gb == Group(batch, b)
    IN  Len(ga) > Len(gb) \/ (Len(ga) = Len(gb) /\ ga[1] < gb[1]))

Largest(batch, S) == BySize(batch, {on \in S : Learns(batch, on)})

Learned(on) == [on |-> on, id |-> <<NameOf[on]>>]

(* deterministic_filters: path shapes, then signatures.                    *)
Deterministic(batch) ==
  LET order == Largest(batch, Shapes) \o Largest(batch, Signatures)
  IN  [i \in DOMAIN order |-> Learned(order[i])]

----------------------------------------------------------------------------
(* Merging.                                                                *)

(* filter_key                                                              *)
Key(f) == IF f.on \in Custom THEN f.id ELSE f.on

KeysOf(filters) == {Key(filters[i]) : i \in DOMAIN filters}

IdsOf(filters) == {filters[i].id : i \in DOMAIN filters}

\* Mutant: what the provider left out stays out.
NoCoverage(answer, batch) == answer

MergeStrongCoverage(answer, batch) ==
  answer \o SelectSeq(Deterministic(batch), LAMBDA f : Key(f) \notin KeysOf(answer))

Upsert(merged, f) == Append(SelectSeq(merged, LAMBDA g : Key(g) # Key(f)), f)

Deconflicted(id, seen) ==
  IF id \notin seen THEN id
  ELSE Append(id, CHOOSE n \in 2..(Cardinality(seen) + 2) :
         /\ Append(id, n) \notin seen
         /\ \A m \in 2..(n - 1) : Append(id, m) \in seen)

UniqueFilterIds(filters) ==
  FoldLeft(LAMBDA done, f : Append(done, [f EXCEPT !.id = Deconflicted(@, IdsOf(done))]),
           << >>, filters)

MergeExistingFilters(old, new) ==
  UniqueFilterIds(LastOf(MaxFilters, FoldLeft(Upsert, << >>, old \o new)))

----------------------------------------------------------------------------
(* analyze_once.                                                           *)

\* Mutant: the backups are not read.
LogOnly == {0}

(* event_log_paths: the log and the backups there are,                     *)
EventLogPaths == {0} \cup {k \in Slots : files[k] # << >>}

\* Mutant: the log is read before its backups.
NewestFirst(k) == \A j \in todo : k <= j

(* and in which order they are read.                                       *)
OldestFirst(k) == \A j \in todo : j <= k

List ==
  /\ at = "list"
  /\ todo' = EventLogPaths
  /\ lines' = << >>
  /\ at' = "events"
  /\ UNCHANGED <<log, existing, fresh, restarts, file>>

(* read_events, one file at a time; a file that is gone is skipped, and    *)
(* one that goes between the check and the open ends the analyzer          *)
(* (Restart).                                                              *)
ReadEvents ==
  /\ at = "events"
  /\ \E k \in todo :
       /\ OldestFirst(k)
       /\ lines' = LastOf(MaxRead, lines \o files[k])
       /\ todo' = todo \ {k}
  /\ UNCHANGED <<log, at, existing, fresh, restarts, file>>

(* count_attack_evidence                                                   *)
Evidence(batch) == CountOf(batch, {"strong"})

(* read_filter_file, and what to do with the events.                       *)
ReadFilters ==
  /\ at = "events" /\ todo = {}
  /\ existing' = file
  /\ IF lines # << >> /\ UseProvider /\ Evidence(lines) >= MinAttack
     THEN at' = "provider" /\ UNCHANGED fresh
     ELSE at' = "write" /\ fresh' = Deterministic(lines)
  /\ UNCHANGED <<log, todo, lines, restarts, file>>

(* run_provider returns or raises; strong coverage is added to either.     *)
ProviderDone ==
  /\ at = "provider"
  /\ \E answer \in Answers \cup {Deterministic(lines)} :
       fresh' = IF StrongCoverage THEN MergeStrongCoverage(answer, lines) ELSE answer
  /\ at' = "write"
  /\ UNCHANGED <<log, todo, lines, existing, restarts, file>>

(* merge_existing_filters and write_filters, whose os.replace is atomic.   *)
WriteFilters ==
  /\ at = "write"
  /\ file' = MergeExistingFilters(existing, fresh)
  /\ at' = "list" /\ lines' = << >> /\ existing' = << >> /\ fresh' = << >>
  /\ UNCHANGED <<log, todo, restarts>>

(* The analyzer is killed and started again.                               *)
Restart ==
  /\ at # "list" /\ restarts < MaxRestarts
  /\ restarts' = restarts + 1
  /\ at' = "list" /\ todo' = {} /\ lines' = << >> /\ existing' = << >> /\ fresh' = << >>
  /\ UNCHANGED <<log, file>>

----------------------------------------------------------------------------
Analyze == List \/ ReadEvents \/ ReadFilters \/ ProviderDone \/ WriteFilters

Next ==
  \/ \E s \in Signatures, r \in Reasons : LogEvent(s, r)
  \/ RemoveOldest \/ Rename
  \/ Analyze \/ Restart

Spec == Init /\ [][Next]_vars

(* The loop sleeps a bounded time between rounds, provider calls have      *)
(* timeouts, and a rotation that has begun is finished.                    *)
FairSpec == Spec /\ WF_vars(Rename) /\ WF_vars(Analyze)

----------------------------------------------------------------------------
(* Types, and the caps on events and filters.                              *)
TypeOK ==
  /\ at \in {"list", "events", "provider", "write"}
  /\ files \in [Slots -> Seq(1..Len(logged))] /\ shift \in Idle..(BackupCount - 1)
  /\ Len(lines) <= MaxRead
  /\ Len(file) <= MaxFilters /\ \A i \in DOMAIN file : file[i].on \in Conditions

AllEvents == [n \in DOMAIN logged |-> n]

(* Rotation moves the files while read_events reads them one by one, so    *)
(* events may be missed, but none is counted twice: the provider is called *)
(* only when that much attack evidence was logged.                         *)
EvidenceOnce == at = "provider" => CountOf(AllEvents, {"strong"}) >= MinAttack

Suggested == UNION {{a[i].on : i \in DOMAIN a} : a \in Answers}

(* And a filter the provider did not suggest is only learned on evidence   *)
(* that was logged.                                                        *)
EvidenceReal ==
  /\ EvidenceOnce
  /\ \A i \in DOMAIN file : file[i].on \notin Suggested => Learns(AllEvents, file[i].on)

Covered(batch, filters) ==
  \A on \in Signatures \cup Shapes : Learns(batch, on) => on \in KeysOf(filters)

(* A filter of the library survives a round, unless it is a custom rule    *)
(* and the provider sent another custom rule under its id: filter_key      *)
(* knows custom rules by nothing else.                                     *)
Survives(f) ==
  \/ \E i \in DOMAIN file' : file'[i].on = f.on
  \/ f.on \in Custom /\ \E i \in DOMAIN fresh : fresh[i].on \in Custom /\ fresh[i].id = f.id

(* docs/AI_PROVIDERS.md:167 "Provider output is also merged with           *)
(* deterministic coverage" and :169 "Learned adaptive filters are          *)
(* preserved": whatever the provider answers, in whatever order and with   *)
(* whatever ids, a round that does not itself exceed the cap leaves a      *)
(* filter for everything it had the evidence to learn, and a filter that   *)
(* was there is let go only when the library is full or, if it is a custom *)
(* rule, for another custom rule of the same id.                           *)
RoundComplete ==
  [][/\ WriteFilters /\ StrongCoverage /\ Len(fresh) <= MaxFilters => Covered(lines, file')
     /\ \A i \in DOMAIN file : Survives(file[i]) \/ Len(file') = MaxFilters]_vars

(* Once the log is quiet, everything its last max_events have evidence for *)
(* is learned, in spite of events missed during rotations and of restarts. *)
OnDisk == FlattenSeq([i \in 1..(BackupCount + 1) |-> files[BackupCount + 1 - i]])

FloodLearned == <>[]Covered(LastOf(MaxRead, OnDisk), file)
=============================================================================

------------------------------ MODULE Providers ------------------------------
(***************************************************************************)
(* The AI provider settings: tools/ai_provider_cli.py writes providers.json*)
(* and secrets.json, and each round of tools/codex_analyzer.py reads them  *)
(* to choose and call a provider.  Neither file is written atomically:     *)
(* write_text truncates and then writes, and the command may be interrupted*)
(* between any two steps.                                                  *)
(*                                                                         *)
(* A provider's settings are one value; a secrets file is the set of       *)
(* providers with a key in it.                                             *)
(***************************************************************************)
EXTENDS Naturals, Sequences

CONSTANTS CLI_AGENTS, API_PROVIDERS,  \* the providers; codex is an agent
          Values,        \* settings a user may enter
          EnvKeys,       \* API providers with their key in the environment
          MaxCommands    \* commands started

VARIABLES config,     \* providers.json
          secrets,    \* secrets.json
          cmd,        \* the command and what it has loaded
          cli,        \* where the command is
          commands,   \* commands started
          asked,      \* the settings the finished writes asked for
          stored,     \* the selection was made by a login that stored a key
          at,         \* where the analyzer is
          chosen      \* the provider of its round and that provider's settings

files == <<config, secrets>>
user == <<cmd, cli, commands, asked, stored>>
analyzer == <<at, chosen>>
vars == <<files, user, analyzer>>

PROVIDERS == CLI_AGENTS \cup API_PROVIDERS
Default == "default"
Absent == [whole |-> TRUE, sel |-> "none", set |-> [p \in {} |-> Default]]
Torn == [whole |-> FALSE]
NoSecrets == [whole |-> TRUE, keys |-> {}]

(* codex is the agent of the defaults; "none" stands for no selection.     *)
ProvidersOK ==
  /\ "codex" \in CLI_AGENTS /\ CLI_AGENTS \cap API_PROVIDERS = {}
  /\ "none" \notin PROVIDERS /\ EnvKeys \subseteq API_PROVIDERS
  /\ MaxCommands \in Nat

DEFAULT_PROVIDER_CONFIG == [sel |-> "codex", set |-> [p \in PROVIDERS |-> Default]]

(* What the file says wins, entry by entry, over the defaults.             *)
deep_merge(base, override) ==
  [sel |-> IF override.sel = "none" THEN base.sel ELSE override.sel,
   set |-> [p \in PROVIDERS |-> IF p \in DOMAIN override.set
                                THEN override.set[p] ELSE base.set[p]]]

load_provider_config == deep_merge(DEFAULT_PROVIDER_CONFIG, config)

Commands ==
  [op : {"init"}] \cup [op : {"select"}, p : PROVIDERS]
    \cup [op : {"set"}, p : PROVIDERS, value : Values \cup {Default},
          select : BOOLEAN, key : BOOLEAN]
    \cup [op : {"login"}, p : PROVIDERS, value : Values, key : BOOLEAN]

Idle == [op |-> "none"]

Init ==
  /\ config = Absent /\ secrets = NoSecrets
  /\ cmd = Idle /\ cli = "idle" /\ commands = 0
  /\ asked = DEFAULT_PROVIDER_CONFIG /\ stored = FALSE
  /\ at = "config" /\ chosen = [p |-> "codex", value |-> Default]

-----------------------------------------------------------------------------
(* The commands.                                                           *)

(* set: an option that was not given leaves its entry as it is.            *)
set_provider(c, a) ==
  [sel |-> IF a.select THEN a.p ELSE c.sel,
   set |-> [c.set EXCEPT ![a.p] = IF a.value = Default THEN @ ELSE a.value]]

(* login: every prompt keeps the current value on an empty answer.         *)
login_provider(c, a) == [sel |-> a.p, set |-> [c.set EXCEPT ![a.p] = a.value]]

Edited(c, a) ==
  CASE a.op = "init"   -> c
    [] a.op = "select" -> [c EXCEPT !.sel = a.p]
    [] a.op = "set"    -> set_provider(c, a)
    [] a.op = "login"  -> login_provider(c, a)

StoresKey(a) ==
  \/ a.op = "set" /\ a.key
  \/ a.op = "login" /\ a.key /\ a.p \in API_PROVIDERS

\* Mutant: login selects the provider before it stores the key, as set does.
StepsConfigFirst(a) ==
  IF StoresKey(a) THEN <<"config", "secrets">> ELSE <<"config">>

(* login stores the key and then selects the provider; set does it in the  *)
(* other order.                                                            *)
Steps(a) ==
  IF ~StoresKey(a) THEN <<"config">>
  ELSE IF a.op = "login" THEN <<"secrets", "config">> ELSE <<"config", "secrets">>

(* Every command loads the configuration first; init writes the defaults   *)
(* and only where there is no file.  A torn file ends the command with an  *)
(* exception.                                                              *)
StartCommand ==
  /\ cli = "idle" /\ commands < MaxCommands /\ commands' = commands + 1
  /\ \E a \in Commands :
       IF ~config.whole \/ (a.op = "init" /\ config # Absent)
       THEN UNCHANGED <<cmd, cli>>
       ELSE /\ cmd' = [op |-> a.op, ask |-> a, todo |-> Steps(a),
                       loaded |-> Edited(load_provider_config, a),
                       secrets |-> secrets]
            /\ cli' = "open"
  /\ UNCHANGED <<files, asked, stored, analyzer>>

(* The secrets are loaded just before they are written.                    *)
Truncate ==
  /\ cli = "open"
  /\ IF cmd.todo[1] = "config"
     THEN config' = Torn /\ cli' = "write" /\ UNCHANGED <<secrets, cmd>>
     ELSE IF ~secrets.whole
     THEN cli' = "idle" /\ cmd' = Idle /\ UNCHANGED files
     ELSE /\ cmd' = [cmd EXCEPT !.secrets = secrets]
          /\ secrets' = Torn /\ cli' = "write" /\ UNCHANGED config
  /\ UNCHANGED <<commands, asked, stored, analyzer>>

Finish(last) ==
  IF last THEN cmd' = Idle /\ cli' = "idle"
  ELSE cmd' = [cmd EXCEPT !.todo = <<cmd.todo[2]>>] /\ cli' = "open"

write_provider_config ==
  /\ cli = "write" /\ cmd.todo[1] = "config"
  /\ config' = [whole |-> TRUE, sel |-> cmd.loaded.sel, set |-> cmd.loaded.set]
  /\ asked' = Edited(asked, cmd.ask)
  /\ stored' = IF cmd.loaded.sel # asked.sel \/ cmd.op = "login"
               THEN cmd.op = "login" /\ StoresKey(cmd.ask) ELSE stored
  /\ Finish(Len(cmd.todo) = 1)
  /\ UNCHANGED <<secrets, commands, analyzer>>

write_provider_secrets ==
  /\ cli = "write" /\ cmd.todo[1] = "secrets"
  /\ secrets' = [whole |-> TRUE, keys |-> cmd.secrets.keys \cup {cmd.ask.p}]
  /\ Finish(Len(cmd.todo) = 1)
  /\ UNCHANGED <<config, commands, asked, stored, analyzer>>

(* Ctrl-C, a full disk, a killed terminal.                                 *)
Interrupt ==
  /\ cli # "idle" /\ cmd' = Idle /\ cli' = "idle"
  /\ UNCHANGED <<files, commands, asked, stored, analyzer>>

(* The only way out of a torn configuration is to delete it by hand.       *)
Repair ==
  /\ cli = "idle" /\ ~config.whole /\ config' = Absent
  /\ asked' = DEFAULT_PROVIDER_CONFIG /\ stored' = FALSE
  /\ UNCHANGED <<secrets, cmd, cli, commands, analyzer>>

-----------------------------------------------------------------------------
(* A round of the analyzer, as far as the provider goes.                   *)

Round(next) == at' = next /\ UNCHANGED <<files, user>>

(* Outside the try: a backup that is gone between the check and the open,  *)
(* when the events are read, and a configuration that does not parse end   *)
(* the analyzer.                                                           *)
LoadConfig ==
  /\ at = "config"
  /\ \/ Round("dead") /\ UNCHANGED chosen
     \/ /\ config.whole
        /\ LET c == load_provider_config
           IN  Round("call") /\ chosen' = [p |-> c.sel, value |-> c.set[c.sel]]

(* The environment first, then the secrets file, read anew on every call.  *)
provider_api_key(p) == p \in EnvKeys \/ (secrets.whole /\ p \in secrets.keys)

run_provider ==
  /\ at = "call" /\ UNCHANGED chosen
  /\ \/ chosen.p \in CLI_AGENTS /\ Round("answer")
     \/ chosen.p \in API_PROVIDERS /\ provider_api_key(chosen.p) /\ Round("request")
     \/ chosen.p \in API_PROVIDERS /\ ~provider_api_key(chosen.p) /\ Round("fallback")

(* post_json: an HTTP error, a refused connection or a timeout raises.     *)
post_json ==
  /\ at = "request" /\ UNCHANGED chosen
  /\ Round("answer") \/ Round("fallback")

(* The text of the answer must hold a JSON object; a missing agent, its    *)
(* timeout or its exit code count as no answer.                            *)
extract_json ==
  /\ at = "answer" /\ UNCHANGED chosen
  /\ Round("provider") \/ Round("fallback")

(* Either way the round's filters are written, and the next round begins;  *)
(* an error of the write is not caught.                                    *)
NextRound ==
  /\ at \in {"provider", "fallback"} /\ UNCHANGED chosen
  /\ Round("config") \/ Round("dead")

Restart == at = "dead" /\ Round("config") /\ UNCHANGED chosen

Analyze == LoadConfig \/ run_provider \/ post_json \/ extract_json \/ NextRound

Next == StartCommand \/ Truncate \/ write_provider_config
          \/ write_provider_secrets \/ Interrupt \/ Repair \/ Analyze \/ Restart

Spec == Init /\ [][Next]_vars

-----------------------------------------------------------------------------
TypeOK ==
  /\ config.whole => config.sel \in PROVIDERS \cup {"none"}
  /\ secrets.whole => secrets.keys \subseteq PROVIDERS
  /\ asked.sel \in PROVIDERS /\ stored \in BOOLEAN
  /\ cli \in {"idle", "open", "write"} /\ commands \in 0..MaxCommands
  /\ at \in {"config", "call", "request", "answer", "provider", "fallback", "dead"}

(* A configuration that parses holds exactly what the finished commands    *)
(* asked for: a command that edits one provider, is refused or is cut off  *)
(* never loses another provider's settings or the selection.               *)
SettingsKept ==
  config.whole => load_provider_config = asked

(* A provider selected by a login that stored its key is never selected    *)
(* without it: login_provider writes the secret before the selection, so   *)
(* no interruption and no analyzer round in between sees one without the   *)
(* other.                                                                  *)
KeyBeforeSelection ==
  (config.whole /\ stored /\ secrets.whole) => config.sel \in secrets.keys

ProviderSettings == SettingsKept /\ KeyBeforeSelection
=============================================================================

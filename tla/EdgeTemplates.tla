--------------------------- MODULE EdgeTemplates ---------------------------
(***************************************************************************)
(* The preflight of the host-edge templates, tools/validate_edge_templates *)
(* .py: an operator edits the shipped nftables, sysctl and systemd         *)
(* templates and the daemon's configuration, and the preflight accepts or  *)
(* refuses the result by reading its text.  What the accepted text then    *)
(* DOES (which packets the rules drop, whether the daemon can start and    *)
(* drain under the unit) is modelled next to it, so that the question is   *)
(* whether a reading of the text settles the behaviour.                    *)
(*                                                                         *)
(* A rule is a record: its kind (which of the template's rules it is),     *)
(* safe (its protocol is matched with meta l4proto, which skips IPv6       *)
(* extension headers), pfx (its source key is the IPv6 /64), drop (it ends *)
(* in drop), over (its connection count) and types (the ICMP types it      *)
(* accepts).  Two more kinds are the management allow rules the template   *)
(* tells operators to adjust: all traffic of the management network, and   *)
(* the TCP port AllowedPort from anywhere.                                 *)
(***************************************************************************)
EXTENDS Integers, Sequences, FiniteSets, SequencesExt, FiniteSetsExt

CONSTANT MaxEdits         \* how many edits the operator makes

ASSUME MaxEditsAssumption == MaxEdits \in Nat

VARIABLES
  tmpl,                   \* the nft template: preraw, input, ranges, sets
  sysctl,                 \* the sysctl template: key -> value, partial
  unit,                   \* the systemd unit
  cfg,                    \* the daemon's configuration
  absent,                 \* the files that do not exist
  edits,                  \* edits made so far
  verdict                 \* "none", "accepted" or "refused"

vars == <<tmpl, sysctl, unit, cfg, absent, edits, verdict>>

-----------------------------------------------------------------------------
(* The constants of the validator and of the daemon.                       *)

Unset == -1               \* a key the JSON configuration leaves out
Infinity == -2            \* systemd's "infinity"
NotInt == -3              \* a value that is no integer

DDOS_SYSCTL_RULES ==
  [tcp_syncookies |-> <<1, 1>>, tcp_max_syn_backlog |-> <<8192, 2000000000>>,
   tcp_synack_retries |-> <<1, 5>>, somaxconn |-> <<4096, 2000000000>>,
   netdev_max_backlog |-> <<10000, 2000000000>>, tcp_fin_timeout |-> <<1, 60>>,
   nf_conntrack_max |-> <<262144, 2000000000>>, timeout_syn_recv |-> <<1, 60>>]

FRAGMENT_CAPS ==
  [ipfrag_high_thresh |-> 67108864, ipfrag_time |-> 30, ipfrag_max_dist |-> 4096,
   ip6frag_high_thresh |-> 67108864, ip6frag_low_thresh |-> 2000000000,
   ip6frag_time |-> 30]

ICMP4_CONTROL == {"destination-unreachable", "time-exceeded", "parameter-problem"}
ICMP6_CONTROL == ICMP4_CONTROL \cup {"packet-too-big", "nd-router-solicit",
                   "nd-router-advert", "nd-neighbor-solicit", "nd-neighbor-advert"}

Defaulted(v, default) == IF v = Unset THEN default ELSE v

-----------------------------------------------------------------------------
(* The shipped templates.                                                  *)

AllowRules == {"allow_management", "allow_tcp"}
AllowedPort == 8080

Rule(k) == [kind |-> k, safe |-> TRUE, pfx |-> k \in {"syn6", "conn6"},
            drop |-> k \notin {"icmp4_ok", "icmp6_ok"} \cup AllowRules, over |-> 128,
            types |-> CASE k = "icmp4_ok" -> ICMP4_CONTROL
                        [] k = "icmp6_ok" -> ICMP6_CONTROL
                        [] OTHER -> {}]

Chain(kinds) == [i \in 1..Len(kinds) |-> Rule(kinds[i])]

ShippedNft ==
  [preraw |-> Chain(<<"null", "xmas", "udp", "syn4", "syn6", "global_syn">>),
   input  |-> Chain(<<"invalid", "new_non_syn", "conn4", "conn6", "global_new",
                      "icmp4_ok", "icmp4", "icmp6_ok", "icmp6">>),
   ranges |-> {<<80, 80>>, <<443, 443>>, <<8080, 8080>>},
   sets   |-> [s \in {"tcp4_connlimit", "tcp6_connlimit", "tcp4_syn_rate", "tcp6_syn_rate"} |->
                 IF s \in {"tcp4_syn_rate", "tcp6_syn_rate"}
                 THEN [flags |-> {"dynamic", "timeout"}, size |-> 65535, timeout |-> 10]
                 ELSE [flags |-> {"dynamic"}, size |-> 65535, timeout |-> 0]]]

ShippedSysctl ==
  [tcp_syncookies |-> 1, tcp_max_syn_backlog |-> 16384, tcp_synack_retries |-> 3,
   somaxconn |-> 65535, netdev_max_backlog |-> 250000, tcp_fin_timeout |-> 15,
   nf_conntrack_max |-> 1048576, timeout_syn_recv |-> 30,
   ipfrag_high_thresh |-> 4194304, ipfrag_time |-> 15, ipfrag_max_dist |-> 64,
   ip6frag_high_thresh |-> 4194304, ip6frag_low_thresh |-> 3145728, ip6frag_time |-> 15]

ShippedUnit == [missing |-> {}, weak |-> {}, nofile |-> 1048576, soft |-> Unset, stop |-> 15000,
                tasks |-> 32768, high |-> 2, max |-> 3]

ExampleConfig ==
  [http |-> [public |-> FALSE, port |-> 8080, shards |-> 4, conns |-> 10000,
             flight |-> 8192, idle |-> 256, perIp |-> 1024, backlog |-> 4096],
   tcp  |-> [public |-> FALSE, port |-> 7000, shards |-> 4, conns |-> 10000,
             perIp |-> 128, backlog |-> 4096],
   grace |-> 2000, floor |-> 65536]

-----------------------------------------------------------------------------
(* The validator.  Each operator is the set of complaints one validate_    *)
(* function returns; a complaint is named, not worded.                     *)

Complaint(bad, name) == IF bad THEN {name} ELSE {}

\* a contiguous pattern of one rule: the protocol match, the body, the verdict
HasRule(chain, k) == \E i \in DOMAIN chain : chain[i].kind = k /\ chain[i].safe /\ chain[i].drop

\* "limit rate over .* drop" is searched in the chain's joined text, so the
\* drop it finds may be a later rule's
HasLimitRule(chain, k) ==
  \E i, j \in DOMAIN chain : i <= j /\ chain[i].kind = k /\ chain[i].safe /\ chain[j].drop

position(chain, k) == Min({i \in DOMAIN chain : chain[i].kind = k} \cup {Len(chain) + 1})

port_in_ranges(port, ranges) == \E r \in ranges : r[1] <= port /\ port <= r[2]

validate_protected_tcp_ports(t) ==
  Complaint(t.ranges = {}, "no_ports")
    \cup Complaint(\E r \in t.ranges : r[1] < 1 \/ r[2] > 65535 \/ r[1] > r[2], "bad_range")

validate_udp_protected_port_drop(t) == Complaint(~HasRule(t.preraw, "udp"), "udp")

validate_generic_tcp_backstop_protocol_matches(t) ==
  {k \in {"null", "xmas"} : ~HasRule(t.preraw, k)}
    \cup {k \in {"new_non_syn"} : ~HasRule(t.input, k)}
    \cup {k \in {"global_syn"} : ~HasLimitRule(t.preraw, k)}
    \cup {k \in {"global_new"} : ~HasLimitRule(t.input, k)}

\* Mutant: only the SYN rule has to count by prefix.
validate_ipv6_prefix_backstops_syn(t) ==
  Complaint(~\E i \in DOMAIN t.preraw : t.preraw[i].kind = "syn6" /\ t.preraw[i].pfx, "syn6_prefix")

validate_ipv6_prefix_backstops(t) ==
  Complaint(~\E i \in DOMAIN t.preraw : t.preraw[i].kind = "syn6" /\ t.preraw[i].pfx, "syn6_prefix")
    \cup Complaint(~\E i \in DOMAIN t.input : t.input[i].kind = "conn6" /\ t.input[i].pfx, "conn6_prefix")

validate_ipv6_extension_safe_protocol_matches(t) ==
  Complaint(~\E i \in DOMAIN t.preraw : t.preraw[i].kind = "syn6" /\ t.preraw[i].safe, "syn6_safe")
    \cup {k \in {"conn6", "icmp6"} :
            ~\E i \in DOMAIN t.input : t.input[i].kind = k /\ t.input[i].safe}


\* the exemption must exist, list the control types, and stand before the drop
icmp_control_errors(chain, ok, flood, required) ==
  LET exempt == {i \in DOMAIN chain : chain[i].kind = ok /\ chain[i].safe}
  IN  IF exempt = {}
      THEN {ok}
      ELSE Complaint(~(required \subseteq chain[Min(exempt)].types), ok \o "_types")
             \cup Complaint(~HasLimitRule(chain, flood), flood)
             \cup Complaint(Min(exempt) > position(chain, flood), ok \o "_late")

validate_icmpv4_control_exemption(t) ==
  icmp_control_errors(t.input, "icmp4_ok", "icmp4", ICMP4_CONTROL)

validate_icmpv6_control_exemption(t) ==
  icmp_control_errors(t.input, "icmp6_ok", "icmp6", ICMP6_CONTROL)

set_size_errors(t, s) ==
  Complaint("dynamic" \notin t.sets[s].flags, s \o "_dynamic")
    \cup Complaint(t.sets[s].size \notin 1..1048576, s \o "_size")

validate_connlimit_set_sizes(t) ==
  UNION {IF s \in DOMAIN t.sets THEN set_size_errors(t, s) ELSE {s} :
           s \in {"tcp4_connlimit", "tcp6_connlimit"}}

validate_syn_rate_set_bounds(t) ==
  UNION {IF s \in DOMAIN t.sets
         THEN set_size_errors(t, s)
                \cup Complaint("timeout" \notin t.sets[s].flags, s \o "_timeout_flag")
                \cup Complaint(t.sets[s].timeout \notin 1..60, s \o "_timeout")
         ELSE {s} : s \in {"tcp4_syn_rate", "tcp6_syn_rate"}}

\* the per-address caps of the public listeners, absent keys defaulted
public_listener_connection_caps(c) ==
  {Defaulted(c.http.perIp, 1024) : x \in {TRUE} \cap {c.http.public}}
    \cup {Defaulted(c.tcp.perIp, 128) : x \in {TRUE} \cap {c.tcp.public}}

protected_port_connlimit_ceiling(caps) == IF caps = {} THEN 128 ELSE Min(caps)

validate_connlimit_thresholds(t, c) ==
  LET caps == IF "config" \in absent THEN {} ELSE public_listener_connection_caps(c)
      rules == {i \in DOMAIN t.input : t.input[i].kind \in {"conn4", "conn6"}}
  IN  IF \E cap \in caps : cap <= 0
      THEN {"cap"}
      ELSE {k \in {"conn4", "conn6"} : ~\E i \in rules : t.input[i].kind = k}
             \cup Complaint(\E i \in rules :
                    t.input[i].over > protected_port_connlimit_ceiling(caps), "over")

validate_ddos_sysctls(y) ==
  {k \in DOMAIN DDOS_SYSCTL_RULES :
     \/ k \notin DOMAIN y
     \/ y[k] < DDOS_SYSCTL_RULES[k][1] \/ y[k] > DDOS_SYSCTL_RULES[k][2]}

\* only a backlog the configuration spells out is compared
max_config_backlog(c) == Max({c.http.backlog, c.tcp.backlog})

validate_backlog(y, c) ==
  Complaint(/\ "config" \notin absent
            /\ max_config_backlog(c) # Unset
            /\ max_config_backlog(c) > IF "somaxconn" \in DOMAIN y THEN y["somaxconn"] ELSE 0,
            "backlog")

validate_fragment_sysctls(y) ==
  IF ~(DOMAIN FRAGMENT_CAPS \subseteq DOMAIN y)
  THEN {"fragment_missing"}
  ELSE {k \in DOMAIN FRAGMENT_CAPS : y[k] <= 0 \/ y[k] > FRAGMENT_CAPS[k]}
         \cup Complaint(/\ 0 < y["ip6frag_high_thresh"]
                        /\ y["ip6frag_low_thresh"] > y["ip6frag_high_thresh"], "low_thresh")

config_min_nofile(c) == Max({65536, IF "config" \in absent THEN 0 ELSE c.floor})

config_shutdown_grace_seconds(c) == IF "config" \in absent \/ c.grace = Unset THEN 0 ELSE c.grace

config_capacity_value(c) ==
  {Defaulted(c.http.shards, 1), Defaulted(c.http.conns, 10000), Defaulted(c.http.flight, 8192),
   Defaulted(c.http.idle, 256), Defaulted(c.tcp.shards, 1), Defaulted(c.tcp.conns, 10000)}

\* Mutant: a relayed connection is counted with one descriptor.
config_nofile_capacity_requirement_one(c) ==
  256 + Defaulted(c.http.shards, 1) + Defaulted(c.http.conns, 10000)
      + Defaulted(c.http.flight, 8192) + Defaulted(c.http.idle, 256)
      + Defaulted(c.tcp.shards, 1) + Defaulted(c.tcp.conns, 10000)

config_nofile_capacity_requirement(c) ==
  256 + Defaulted(c.http.shards, 1) + Defaulted(c.http.conns, 10000)
      + Defaulted(c.http.flight, 8192) + Defaulted(c.http.idle, 256)
      + Defaulted(c.tcp.shards, 1) + 2 * Defaulted(c.tcp.conns, 10000)

nofile_errors(u, c) ==
  LET bad == "config" \notin absent /\ \E v \in config_capacity_value(c) : v <= 0
      required == IF "config" \in absent \/ bad
                  THEN config_min_nofile(c)
                  ELSE Max({config_min_nofile(c), config_nofile_capacity_requirement(c)})
  IN  Complaint(bad, "capacity")
        \cup Complaint(u.nofile # Infinity /\ u.nofile < required, "nofile")

validate_systemd_unit(u, c) ==
  u.missing \cup u.weak \cup nofile_errors(u, c)
    \cup Complaint(u.stop # Infinity /\ u.stop <= config_shutdown_grace_seconds(c), "stop")
    \cup Complaint(u.tasks \notin 1..32768, "tasks")
    \cup Complaint(u.high = Infinity \/ u.max = Infinity \/ u.high > u.max, "memory")

config_public_listener_ports(c) == {l.port : l \in {k \in {c.http, c.tcp} : k.public}}

validate_edge_port_coverage(t, c) ==
  Complaint(/\ "config" \notin absent
            /\ \E p \in config_public_listener_ports(c) : ~port_in_ranges(p, t.ranges),
            "uncovered")

\* main: every validator runs; a file that is missing is a complaint of its
\* own, however many validators report it, and the others skip it.  What only
\* the host can tell, nft's own opinion of the syntax and whether the kernel
\* knows a sysctl key, is left out: it can but add a complaint.
hard_errors ==
  (absent \ {"config"})
    \cup (IF "nft" \in absent THEN {} ELSE
            validate_protected_tcp_ports(tmpl) \cup validate_udp_protected_port_drop(tmpl)
              \cup validate_generic_tcp_backstop_protocol_matches(tmpl)
              \cup validate_ipv6_prefix_backstops(tmpl)
              \cup validate_ipv6_extension_safe_protocol_matches(tmpl)
              \cup validate_icmpv4_control_exemption(tmpl)
              \cup validate_icmpv6_control_exemption(tmpl) \cup validate_connlimit_set_sizes(tmpl)
              \cup validate_connlimit_thresholds(tmpl, cfg) \cup validate_syn_rate_set_bounds(tmpl)
              \cup validate_edge_port_coverage(tmpl, cfg))
    \cup (IF "sysctl" \in absent THEN {} ELSE
            validate_ddos_sysctls(sysctl) \cup validate_backlog(sysctl, cfg)
              \cup validate_fragment_sysctls(sysctl))
    \cup (IF "unit" \in absent THEN {} ELSE validate_systemd_unit(unit, cfg))

-----------------------------------------------------------------------------
(* What the accepted files do: the daemon's startup checks of its          *)
(* descriptor limit (src/resource_limits.rs) and nftables' evaluation of a *)
(* packet, which is outside the repository.                                *)

grace_ms(c) == Defaulted(c.grace, 2000)
listen_backlog(l) == Defaulted(l.backlog, 4096)

hard_limit(u) == IF u.nofile = Infinity THEN 2000000000 ELSE u.nofile

\* systemd starts the daemon with soft = hard unless the unit gives both
soft_limit(u) == IF u.soft = Unset THEN hard_limit(u) ELSE Min({u.soft, hard_limit(u)})

validate_capacity_inputs(c) ==
  \A l \in {"http", "tcp"} : Defaulted(c[l].conns, 10000) # 0

\* no cap on requests in flight means one for each connection
estimate_nofile_capacity(c) ==
  LET downstream == Defaulted(c.http.conns, 10000)
      in_flight == Defaulted(c.http.flight, 8192)
  IN  256 + Max({1, Defaulted(c.http.shards, 1)}) + Max({1, Defaulted(c.tcp.shards, 1)})
          + downstream + (IF in_flight = 0 THEN downstream ELSE in_flight)
          + Defaulted(c.http.idle, 256)
          + Defaulted(c.tcp.conns, 10000) + Defaulted(c.tcp.conns, 10000)

\* apply_nofile_floor raises the soft limit to the floor, never past it
raised_soft_limit(u, c) == Max({soft_limit(u), Min({hard_limit(u), Defaulted(c.floor, 0)})})

startup_passes(u, c) ==
  \/ Defaulted(c.floor, 0) = 0
  \/ /\ Defaulted(c.floor, 0) <= raised_soft_limit(u, c)
     /\ validate_capacity_inputs(c)
     /\ estimate_nofile_capacity(c) <= raised_soft_limit(u, c)

\* a packet: what it is, whether extension headers precede its payload, where
\* it comes from, and the port or the ICMP type it carries
Sources == {"management", "public"}
Segments == {"null", "xmas", "new_non_syn"}

Opening(port) ==
  [is : Segments \cup {"udp"}, ext : BOOLEAN, src : Sources, port : {port}]

Control ==
  [is : {"icmp4"}, ext : {FALSE}, src : Sources, type : ICMP4_CONTROL]
    \cup [is : {"icmp6"}, ext : BOOLEAN, src : Sources, type : ICMP6_CONTROL]

\* the template's TCP and UDP rules are for the protected ports only
nft_matches(r, p) ==
  \/ r.kind = "allow_management" /\ p.src = "management"
  \/ r.kind = "allow_tcp" /\ p.is \in Segments /\ p.port = AllowedPort
  \/ /\ p.ext => r.safe
     /\ \/ r.kind = p.is /\ ("port" \in DOMAIN p => port_in_ranges(p.port, tmpl.ranges))
        \/ r.kind = p.is \o "_ok" /\ p.type \in r.types

\* the first rule of a chain that matches and has a verdict ends the chain; a
\* packet it accepts goes on to the next hook's chain, and both chains let
\* pass what no rule drops
nft_drops(chain, p) ==
  LET hits == {i \in DOMAIN chain : /\ nft_matches(chain[i], p)
                                    /\ chain[i].drop
                                       \/ chain[i].kind \in {"icmp4_ok", "icmp6_ok"} \cup AllowRules}
  IN  hits # {} /\ chain[Min(hits)].drop

nft_dropped(p) == nft_drops(tmpl.preraw, p) \/ nft_drops(tmpl.input, p)

nft_allowed(p) ==
  \E c \in {"preraw", "input"} : \E i \in DOMAIN tmpl[c] :
    tmpl[c][i].kind \in AllowRules /\ nft_matches(tmpl[c][i], p)

-----------------------------------------------------------------------------
(* The operator's edits and the preflight.                                 *)

Init ==
  /\ tmpl = ShippedNft /\ sysctl = ShippedSysctl /\ unit = ShippedUnit
  /\ cfg = ExampleConfig /\ absent = {}
  /\ edits = 0 /\ verdict = "none"

Edit == edits < MaxEdits /\ verdict = "none" /\ edits' = edits + 1 /\ UNCHANGED verdict

EditChain(c, chain) ==
  /\ tmpl' = [tmpl EXCEPT ![c] = chain]
  /\ UNCHANGED <<sysctl, unit, cfg, absent>>

DeleteRule ==
  /\ Edit
  /\ \E c \in {"preraw", "input"} : \E i \in DOMAIN tmpl[c] : EditChain(c, RemoveAt(tmpl[c], i))

SwapRules ==
  /\ Edit
  /\ \E c \in {"preraw", "input"} : \E i \in 1..(Len(tmpl[c]) - 1) :
       EditChain(c, [tmpl[c] EXCEPT ![i] = tmpl[c][i + 1], ![i + 1] = tmpl[c][i]])

\* "Install only after adjusting protected_tcp_ports and management allow rules"
InsertAllowRule ==
  /\ Edit
  /\ \E c \in {"preraw", "input"} : \E i \in 1..(Len(tmpl[c]) + 1), k \in AllowRules :
       EditChain(c, InsertAt(tmpl[c], i, Rule(k)))

WeakenRule ==
  /\ Edit
  /\ \E c \in {"preraw", "input"} : \E i \in DOMAIN tmpl[c] :
       \/ EditChain(c, [tmpl[c] EXCEPT ![i].safe = FALSE])
       \/ EditChain(c, [tmpl[c] EXCEPT ![i].pfx = FALSE])
       \/ EditChain(c, [tmpl[c] EXCEPT ![i].drop = FALSE])
       \/ \E n \in {64, 129, 1024} : EditChain(c, [tmpl[c] EXCEPT ![i].over = n])
       \/ \E t \in tmpl[c][i].types : EditChain(c, [tmpl[c] EXCEPT ![i].types = @ \ {t}])

EditPorts ==
  /\ Edit
  /\ \E r \in {{}, {<<80, 80>>}, {<<7000, 8080>>}, {<<7001, 8079>>}, {<<8080, 7000>>}} :
       tmpl' = [tmpl EXCEPT !.ranges = r]
  /\ UNCHANGED <<sysctl, unit, cfg, absent>>

EditSet ==
  /\ Edit
  /\ \E s \in DOMAIN tmpl.sets :
       \/ \E f \in tmpl.sets[s].flags : tmpl' = [tmpl EXCEPT !.sets[s].flags = @ \ {f}]
       \/ \E n \in {0, 1048576, 1048577} : tmpl' = [tmpl EXCEPT !.sets[s].size = n]
       \/ \E n \in {0, 60, 61} : tmpl' = [tmpl EXCEPT !.sets[s].timeout = n]
       \/ tmpl' = [tmpl EXCEPT !.sets = [x \in DOMAIN @ \ {s} |-> @[x]]]
  /\ UNCHANGED <<sysctl, unit, cfg, absent>>

EditSysctl ==
  /\ Edit
  /\ \/ \E k \in DOMAIN sysctl, n \in {NotInt, 0, 1, 61, 4095, 4096, 67108865} :
          sysctl' = [sysctl EXCEPT ![k] = n]
     \/ \E k \in DOMAIN sysctl : sysctl' = [x \in DOMAIN sysctl \ {k} |-> sysctl[x]]
  /\ UNCHANGED <<tmpl, unit, cfg, absent>>

EditUnit ==
  /\ Edit
  /\ \/ \E n \in {1024, 65536, 98256, 98257, Infinity} : unit' = [unit EXCEPT !.nofile = n]
     \/ \E n \in {1024, 65536} : unit' = [unit EXCEPT !.soft = n]
     \/ \E n \in {0, 1000, 2000, Infinity} : unit' = [unit EXCEPT !.stop = n]
     \/ \E n \in {0, 32769} : unit' = [unit EXCEPT !.tasks = n]
     \/ \E n \in {4, Infinity} : unit' = [unit EXCEPT !.high = n]
     \/ unit' = [unit EXCEPT !.missing = {"ExecStart"}]
     \/ unit' = [unit EXCEPT !.weak = {"User"}]
  /\ UNCHANGED <<tmpl, sysctl, cfg, absent>>

EditConfig ==
  /\ Edit
  /\ \/ \E l \in {"http", "tcp"} :
          \/ cfg' = [cfg EXCEPT ![l].public = TRUE]
          \/ \E n \in {Unset, 0, 69545} : cfg' = [cfg EXCEPT ![l].conns = n]
          \/ \E n \in {Unset, 0, 64} : cfg' = [cfg EXCEPT ![l].perIp = n]
          \/ \E n \in {Unset, 8192} : cfg' = [cfg EXCEPT ![l].backlog = n]
     \/ \E n \in {Unset, 14999, 15000} : cfg' = [cfg EXCEPT !.grace = n]
     \/ \E n \in {Unset, 131072} : cfg' = [cfg EXCEPT !.floor = n]
  /\ UNCHANGED <<tmpl, sysctl, unit, absent>>

RemoveFile ==
  /\ Edit
  /\ \E f \in {"nft", "sysctl", "unit", "config"} \ absent : absent' = absent \cup {f}
  /\ UNCHANGED <<tmpl, sysctl, unit, cfg>>

\* main
Preflight ==
  /\ verdict = "none"
  /\ verdict' = IF hard_errors = {} THEN "accepted" ELSE "refused"
  /\ UNCHANGED <<tmpl, sysctl, unit, cfg, absent, edits>>

Next ==
  \/ DeleteRule \/ SwapRules \/ InsertAllowRule \/ WeakenRule \/ EditPorts \/ EditSet
  \/ EditSysctl \/ EditUnit \/ EditConfig \/ RemoveFile \/ Preflight

Spec == Init /\ [][Next]_vars

-----------------------------------------------------------------------------
(* Properties.                                                             *)

TypeOK ==
  /\ absent \subseteq {"nft", "sysctl", "unit", "config"}
  /\ edits \in 0..MaxEdits /\ verdict \in {"none", "accepted", "refused"}


\* An accepted set of files suits the daemon it is for, defaults included: it
\* starts under the unit's descriptor limit, or is held back only by a soft
\* limit the unit set lower than the hard one; every listener's backlog fits
\* somaxconn; a drain whose length the configuration gives ends before systemd
\* kills it; and the host's connection cap is no looser than a public
\* listener's own.
AcceptedFitsDaemon ==
  (verdict = "accepted" /\ "config" \notin absent) =>
    /\ startup_passes(unit, cfg) \/ (unit.soft # Unset /\ unit.soft < hard_limit(unit))
    /\ Max({estimate_nofile_capacity(cfg), Defaulted(cfg.floor, 0)}) <= hard_limit(unit)
    /\ \A l \in {cfg.http, cfg.tcp} : listen_backlog(l) <= sysctl["somaxconn"]
    /\ unit.stop # Infinity /\ cfg.grace # Unset => unit.stop > grace_ms(cfg)
    /\ \A i \in DOMAIN tmpl.input : tmpl.input[i].kind \in {"conn4", "conn6"} =>
         /\ cfg.http.public => tmpl.input[i].over <= Defaulted(cfg.http.perIp, 1024)
         /\ cfg.tcp.public => tmpl.input[i].over <= Defaulted(cfg.tcp.perIp, 128)
=============================================================================

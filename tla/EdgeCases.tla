------------------------------ MODULE EdgeCases ------------------------------
(***************************************************************************)
(* The probe run_local_bench.py makes of the edge-template preflight: it   *)
(* writes a configuration, an nftables, a sysctl and a systemd file, runs  *)
(* the validator of EdgeTemplates, overwrites some of the files and runs   *)
(* it again, case after case.  The files are shared by all cases, so a     *)
(* case is judged on what every case before it left behind.                *)
(***************************************************************************)
EXTENDS EdgeTemplates

VARIABLES
  bench,                  \* the probe's next case, 0 when no probe runs
  judged                  \* the complaints of each run of the validator

probeVars == <<bench, judged>>

-----------------------------------------------------------------------------
(* The generated files.  off is the set of keyword arguments given the     *)
(* other than their default value.                                         *)

Where(o, off, s) == IF o \in off THEN s ELSE {}

edge_nft_template(ports, off, connlimit_count) ==
  LET unsafe == Where("generic_tcp_l4proto", off,
                      {"null", "xmas", "global_syn", "new_non_syn", "global_new"})
                  \cup Where("ipv6_syn_l4proto", off, {"syn6"})
                  \cup Where("ipv6_connlimit_l4proto", off, {"conn6"})
                  \cup Where("ipv6_icmp_l4proto", off, {"icmp6"})
      wide == Where("ipv6_prefix_syn", off, {"syn6"})
                \cup Where("ipv6_prefix_connlimit", off, {"conn6"})
      gone == Where("include_udp_drop", off, {"udp"})
                \cup Where("include_icmpv4_control_exemption", off, {"icmp4_ok"})
                \cup Where("include_icmpv6_control_exemption", off, {"icmp6_ok"})
      Rules(kinds) ==
        LET kept == SelectSeq(kinds, LAMBDA k : k \notin gone)
        IN  [i \in DOMAIN kept |->
               [Rule(kept[i]) EXCEPT !.safe = kept[i] \notin unsafe,
                  !.pfx = @ /\ kept[i] \notin wide, !.over = connlimit_count]]
      Icmp(ok, flood, late) == IF late \in off THEN <<flood, ok>> ELSE <<ok, flood>>
      sized(s) == IF s \in {"tcp4_connlimit", "tcp6_connlimit"}
                  THEN "connlimit_set_size" \notin off ELSE "syn_rate_set_size" \notin off
  IN  [preraw |-> Rules(<<"null", "xmas", "udp", "syn4", "syn6", "global_syn">>),
       input  |-> Rules(<<"new_non_syn", "conn4", "conn6", "global_new">>
                    \o Icmp("icmp4_ok", "icmp4", "icmpv4_control_after_drop")
                    \o Icmp("icmp6_ok", "icmp6", "icmpv6_control_after_drop")),
       ranges |-> {<<p, p>> : p \in ports},
       sets   |-> [s \in DOMAIN ShippedNft.sets |->
                     [ShippedNft.sets[s] EXCEPT
                        !.size = IF sized(s) THEN @ ELSE Unset,
                        !.flags = @ \ Where("syn_rate_set_timeout", off, {"timeout"}),
                        !.timeout = IF "syn_rate_set_timeout" \in off THEN 0 ELSE @]]]

edge_sysctl_template(overrides) ==
  [k \in DOMAIN ShippedSysctl |->
     IF k \in DOMAIN overrides THEN overrides[k] ELSE ShippedSysctl[k]]

edge_systemd_unit_template(nofile, weak) ==
  [ShippedUnit EXCEPT !.nofile = nofile, !.weak = weak]

Listeners(public) ==
  [http |-> [public |-> public, port |-> 8080, shards |-> Unset, conns |-> Unset,
             flight |-> Unset, idle |-> Unset, perIp |-> Unset, backlog |-> 4096],
   tcp  |-> [public |-> public, port |-> 7000, shards |-> Unset, conns |-> Unset,
             perIp |-> Unset, backlog |-> 4096],
   grace |-> Unset, floor |-> Unset]

public_config == Listeners(TRUE)

high_capacity_config ==
  [public_config EXCEPT !.floor = 65536, !.http.idle = 1000, !.http.conns = 40000,
                        !.http.flight = 40000, !.tcp.conns = 20000]

-----------------------------------------------------------------------------
(* The cases in the order of the code: the files written before the run    *)
(* (a function of the files that are written), and the complaints the case *)
(* provokes, none where it wants the files accepted.                       *)

Covered == {80, 443, 7000, 8080}
Nft(off, count) == edge_nft_template(Covered, off, count)
Unit(nofile, weak) == edge_systemd_unit_template(nofile, weak)
Case(files, flaws) == <<[files |-> files, flaws |-> flaws]>>
Weaken(o, flaws) == Case([nft |-> Nft({o}, 128)], flaws)

CapacityCases ==
  Case([nft |-> edge_nft_template(Covered \ {7000}, {}, 128), sysctl |-> edge_sysctl_template(<<>>),
        unit |-> Unit(1048576, {}), config |-> public_config], {"uncovered"})
  \o Case([nft |-> Nft({}, 128)], {})
  \o Case([config |-> high_capacity_config, unit |-> Unit(65536, {})], {"nofile"})
  \o Case([unit |-> Unit(200000, {})], {})
  \o Case([unit |-> Unit(1048576, {}), config |-> [public_config EXCEPT !.tcp.perIp = 64],
           nft |-> Nft({}, 128)], {"over"})
  \o Case([nft |-> Nft({}, 64)], {})

NftCases ==
  Case([config |-> public_config, nft |-> Nft({"include_udp_drop"}, 128)], {"udp"})
  \o Weaken("generic_tcp_l4proto", {"null", "xmas", "new_non_syn", "global_syn", "global_new"})
  \o Weaken("ipv6_prefix_syn", {"syn6_prefix"})
  \o Weaken("ipv6_prefix_connlimit", {"conn6_prefix"})
  \o Weaken("ipv6_syn_l4proto", {"syn6_safe"})
  \o Weaken("ipv6_connlimit_l4proto", {"conn6"})
  \o Weaken("ipv6_icmp_l4proto", {"icmp6"})
  \o Weaken("include_icmpv4_control_exemption", {"icmp4_ok"})
  \o Weaken("icmpv4_control_after_drop", {"icmp4_ok_late"})
  \o Weaken("include_icmpv6_control_exemption", {"icmp6_ok"})
  \o Weaken("icmpv6_control_after_drop", {"icmp6_ok_late"})
  \o Weaken("connlimit_set_size", {"tcp4_connlimit_size", "tcp6_connlimit_size"})
  \o Weaken("syn_rate_set_size", {"tcp4_syn_rate_size", "tcp6_syn_rate_size"})
  \o Weaken("syn_rate_set_timeout",
            {s \o f : s \in {"tcp4_syn_rate", "tcp6_syn_rate"}, f \in {"_timeout", "_timeout_flag"}})

SysctlCases ==
  Case([nft |-> Nft({}, 128), sysctl |-> [somaxconn |-> 65535]],
       {"fragment_missing"} \cup (DOMAIN DDOS_SYSCTL_RULES \ {"somaxconn"}))
  \o Case([sysctl |-> edge_sysctl_template([ipfrag_time |-> 60])], {"ipfrag_time"})
  \o Case([sysctl |-> edge_sysctl_template([ip6frag_low_thresh |-> 8388608,
                                            ip6frag_high_thresh |-> 4194304])], {"low_thresh"})

UnitCases ==
  Case([sysctl |-> edge_sysctl_template(<<>>), unit |-> Unit(1024, {})], {"nofile"})
  \o Case([unit |-> Unit(1048576, {"ProtectSystem"})], {"ProtectSystem"})
  \o Case([unit |-> Unit(1048576, {"AmbientCapabilities"})], {"AmbientCapabilities"})
  \o Case([unit |-> Unit(1048576, {}), config |-> Listeners(FALSE),
           nft |-> edge_nft_template(Covered \ {7000}, {}, 128)], {})

Cases == CapacityCases \o NftCases \o SysctlCases \o UnitCases

\* what a case reports of itself: accepted, or refused with its own message
case_holds(i) == IF Cases[i].flaws = {} THEN judged[i] = {}
                 ELSE judged[i] \cap Cases[i].flaws # {}

\* the report's section as assert_local_bench.py requires it
edge_template_port_coverage == \A i \in DOMAIN judged : case_holds(i)

-----------------------------------------------------------------------------
OperatorInit == Init /\ bench = 0 /\ judged = <<>>

ProbeInit == Init /\ bench = 1 /\ judged = <<>>

Operator == bench = 0 /\ Next /\ UNCHANGED probeVars

Written(f, old) == IF f \in DOMAIN Cases[bench].files THEN Cases[bench].files[f] ELSE old

\* run_validator after the writes of one case
run_validator ==
  /\ bench \in 1..Len(Cases)
  /\ tmpl' = Written("nft", tmpl) /\ sysctl' = Written("sysctl", sysctl)
  /\ unit' = Written("unit", unit) /\ cfg' = Written("config", cfg)
  /\ UNCHANGED <<absent, edits>>
  /\ judged' = Append(judged, hard_errors')
  /\ verdict' = IF hard_errors' = {} THEN "accepted" ELSE "refused"
  /\ bench' = bench + 1

EdgeInit == OperatorInit \/ ProbeInit

EdgeNext == Operator \/ run_validator

-----------------------------------------------------------------------------
\* Every case of run_edge_template_port_coverage_probe holds, and for its own
\* reason alone: the validator complains of what the case weakened and of
\* nothing an earlier case left in the shared files.
CasesIsolated ==
  edge_template_port_coverage /\ \A i \in DOMAIN judged : judged[i] = Cases[i].flaws
=============================================================================

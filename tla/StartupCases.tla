---------------------------- MODULE StartupCases ----------------------------
(***************************************************************************)
(* The configurations the startup probes of src/tools/run_local_bench.py   *)
(* hand to the daemon, each with the refusal the probe expects: the path   *)
(* and the message it searches for in the process's stderr.  One           *)
(* definition per probe; a probe runs its cases one after the other.       *)
(***************************************************************************)
EXTENDS ConfigRules

Base == [file |-> "regular", http |-> TRUE, tcp |-> FALSE, public |-> FALSE,
         num |-> <<>>, txt |-> <<>>,
         ulimit |-> [soft |-> 1024, hard |-> 1048576]]

Case(probe, c, path, reason, at) ==
  [probe |-> probe, cfg |-> c, path |-> path, reason |-> reason, at |-> at]

Num(probe, path, v, reason) ==
  Case(probe, [Base EXCEPT !.num = path :> v], path, reason, 0)

TcpNum(probe, path, v, reason) ==
  Case(probe, [Base EXCEPT !.http = FALSE, !.tcp = TRUE, !.num = path :> v],
       path, reason, 0)

Above(probe, path, max) == Num(probe, path, max + 1, "ceiling")
TcpAbove(probe, path, max) == TcpNum(probe, path, max + 1, "ceiling")

Entry(name, len, flaws) == [name |-> name, len |-> len, flaws |-> flaws]
Entries(n) == [i \in 1..n |-> Entry(ToString(i), 8, {})]

Txt(probe, path, es, reason, at) ==
  Case(probe, [Base EXCEPT !.txt = path :> es], path, reason, at)

One(probe, path, flaws, reason) ==
  Txt(probe, path, <<Entry("entry", 8, flaws)>>, reason, 0)

Long(probe, path, len, flaws) ==
  Txt(probe, path, <<Entry("entry", len, flaws)>>, "long", 0)

Many(probe, path, n) == Txt(probe, path, Entries(n), "count", n)

(* The probes of the filters and adaptive sections configure no listener.  *)
Bare(case) == [case EXCEPT !.cfg.http = FALSE]

Twice(probe, path) ==
  Txt(probe, path, <<Entry("entry", 8, {}), Entry("entry", 8, {})>>,
      "duplicate", 1)

-----------------------------------------------------------------------------
run_runtime_nofile_capacity_probe ==
  { Case("nofile_capacity",
         [Base EXCEPT !.ulimit = [soft |-> 1024, hard |-> 1024],
            !.num = [p \in {"runtime.min_nofile"} |-> 1024]
                      @@ ("http.limits.max_connections" :> 1500)
                      @@ ("http.limits.max_in_flight_requests" :> 1000)
                      @@ ("http.upstream_pool_max_idle_per_host" :> 512)],
         "runtime.min_nofile", "capacity", 3269) }

run_trusted_proxy_global_trust_startup_probe ==
  { Case("global_trust",
         [Base EXCEPT !.public = TRUE,
            !.txt = "http.client_ip.trusted_proxies"
                      :> <<Entry("0.0.0.0/0", 9, {"all"})>>],
         "http.client_ip.trusted_proxies", "all", 0) }

run_negative_rate_startup_probe ==
  { Num("negative_rate", "http.limits.per_ip_rps", -1, "finite"),
    TcpNum("negative_rate", "tcp[0].limits.global_connects_per_second", -1,
           "finite") }

run_admin_prefix_startup_probe ==
  { One("admin_prefix", "http.admin_path_prefix", {"root"}, "root"),
    One("admin_prefix", "http.admin_path_prefix", {"relative"}, "relative"),
    One("admin_prefix", "http.admin_path_prefix", {"query"}, "query") }

run_admin_token_startup_probe ==
  { One("admin_token", "http.admin_token", {"empty"}, "empty"),
    One("admin_token", "http.admin_token", {"blank", "padded"}, "blank"),
    One("admin_token", "http.admin_token", {"padded"}, "padded"),
    One("admin_token", "http.admin_token", {"control"}, "control"),
    Long("admin_token", "http.admin_token", 257, {}) }

run_zero_capacity_startup_probe ==
  { Num("zero_capacity", p, 0, "zero") :
      p \in {"http.limits.max_connections", "http.max_header_bytes",
             "http.client_ip.max_forwarded_for_hops",
             "http.upstream_connect_timeout_ms"} }
  \cup { TcpNum("zero_capacity", "tcp[0].limits.max_connections", 0, "zero") }

HeaderBuffers == {"http.max_header_bytes", "http.upstream_max_header_bytes"}

run_header_buffer_floor_startup_probe ==
  { Num("header_floor", p, 8191, "floor") : p \in HeaderBuffers }

run_header_buffer_ceiling_startup_probe ==
  { Above("header_ceiling", p, 262144) : p \in HeaderBuffers }

run_header_count_ceiling_startup_probe ==
  { Above("header_count", p, 1024) :
      p \in {"http.max_headers", "http.upstream_max_headers"} }

run_http_metadata_ceiling_startup_probe ==
  { Above("metadata", "http.max_host_bytes", 1024),
    Above("metadata", "http.max_uri_bytes", 65536),
    Above("metadata", "http.max_query_bytes", 65536),
    Above("metadata", "http.max_query_pairs", 8192),
    Above("metadata", "http.max_path_segments", 4096),
    Above("metadata", "http.max_trailer_bytes", 262144),
    Above("metadata", "http.max_trailers", 1024),
    Above("metadata", "http.upstream_max_trailer_bytes", 262144),
    Above("metadata", "http.upstream_max_trailers", 1024),
    Above("metadata", "http.client_ip.max_forwarded_for_bytes", 16384),
    Above("metadata", "http.client_ip.max_forwarded_for_hops", 256) }

run_header_read_timeout_ceiling_startup_probe ==
  { Above("header_read", "http.header_read_timeout_ms", 60000) }

run_upstream_timeout_ceiling_startup_probe ==
  { Above("upstream_timeout", "http.upstream_timeout_ms", 60000) }

run_upstream_failure_circuit_ceiling_startup_probe ==
  { Above("circuit", "http.upstream_failure_threshold", 1024),
    Above("circuit", "http.upstream_failure_open_ms", 300000) }

run_http_stream_timeout_ceiling_startup_probe ==
  { Above("stream_timeouts", p, 60000) :
      p \in {"http.downstream_write_timeout_ms",
             "http.request_body_idle_timeout_ms",
             "http.upstream_body_idle_timeout_ms",
             "http.request_body_min_rate_grace_ms",
             "http.upstream_body_min_rate_grace_ms"} }

run_body_size_ceiling_startup_probe ==
  { Above("body_size", p, 1073741824) :
      p \in {"http.max_body_bytes", "http.max_upstream_body_bytes"} }

run_min_rate_ceiling_startup_probe ==
  { Above("min_rate", p, 1048576) :
      p \in {"http.request_body_min_rate_bytes_per_second",
             "http.upstream_body_min_rate_bytes_per_second"} }
  \cup { TcpAbove("min_rate", p, 1048576) :
           p \in {"tcp[0].downstream_min_rate_bytes_per_second",
                  "tcp[0].upstream_min_rate_bytes_per_second"} }

run_upstream_idle_pool_ceiling_startup_probe ==
  { Above("idle_pool", "http.upstream_pool_idle_timeout_ms", 60000),
    Above("idle_pool", "http.upstream_pool_max_idle_per_host", 4096) }

run_connect_timeout_ceiling_startup_probe ==
  { Above("connect_timeout", "http.upstream_connect_timeout_ms", 60000),
    TcpAbove("connect_timeout", "tcp[0].connect_timeout_ms", 60000) }

run_connection_duration_ceiling_startup_probe ==
  { Above("duration", "http.max_connection_duration_seconds", 3600),
    TcpAbove("duration", "tcp[0].max_connection_duration_seconds", 3600) }

run_connection_request_count_ceiling_startup_probe ==
  { Above("requests", "http.max_requests_per_connection", 10000) }

run_event_log_backup_count_ceiling_startup_probe ==
  { Bare(Above("backups", "adaptive.event_log_backup_count", 128)) }

run_event_log_queue_capacity_ceiling_startup_probe ==
  { Bare(Above("queue", "adaptive.event_log_queue_capacity", 8192)) }

run_dynamic_state_ceiling_startup_probe ==
  { Bare(case) : case \in
      { Above("dynamic", "filters.max_runtime_file_bytes", 16777216),
        Above("dynamic", "filters.max_runtime_filters", 8192),
        Above("dynamic", "filters.max_static_filters", 8192),
        One("dynamic", "filters.static_rules", {"ttl_seconds"}, "ttl_seconds"),
        Above("dynamic", "adaptive.activation_ttl_seconds", 86400),
        Above("dynamic", "adaptive.event_log_max_bytes", 1073741824),
        Above("dynamic", "adaptive.max_signature_windows", 262144),
        Above("dynamic", "adaptive.max_path_shape_windows", 262144) } }
  \cup
  { Above("dynamic", "http.limits.max_tracked_ips", 1048576),
    Above("dynamic", "http.limits.max_tracked_signatures", 262144),
    Above("dynamic", "http.limits.max_tracked_path_shapes", 262144),
    TcpAbove("dynamic", "tcp[0].limits.max_tracked_ips", 1048576) }

run_control_capacity_startup_probe ==
  { Bare(Num("control", p, 0, "zero")) :
      p \in {"filters.max_runtime_file_bytes", "filters.max_runtime_filters",
             "adaptive.event_log_max_bytes",
             "adaptive.event_log_queue_capacity",
             "adaptive.event_log_flush_interval_ms",
             "adaptive.max_signature_windows"} }

run_config_file_startup_probe ==
  { Case("config_file", [Base EXCEPT !.file = "oversized"], "config", "cap", 0),
    Case("config_file", [Base EXCEPT !.file = "directory"], "config",
         "regular", 0) }

run_http_endpoint_startup_probe ==
  { One("http_endpoint", "http.listen", {"invalid"}, "invalid") }
  \cup { One("http_endpoint", "http.upstream", {f}, f) :
           f \in {"scheme", "userinfo", "query"} }

TcpOne(path, flaws, reason) ==
  Case("tcp_endpoint",
       [Base EXCEPT !.http = FALSE, !.tcp = TRUE,
                    !.txt = path :> <<Entry("entry", 8, flaws)>>],
       path, reason, 0)

run_tcp_endpoint_startup_probe ==
  { TcpOne("tcp[0].listen", {"invalid"}, "invalid"),
    TcpOne("tcp[0].upstream", {"port"}, "port"),
    TcpOne("tcp[0].upstream", {"scheme", "path"}, "scheme"),
    TcpOne("tcp[0].upstream", {"userinfo"}, "userinfo"),
    TcpOne("tcp[0].upstream", {"path"}, "path"),
    TcpOne("tcp[0].upstream", {"port0"}, "port0") }

run_filter_rule_startup_probe ==
  { Case("filter_rule",
         [Base EXCEPT !.http = FALSE,
                      !.num = "filters.max_static_filters" :> 1,
                      !.txt = "filters.static_rules" :> Entries(2)],
         "filters.static_rules", "count", 2),
    Bare(One("filter_rule", "filters.static_rules", {"condition"}, "condition")),
    Bare(One("filter_rule", "filters.static_rules", {"status"}, "status")),
    Bare(One("filter_rule", "filters.static_rules", {"body"}, "body")) }

run_allowed_methods_startup_probe ==
  { Txt("methods", "http.allowed_methods", <<>>, "count", 0),
    One("methods", "http.allowed_methods", {"token"}, "token"),
    Long("methods", "http.allowed_methods", 33, {}),
    Twice("methods", "http.allowed_methods"),
    One("methods", "http.allowed_methods", {"unsupported"}, "unsupported"),
    Many("methods", "http.allowed_methods", 17) }

run_allowed_hosts_startup_probe ==
  { One("hosts", "http.allowed_hosts", {"empty"}, "empty"),
    One("hosts", "http.allowed_hosts", {"padded", "space"}, "padded"),
    One("hosts", "http.allowed_hosts", {"authority"}, "authority"),
    One("hosts", "http.allowed_hosts", {"userinfo"}, "userinfo"),
    One("hosts", "http.allowed_hosts", {"wildcard"}, "wildcard"),
    Case("hosts",
         [Base EXCEPT !.num = "http.max_host_bytes" :> 8,
                      !.txt = "http.allowed_hosts"
                                :> <<Entry("too-long.local", 14, {})>>],
         "http.allowed_hosts", "long", 0),
    Twice("hosts", "http.allowed_hosts"),
    Many("hosts", "http.allowed_hosts", 129) }

run_client_ip_config_startup_probe ==
  { One("client_ip", "http.client_ip.header", {"name"}, "name"),
    Long("client_ip", "http.client_ip.header", 65, {}),
    One("client_ip", "http.client_ip.trusted_proxies", {"empty"}, "empty"),
    One("client_ip", "http.client_ip.trusted_proxies", {"range"}, "range"),
    Long("client_ip", "http.client_ip.trusted_proxies", 65, {"range"}),
    Twice("client_ip", "http.client_ip.trusted_proxies"),
    Many("client_ip", "http.client_ip.trusted_proxies", 129) }

RefusalCases == UNION
  { run_runtime_nofile_capacity_probe, run_trusted_proxy_global_trust_startup_probe,
    run_negative_rate_startup_probe, run_admin_prefix_startup_probe,
    run_admin_token_startup_probe, run_zero_capacity_startup_probe,
    run_header_buffer_floor_startup_probe,
    run_header_buffer_ceiling_startup_probe,
    run_header_count_ceiling_startup_probe,
    run_http_metadata_ceiling_startup_probe,
    run_header_read_timeout_ceiling_startup_probe,
    run_upstream_timeout_ceiling_startup_probe,
    run_upstream_failure_circuit_ceiling_startup_probe,
    run_http_stream_timeout_ceiling_startup_probe,
    run_body_size_ceiling_startup_probe,
    run_min_rate_ceiling_startup_probe, run_upstream_idle_pool_ceiling_startup_probe,
    run_connect_timeout_ceiling_startup_probe,
    run_connection_duration_ceiling_startup_probe,
    run_connection_request_count_ceiling_startup_probe,
    run_event_log_backup_count_ceiling_startup_probe,
    run_event_log_queue_capacity_ceiling_startup_probe,
    run_dynamic_state_ceiling_startup_probe,
    run_control_capacity_startup_probe, run_config_file_startup_probe,
    run_http_endpoint_startup_probe, run_tcp_endpoint_startup_probe,
    run_filter_rule_startup_probe, run_allowed_methods_startup_probe,
    run_allowed_hosts_startup_probe, run_client_ip_config_startup_probe }

(* The two probes that need the daemon to serve.  The first runs under     *)
(* whatever limits the driver was started with: too low but not fixed,     *)
(* high enough already, or too low for good.                               *)
run_runtime_nofile_probe ==
  { Case("nofile",
         [Base EXCEPT !.ulimit = limits,
            !.num = [p \in {"runtime.min_nofile"} |-> 2048]
                      @@ ("http.limits.max_connections" :> 128)
                      @@ ("http.limits.max_in_flight_requests" :> 128)],
         "", "", 0) :
      limits \in {[soft |-> 1024, hard |-> 1048576],
                  [soft |-> 4096, hard |-> 4096],
                  [soft |-> 1024, hard |-> 1024]} }

run_runtime_sigterm_probe == Case("sigterm", Base, "", "", 0)

=============================================================================

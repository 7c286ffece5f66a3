----------------------------- MODULE ConfigRules -----------------------------
(***************************************************************************)
(* AppConfig::validate of src/src/config.rs: the checks the daemon makes on *)
(* its configuration, in the order it makes them.  The first failing check *)
(* is the only one the process reports before it exits, so whether a bad   *)
(* value is seen at all depends on every check placed before it.           *)
(*                                                                         *)
(* A configuration is given by what it says explicitly:                    *)
(*   file    "regular", "directory" or "oversized"                         *)
(*   http, tcp   whether the section is present                            *)
(*   public  whether http.listen is a non-loopback address                 *)
(*   num     the explicit numeric fields                                   *)
(*   txt     the explicit text fields, each a sequence of entries: the     *)
(*           name that identifies the entry, its length and its flaws      *)
(*   ulimit  the soft and the hard RLIMIT_NOFILE the process starts with   *)
(* A field that is left out has its serde default, which lies within the   *)
(* bounds of every check; Default gives the defaults other checks refer to.*)
(***************************************************************************)
EXTENDS Integers, Sequences, SequencesExt, FiniteSetsExt

NoError == [path |-> "", reason |-> "", at |-> 0]

NoLimit == 2147483647

Default == [p \in {"http.max_header_line_bytes",
                   "http.upstream_max_header_line_bytes"} |-> 8192]
             @@ [p \in {"http.max_header_bytes",
                        "http.upstream_max_header_bytes"} |-> 32768]
             @@ [p \in {"http.max_host_bytes"} |-> 255]
             @@ [p \in {"filters.max_static_filters"} |-> 1024]
             @@ [p \in {"http.limits.max_connections"} |-> 10000]
             @@ [p \in {"http.limits.max_in_flight_requests"} |-> 8192]
             @@ [p \in {"http.upstream_pool_max_idle_per_host"} |-> 256]
             @@ [p \in {"runtime.min_nofile"} |-> 0]
             @@ [p \in {"http.accept_shards", "tcp[0].accept_shards"} |-> 1]
             @@ [p \in {"tcp[0].limits.max_connections"} |-> 10000]

Value(c, p) == IF p \in DOMAIN c.num THEN c.num[p] ELSE Default[p]

-----------------------------------------------------------------------------
(* One check.  "range" and "related" judge a number, "count" the length of *)
(* a list, "text" every entry of a field in turn.                          *)

Rule(test, path, low, high) ==
  [test |-> test, path |-> path, low |-> low, high |-> high,
   ref |-> "", order |-> <<>>]

Positive(p) == Rule("range", p, 1, NoLimit)
AtMost(p, max) == Rule("range", p, -NoLimit, max)
Between(p, min, max) == <<Positive(p), Rule("range", p, min, max)>>
NonNegative(p) == Rule("range", p, 0, NoLimit)
RelatedAtMost(p, ref) == [Rule("related", p, 0, 0) EXCEPT !.ref = ref]
Count(p, min, max) == Rule("count", p, min, max)
CountRef(p, ref) == [Rule("count", p, 0, NoLimit) EXCEPT !.ref = ref]
Text(p, max, order) == [Rule("text", p, 0, max) EXCEPT !.order = order]
TextRef(p, max, ref, order) == [Text(p, max, order) EXCEPT !.ref = ref]

Positives(ps) == [i \in DOMAIN ps |-> Positive(ps[i])]
NonNegatives(ps) == [i \in DOMAIN ps |-> NonNegative(ps[i])]
Ceilings(ps, max) == [i \in DOMAIN ps |-> AtMost(ps[i], max)]

(* No two rules share an id; then each rule is judged by itself.           *)
FilterRuleChecks ==
  << Text("filters.static_rules", NoLimit, <<"duplicate">>),
     Text("filters.static_rules", 128,
          <<"empty", "long", "identifier", "ttl_seconds", "condition",
            "kind", "status", "body">>) >>

FilterChecks ==
  Positives(<<"filters.reload_seconds", "filters.max_runtime_file_bytes",
              "filters.max_runtime_filters", "filters.max_static_filters">>)
  \o << AtMost("filters.max_runtime_file_bytes", 16777216),
        AtMost("filters.max_runtime_filters", 8192),
        AtMost("filters.max_static_filters", 8192),
        CountRef("filters.static_rules", "filters.max_static_filters") >>
  \o FilterRuleChecks

AdaptiveChecks ==
  Positives(<<"adaptive.signature_threshold_per_second",
              "adaptive.activation_ttl_seconds",
              "adaptive.event_log_flush_interval_ms",
              "adaptive.event_log_max_bytes",
              "adaptive.event_cooldown_seconds",
              "adaptive.event_log_backup_count">>)
  \o << AtMost("adaptive.activation_ttl_seconds", 86400),
        AtMost("adaptive.event_log_max_bytes", 1073741824),
        AtMost("adaptive.event_log_backup_count", 128),
        Positive("adaptive.event_log_queue_capacity"),
        AtMost("adaptive.event_log_queue_capacity", 8192),
        Positive("adaptive.max_signature_windows"),
        Positive("adaptive.max_path_shape_windows"),
        AtMost("adaptive.max_signature_windows", 262144),
        AtMost("adaptive.max_path_shape_windows", 262144) >>

HttpEndpointChecks ==
  << Text("http.listen", NoLimit, <<"invalid">>),
     Text("http.upstream", NoLimit,
          <<"unparsable", "scheme", "authority", "userinfo", "query">>),
     Text("http.admin_path_prefix", NoLimit,
          <<"relative", "root", "query", "blank">>),
     Text("http.admin_token", 256,
          <<"empty", "blank", "padded", "long", "control">>) >>

HttpListChecks ==
  << Count("http.allowed_methods", 1, 16),
     Text("http.allowed_methods", 32,
          <<"empty", "long", "token", "unsupported", "duplicate">>),
     Count("http.allowed_hosts", 0, 128),
     TextRef("http.allowed_hosts", 255, "http.max_host_bytes",
             <<"empty", "blank", "padded", "space", "long", "wildcard",
               "authority", "userinfo", "duplicate">>),
     Text("http.client_ip.header", 64,
          <<"empty", "blank", "padded", "long", "name">>),
     Count("http.client_ip.trusted_proxies", 0, 128),
     Text("http.client_ip.trusted_proxies", 64,
          <<"empty", "blank", "padded", "space", "long", "duplicate">>),
     Text("http.client_ip.trusted_proxies", NoLimit, <<"range", "all">>) >>

HttpRateChecks ==
  NonNegatives(<<"http.limits.per_ip_rps", "http.limits.global_rps",
    "http.limits.trusted_proxy_rps", "http.limits.signature_rps",
    "http.limits.path_shape_rps", "http.limits.per_ip_connects_per_second",
    "http.limits.global_connects_per_second">>)
  \o << Rule("range", "http.limits.ipv4_prefix_len", 1, 32),
        Rule("range", "http.limits.ipv6_prefix_len", 1, 128) >>

HttpPositives ==
  Positives(<<"http.max_host_bytes", "http.max_header_bytes",
    "http.max_header_line_bytes", "http.max_headers", "http.max_uri_bytes",
    "http.max_query_bytes", "http.max_query_pairs", "http.max_path_segments",
    "http.upstream_pool_idle_timeout_ms", "http.upstream_max_header_bytes",
    "http.upstream_max_header_line_bytes", "http.upstream_max_headers",
    "http.upstream_body_idle_timeout_ms", "http.upstream_failure_threshold",
    "http.upstream_failure_open_ms", "http.max_upstream_body_bytes",
    "http.max_connection_duration_seconds", "http.max_requests_per_connection",
    "http.max_body_bytes", "http.request_body_idle_timeout_ms",
    "http.request_body_min_rate_grace_ms",
    "http.upstream_body_min_rate_grace_ms", "http.max_ranges",
    "http.max_trailer_bytes", "http.max_trailers", "http.upstream_max_trailer_bytes",
    "http.upstream_max_trailers", "http.client_ip.max_forwarded_for_bytes",
    "http.client_ip.max_forwarded_for_hops", "http.limits.per_ip_burst",
    "http.limits.global_burst", "http.limits.trusted_proxy_burst",
    "http.limits.trusted_proxy_max_in_flight_requests",
    "http.limits.signature_burst", "http.limits.max_tracked_signatures",
    "http.limits.path_shape_burst", "http.limits.max_tracked_path_shapes",
    "http.limits.per_ip_connect_burst", "http.limits.global_connect_burst",
    "http.limits.max_connections", "http.limits.max_connections_per_ip",
    "http.limits.max_in_flight_requests",
    "http.limits.max_in_flight_requests_per_ip",
    "http.limits.max_tracked_ips", "http.listen_backlog">>)
  \o Between("http.accept_shards", 1, 64)

HttpCeilings ==
  << AtMost("http.max_host_bytes", 1024),
     AtMost("http.max_uri_bytes", 65536),
     AtMost("http.max_query_bytes", 65536),
     AtMost("http.max_query_pairs", 8192),
     AtMost("http.max_path_segments", 4096),
     AtMost("http.max_body_bytes", 1073741824),
     AtMost("http.max_upstream_body_bytes", 1073741824) >>
  \o Between("http.header_read_timeout_ms", 1, 60000)
  \o Between("http.downstream_write_timeout_ms", 1, 60000)
  \o Ceilings(<<"http.request_body_idle_timeout_ms",
                "http.upstream_body_idle_timeout_ms",
                "http.request_body_min_rate_grace_ms",
                "http.upstream_body_min_rate_grace_ms">>, 60000)
  \o Ceilings(<<"http.request_body_min_rate_bytes_per_second",
                "http.upstream_body_min_rate_bytes_per_second">>, 1048576)
  \o Between("http.upstream_timeout_ms", 1, 60000)
  \o << AtMost("http.upstream_failure_threshold", 1024),
        AtMost("http.upstream_failure_open_ms", 300000) >>
  \o Between("http.upstream_connect_timeout_ms", 1, 60000)
  \o << AtMost("http.upstream_pool_idle_timeout_ms", 60000),
        AtMost("http.upstream_pool_max_idle_per_host", 4096),
        AtMost("http.max_connection_duration_seconds", 3600),
        AtMost("http.max_requests_per_connection", 10000) >>

(* The floor of hyper's read buffer, then the ceiling, then the relation   *)
(* between a header line and the buffer that has to hold it.               *)
HeaderBufferChecks ==
  Between("http.max_header_bytes", 8192, 262144)
  \o Between("http.upstream_max_header_bytes", 8192, 262144)
  \o Ceilings(<<"http.max_header_line_bytes",
                "http.upstream_max_header_line_bytes">>, 262144)
  \o << RelatedAtMost("http.max_header_line_bytes", "http.max_header_bytes"),
        RelatedAtMost("http.upstream_max_header_line_bytes",
                      "http.upstream_max_header_bytes") >>

MetadataCeilings ==
  Ceilings(<<"http.max_headers", "http.upstream_max_headers">>, 1024)
  \o Ceilings(<<"http.max_trailer_bytes",
                "http.upstream_max_trailer_bytes">>, 262144)
  \o Ceilings(<<"http.max_trailers", "http.upstream_max_trailers">>, 1024)
  \o << AtMost("http.client_ip.max_forwarded_for_bytes", 16384),
        AtMost("http.client_ip.max_forwarded_for_hops", 256),
        AtMost("http.limits.max_tracked_ips", 1048576),
        AtMost("http.limits.max_tracked_signatures", 262144),
        AtMost("http.limits.max_tracked_path_shapes", 262144) >>

HttpChecks == HttpEndpointChecks \o HttpListChecks \o HttpRateChecks
                \o HttpPositives \o HttpCeilings \o HeaderBufferChecks \o MetadataCeilings

TcpEndpointChecks ==
  << Text("tcp[0].listen", NoLimit, <<"invalid">>),
     Text("tcp[0].upstream", NoLimit,
          <<"space", "scheme", "path", "authority", "userinfo", "host",
            "port", "port0">>) >>

TcpLimitChecks ==
  << NonNegative("tcp[0].limits.per_ip_connects_per_second"),
     NonNegative("tcp[0].limits.global_connects_per_second"),
     Rule("range", "tcp[0].limits.ipv4_prefix_len", 1, 32),
     Rule("range", "tcp[0].limits.ipv6_prefix_len", 1, 128),
     Positive("tcp[0].listen_backlog") >>
  \o Between("tcp[0].accept_shards", 1, 64)
  \o Between("tcp[0].connect_timeout_ms", 1, 60000)
  \o Positives(<<"tcp[0].idle_timeout_seconds", "tcp[0].min_rate_grace_ms">>)
  \o Ceilings(<<"tcp[0].downstream_min_rate_bytes_per_second",
                "tcp[0].upstream_min_rate_bytes_per_second">>, 1048576)
  \o Between("tcp[0].max_connection_duration_seconds", 1, 3600)
  \o Positives(<<"tcp[0].limits.per_ip_connect_burst",
                 "tcp[0].limits.global_connect_burst",
                 "tcp[0].limits.max_connections",
                 "tcp[0].limits.max_connections_per_ip",
                 "tcp[0].limits.max_tracked_ips">>)
  \o << AtMost("tcp[0].limits.max_tracked_ips", 1048576) >>

-----------------------------------------------------------------------------
(* The word the reported message turns on.                                 *)

RangeReason(r, v) ==
  IF v < r.low
  THEN CASE v < 0 -> "finite" [] v = 0 -> "zero" [] OTHER -> "floor"
  ELSE "ceiling"

(* A range that covers every peer is a flaw on a public listener only.     *)
FlawsOf(c, r, es, i) ==
  LET limit == IF r.ref = "" THEN r.high
               ELSE Min({r.high, Value(c, r.ref)})
  IN  (IF c.public THEN es[i].flaws ELSE es[i].flaws \ {"all"})
        \cup (IF es[i].len > limit THEN {"long"} ELSE {})
        \cup (IF \E j \in 1..(i - 1) : es[j].name = es[i].name
              THEN {"duplicate"} ELSE {})

TextError(c, r, es) ==
  LET bad == {i \in DOMAIN es :
                FlawsOf(c, r, es, i) \cap ToSet(r.order) # {}}
      i   == Min(bad)
  IN  IF bad = {} THEN NoError
      ELSE [path   |-> r.path,
            reason |-> SelectSeq(r.order,
                         LAMBDA f : f \in FlawsOf(c, r, es, i))[1],
            at     |-> i - 1]

CountError(c, r, n) ==
  LET max == IF r.ref = "" THEN r.high ELSE Value(c, r.ref)
  IN  IF n \in r.low..max THEN NoError
      ELSE [path |-> r.path, reason |-> "count", at |-> n]

RuleError(c, r) ==
  CASE r.test = "range" /\ r.path \in DOMAIN c.num ->
         LET v == c.num[r.path]
         IN  IF r.low <= v /\ v <= r.high THEN NoError
             ELSE [path |-> r.path, reason |-> RangeReason(r, v), at |-> 0]
    [] r.test = "related" ->
         IF Value(c, r.path) <= Value(c, r.ref) THEN NoError
         ELSE [path |-> r.path, reason |-> "related", at |-> 0]
    [] r.test = "text" /\ r.path \in DOMAIN c.txt ->
         TextError(c, r, c.txt[r.path])
    [] r.test = "count" /\ r.path \in DOMAIN c.txt ->
         CountError(c, r, Len(c.txt[r.path]))
    [] OTHER -> NoError

Checks(c) == FilterChecks \o AdaptiveChecks
               \o (IF c.http THEN HttpChecks ELSE <<>>)
               \o (IF c.tcp THEN TcpEndpointChecks \o TcpLimitChecks ELSE <<>>)

(* The checks a configuration passes one after the other until one fails.  *)
validate(c) ==
  LET checks == Checks(c)
      bad    == {i \in DOMAIN checks : RuleError(c, checks[i]) # NoError}
  IN  IF bad = {} THEN NoError ELSE RuleError(c, checks[Min(bad)])

read_config_file(c) ==
  CASE c.file = "directory" -> [NoError EXCEPT !.path = "config", !.reason = "regular"]
    [] c.file = "oversized" -> [NoError EXCEPT !.path = "config", !.reason = "cap"]
    [] OTHER -> NoError

(* What AppConfig::from_path reports, NoError when the daemon goes on.     *)
from_path(c) ==
  IF read_config_file(c) # NoError THEN read_config_file(c) ELSE validate(c)

(* The soft limit the process runs with: raised to the floor when the      *)
(* configuration asks for one, as far as the hard limit allows.            *)
apply_nofile_floor(c) ==
  Max({c.ulimit.soft, Min({c.ulimit.hard, Value(c, "runtime.min_nofile")})})

(* The descriptors the configured caps may need at once.                   *)
estimate_nofile_capacity(c) ==
  256 + (IF c.http
         THEN Value(c, "http.accept_shards")
                + Value(c, "http.limits.max_connections")
                + Value(c, "http.limits.max_in_flight_requests")
                + Value(c, "http.upstream_pool_max_idle_per_host")
         ELSE 0)
      + (IF c.tcp
         THEN Value(c, "tcp[0].accept_shards")
                + 2 * Value(c, "tcp[0].limits.max_connections")
         ELSE 0)

(* Made only when the configuration asks for a floor.                      *)
validate_nofile_capacity(c) ==
  LET floor == Value(c, "runtime.min_nofile")
      soft  == apply_nofile_floor(c)
      need  == estimate_nofile_capacity(c)
  IN  CASE floor = 0 -> NoError
        [] soft < floor ->
             [path |-> "runtime.min_nofile", reason |-> "hard", at |-> 0]
        [] floor # 0 /\ soft >= floor /\ need > soft ->
             [path |-> "runtime.min_nofile", reason |-> "capacity",
              at |-> need]
        [] OTHER -> NoError

(* The first thing startup objects to before any listener is bound.        *)
startup_error(c) ==
  CASE from_path(c) # NoError -> from_path(c)
    [] from_path(c) = NoError /\ validate_nofile_capacity(c) # NoError ->
         validate_nofile_capacity(c)
    [] OTHER -> IF c.http \/ c.tcp THEN NoError
                ELSE [NoError EXCEPT !.path = "listeners"]

=============================================================================

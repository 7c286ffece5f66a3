----------------------------- MODULE EdgeSmoke -----------------------------
(***************************************************************************)
(* tools/run_edge_namespace_smoke.py: the nftables template is loaded in a *)
(* throw-away network namespace, then two namespaces joined by a veth pair *)
(* are built and packets are sent across.  Every command runs under a      *)
(* timeout; a command that times out was killed, with or without its       *)
(* effect.  What must not happen is that namespaces, links or the packet   *)
(* server outlive the tool unnoticed.                                      *)
(***************************************************************************)
EXTENDS Integers, Sequences, FiniteSets

VARIABLES
  pc,          \* where the tool is
  opts,        \* the flags it was started with
  step,        \* index into Setup, into Cleanup or into Families
  left,        \* kernel resources that exist: the namespaces "victim" and
               \* "attacker", the veth pair in the host, half moved or inside
  server,      \* "none", "up" or "zombie": a server no signal ended
  nft,         \* the outcome of the throw-away namespace: "none", "loaded", "partial"
  probe,       \* the packet probe's report
  raised,      \* an exception is propagating
  refused,     \* history: a delete failed on something that was there
  code         \* the exit status; -1 while running

vars == <<pc, opts, step, left, server, nft, probe, raised, refused, code>>

\* the commands of run_packet_probe, in order: the namespaces, the veth pair,
\* one end moved, then the other; the rest configures and creates nothing
Setup == <<"victim", "attacker", "link", "half", "inner">>
           \o [i \in 1..8 |-> "configure"] \o <<"load">>

Made(x, have) ==
  CASE x \in {"half", "inner"} -> (have \ {"link", "half"}) \cup {x}
    [] x \in {"configure", "load"} -> have
    [] OTHER -> have \cup {x}

Cleanup == <<"victim_if", "attacker_if", "attacker", "victim">>

\* an interface is deleted by name only where it is, in the host; a namespace
\* takes the interfaces moved into it along, and each end takes the other
Removed(x, have) ==
  have \ CASE x = "victim_if" -> {"link"}
           [] x = "attacker_if" -> {"link", "half"}
           [] x = "attacker" -> {"attacker", "inner"}
           [] x = "victim" -> {"victim", "half", "inner"}

\* run() under its timeout: the command's effect, or not and a failure, or
\* the timeout, which leaves either
Ran == {<<"ok", TRUE>>, <<"failed", FALSE>>, <<"timeout", FALSE>>, <<"timeout", TRUE>>}

NoReport == [skipped |-> FALSE, error |-> FALSE, families |-> {}, hop |-> FALSE]

Init ==
  /\ pc = "start"
  /\ opts \in [require : BOOLEAN, packet : BOOLEAN, mustProbe : BOOLEAN, provenance : BOOLEAN]
  /\ step = 1 /\ left = {} /\ server = "none" /\ nft = "none"
  /\ probe = NoReport /\ raised = FALSE /\ refused = FALSE /\ code = -1

-----------------------------------------------------------------------------
\* assert_smoke_result: a skipped smoke or probe is an error only when the
\* probe is required; otherwise every observation must be true.  complete:
\* the report has all its git metadata
assert_smoke_result(skipped, complete) ==
  /\ opts.provenance => complete
  /\ IF skipped
     THEN ~opts.mustProbe
     ELSE /\ nft = "loaded"
          /\ (opts.packet \/ opts.mustProbe) =>
               IF probe.skipped
               THEN ~opts.mustProbe
               ELSE ~probe.error /\ probe.families = {"ipv4", "ipv6"} /\ probe.hop

\* main, without the template or with prerequisites missing: an error, or a
\* skip report
NoTemplate ==
  /\ pc = "start" /\ code' = 1 /\ pc' = "done"
  /\ UNCHANGED <<opts, step, left, server, nft, probe, raised, refused>>

Skip ==
  /\ pc = "start"
  /\ \E complete \in BOOLEAN :
       code' = IF assert_smoke_result(TRUE, complete) /\ ~opts.require THEN 0 ELSE 1
  /\ pc' = "done"
  /\ UNCHANGED <<opts, step, left, server, nft, probe, raised, refused>>

\* run_namespace_smoke: the table lists every rule, or some are missing, or
\* the script failed or timed out
NamespaceSmoke ==
  /\ pc = "start"
  /\ nft' \in {"loaded", "partial"}
  /\ pc' = IF opts.packet \/ opts.mustProbe THEN "setup" ELSE "judge"
  /\ UNCHANGED <<opts, step, left, server, probe, raised, code, refused>>

\* the end of run_packet_probe's try block: the finally clause starts
Finally == pc' = "cleanup" /\ step' = 1

\* without its namespaces the probe is skipped, later failures are errors
Stopped(x) == [probe EXCEPT !.skipped = x \in {"victim", "attacker"}, !.error = TRUE]

\* run_checked: a failed command runs the cleanup itself before it reports;
\* one that timed out does not
SetupCommand ==
  /\ pc = "setup" /\ step <= Len(Setup)
  /\ \E r \in Ran :
       LET x == Setup[step]
       IN  /\ left' = IF r[2] THEN Made(x, left) ELSE left
           /\ CASE r[1] = "ok" -> pc' = pc /\ step' = step + 1 /\ probe' = probe
                [] r[1] = "failed" -> pc' = "early_cleanup" /\ step' = 1
                                        /\ probe' = Stopped(x)
                [] OTHER -> Finally /\ probe' = Stopped(x)
  /\ UNCHANGED <<opts, server, nft, raised, code, refused>>

SetupDone ==
  /\ pc = "setup" /\ step > Len(Setup)
  /\ pc' = "server" /\ step' = 1
  /\ UNCHANGED <<opts, left, server, nft, probe, raised, code, refused>>

Families == <<"ipv4", "ipv6">>

\* run_packet_family_probe: the server prints its line or does not
StartServer ==
  /\ pc = "server"
  /\ server' = "up"
  /\ \/ pc' = "client" /\ UNCHANGED probe
     \/ pc' = "stop" /\ probe' = [probe EXCEPT !.error = TRUE]
  /\ UNCHANGED <<opts, step, left, nft, raised, code, refused>>

\* the client's packets behave, or it reports otherwise, or fails; its
\* timeout is not caught
Client ==
  /\ pc = "client"
  /\ \/ probe' = [probe EXCEPT !.families = @ \cup {Families[step]}] /\ UNCHANGED raised
     \/ probe' = [probe EXCEPT !.error = TRUE] /\ UNCHANGED raised
     \/ raised' = TRUE /\ UNCHANGED probe
  /\ pc' = "stop"
  /\ UNCHANGED <<opts, step, left, server, nft, code, refused>>

\* terminate_server in the finally clause: SIGTERM or SIGKILL ends it within
\* a second, or the second wait raises
StopServer ==
  /\ pc = "stop"
  /\ \/ server' = "none" /\ UNCHANGED raised
     \/ server' = "zombie" /\ raised' = TRUE
  /\ IF raised'
     THEN Finally
     ELSE IF step < 2 THEN pc' = "server" /\ step' = step + 1 ELSE pc' = "hop" /\ step' = step
  /\ UNCHANGED <<opts, left, nft, probe, code, refused>>

\* run_ipv6_hop_by_hop_udp_probe: three commands, none of whose timeouts is caught
HopByHop ==
  /\ pc = "hop"
  /\ \/ probe' = [probe EXCEPT !.hop = TRUE] /\ UNCHANGED raised
     \/ UNCHANGED <<probe, raised>>
     \/ raised' = TRUE /\ UNCHANGED probe
  /\ Finally
  /\ UNCHANGED <<opts, left, server, nft, code, refused>>

\* one command of the cleanup: nobody looks at its exit status, so a delete
\* that fails is passed over, and harmless only where there is nothing to
\* delete; a timeout raises and abandons the commands after it
CleanupCommand ==
  /\ pc \in {"early_cleanup", "cleanup"} /\ step <= Len(Cleanup)
  /\ \/ left' = Removed(Cleanup[step], left) /\ step' = step + 1
        /\ UNCHANGED <<pc, raised, refused>>
     \/ left # Removed(Cleanup[step], left) /\ refused' = TRUE /\ step' = step + 1
        /\ UNCHANGED <<pc, raised, left>>
     \/ /\ left' \in {left, Removed(Cleanup[step], left)}
        /\ raised' = TRUE /\ refused' = refused
        /\ IF pc = "early_cleanup" THEN Finally ELSE pc' = "judge" /\ step' = step
  /\ UNCHANGED <<opts, server, nft, probe, code>>

CleanupDone ==
  /\ pc \in {"early_cleanup", "cleanup"} /\ step > Len(Cleanup)
  /\ IF pc = "early_cleanup" THEN Finally ELSE pc' = "judge" /\ step' = step
  /\ UNCHANGED <<opts, left, server, nft, probe, raised, code, refused>>

\* the end of main: an exception that propagated ends it with status 1
Judge ==
  /\ pc = "judge"
  /\ \E complete \in BOOLEAN :
       code' = IF ~raised /\ assert_smoke_result(FALSE, complete) THEN 0 ELSE 1
  /\ pc' = "done"
  /\ UNCHANGED <<opts, step, left, server, nft, probe, raised, refused>>

Next ==
  \/ NoTemplate \/ Skip \/ NamespaceSmoke \/ SetupCommand \/ SetupDone \/ StartServer \/ Client
  \/ StopServer \/ HopByHop \/ CleanupCommand \/ CleanupDone \/ Judge

Spec == Init /\ [][Next]_vars

-----------------------------------------------------------------------------
TypeOK ==
  /\ left \subseteq {"victim", "attacker", "link", "half", "inner"} /\ refused \in BOOLEAN
  /\ server \in {"none", "up", "zombie"}
  /\ nft \in {"none", "loaded", "partial"} /\ code \in {-1, 0, 1}

\* Nothing outlives the tool unnoticed: whatever command failed or timed out,
\* with or without its effect, a namespace, a link or a packet server that is
\* still there at the end goes with a non-zero exit status, except for what a
\* delete command itself failed to remove (run_checked and the finally clauses
\* of run_packet_probe and run_packet_family_probe).
LeakReported ==
  (pc = "done" /\ (left # {} \/ server # "none")) => code # 0 \/ (refused /\ server = "none")
=============================================================================

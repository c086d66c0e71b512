------------------------------ MODULE DiagRules ------------------------------
(***************************************************************************)
(* The rules of a diagnosis (daemon/src/diag/rules.rs): patterns over the  *)
(* statuses and the evidence of the checks, each giving at most one        *)
(* finding.  A rule is a record: whether it fires, and the finding's       *)
(* identity, severity, confidence and supporting checks.  Interpretations  *)
(* and suggested actions are text and are left out.                        *)
(***************************************************************************)
EXTENDS Checks, FiniteSetsExt, SequencesExt

\* FindingSeverity.
Severity == [unspecified |-> 0, info |-> 1, low |-> 2, medium |-> 3, high |-> 4,
             critical |-> 5]

\* CheckIndex: a check that did not run has no status at all.
CheckIndex(checks) ==
    LET at(k) == CHOOSE i \in DOMAIN checks : checks[i].key = k
    IN  [k \in {checks[i].key : i \in DOMAIN checks} |-> checks[at(k)]]

status_is(index, key, status) == key \in DOMAIN index /\ index[key].status = status

\* Mutant: a skipped check counts as passed.
PassedOrSkipped(index, key) == status_is(index, key, "pass") \/ status_is(index, key, "skip")

passed(index, key) == status_is(index, key, "pass")

failed(index, key) == status_is(index, key, "fail")

warned(index, key) == status_is(index, key, "warn")

skipped(index, key) == status_is(index, key, "skip")

\* Option<&str>: the value, or None when the check or the field is missing.
evidence(index, key, field) ==
    IF key \in DOMAIN index /\ field \in DOMAIN index[key].ev
    THEN index[key].ev[field] ELSE None

\* `place' is the rule's place in the table RULES.
finding(place, fires, id, severity, confidence, supporting) ==
    [place |-> place, fires |-> fires, id |-> id, severity |-> severity, confidence |-> confidence,
     supporting |-> supporting]

dns_failed(ix) == failed(ix, "dns.a") /\ failed(ix, "dns.aaaa")

some_tcp_passed(ix) == passed(ix, "tcp.v4") \/ passed(ix, "tcp.v6")

-----------------------------------------------------------------------------
rule_no_connectivity_at_all(ix) ==
    LET dead(k) == failed(ix, k) \/ skipped(ix, k)
        no_route == skipped(ix, "tcp.v4") /\ skipped(ix, "tcp.v6") /\ failed(ix, "iface.active")
    IN finding(1, dead("tcp.v4") /\ dead("tcp.v6") /\ dns_failed(ix) /\ ~no_route,
               "no_connectivity", Severity.critical, 90,
               <<"tcp.v4", "tcp.v6", "dns.a", "dns.aaaa">>)

\* Configured correctly, does not work; more certain when AAAA records are
\* returned and when the gateway is there.
rule_broken_upstream_ipv6(ix) ==
    LET gateway_there == passed(ix, "gateway.v6") \/ warned(ix, "gateway.v6")
    IN finding(2,
               /\ passed(ix, "addr.v6") /\ passed(ix, "route.v6.default")
               /\ failed(ix, "tcp.v6") /\ passed(ix, "tcp.v4"),
               "broken_upstream_ipv6", Severity.high,
               75 + (IF passed(ix, "dns.aaaa") THEN 15 ELSE 0) + (IF gateway_there THEN 5 ELSE 0),
               <<"addr.v6", "route.v6.default", "dns.aaaa", "tcp.v6", "tcp.v4">>)

rule_ipv6_configured_no_route(ix) ==
    finding(3, passed(ix, "addr.v6") /\ failed(ix, "route.v6.default"),
            "ipv6_no_default_route", Severity.medium, 85, <<"addr.v6", "route.v6.default">>)

rule_ipv6_disabled_by_sysctl(ix) ==
    finding(4, evidence(ix, "addr.v6", "disable_ipv6") = "true",
            "ipv6_disabled_sysctl", Severity.medium, 95, <<"addr.v6">>)

rule_gateway_unreachable(ix) ==
    LET dead == {f \in Families : failed(ix, check_key.gateway[f])}
    IN finding(5, dead # {}, "gateway_unreachable",
               IF dead = Families THEN Severity.critical ELSE Severity.high, 85,
               <<"gateway.v4", "gateway.v6">>)

rule_dns_broken_transport_ok(ix) ==
    finding(6, dns_failed(ix) /\ some_tcp_passed(ix),
            "dns_broken_transport_ok", Severity.high, 85,
            <<"dns.a", "dns.aaaa", "tcp.v4", "tcp.v6">>)

rule_private_dns_blocking(ix) ==
    finding(7, failed(ix, "dns.private"), "private_dns_blocking", Severity.high, 90,
            <<"dns.private", "dns.a">>)

rule_captive_portal(ix) ==
    finding(8, failed(ix, "captive.portal"), "captive_portal", Severity.medium, 95,
            <<"captive.portal", "android.state">>)

\* The framework's cached verdict against the probes of this run.
rule_validated_but_broken(ix, st) ==
    finding(9,
            /\ st.network # None /\ st.network.caps.validated
            /\ \/ failed(ix, "tcp.v4") /\ failed(ix, "tcp.v6")
               \/ dns_failed(ix),
            "validated_but_broken", Severity.high, 88,
            <<"android.state", "tcp.v4", "tcp.v6", "dns.a", "dns.aaaa">>)

rule_framework_kernel_disagreement(ix) ==
    finding(10, failed(ix, "framework.kernel"), "framework_kernel_disagreement",
            Severity.medium, 80, <<"framework.kernel">>)

rule_vpn_leak(ix) ==
    finding(11,
            /\ evidence(ix, "vpn.routing", "egress_is_vpn") = "false"
            /\ evidence(ix, "vpn.routing", "vpn_interfaces") \notin {"", None},
            "vpn_leak", Severity.high, 80,
            <<"vpn.routing", "route.lookup.v4", "route.lookup.v6">>)

\* A deliberate blackhole is information; the leaky case is a problem.
rule_vpn_ipv6_blackhole(ix) ==
    LET blackholed == evidence(ix, "vpn.routing", "ipv6_blackholed_in_vpn_table") = "true"
    IN finding(12,
               /\ evidence(ix, "vpn.routing", "vpn_has_ipv6_routes") = "false"
               /\ evidence(ix, "vpn.routing", "egress_is_vpn") = "true",
               "vpn_ipv6_blackhole",
               IF blackholed THEN Severity.info ELSE Severity.medium,
               IF blackholed THEN 90 ELSE 75,
               <<"vpn.routing", "tcp.v6", "route.v6.default">>)

\* TCP connects, TLS does not, and no full-size probe is known to have passed.
rule_mtu_blackhole(ix) ==
    LET measured == evidence(ix, "mtu.pmtu", "measured_path_mtu") # None
    IN finding(13, some_tcp_passed(ix) /\ failed(ix, "tls.handshake") /\ ~passed(ix, "mtu.pmtu"),
               "mtu_blackhole", Severity.high, IF measured THEN 80 ELSE 55,
               <<"tcp.v4", "tcp.v6", "tls.handshake", "mtu.pmtu">>)

rule_nat64_without_clat(ix, st) ==
    finding(14, warned(ix, "nat64.dns64") /\ ~st.clat /\ ~passed(ix, "addr.v4"),
            "nat64_without_clat", Severity.medium, 75, <<"nat64.dns64", "addr.v4">>)

rule_firewall_blocking_uid(ix) ==
    finding(15, failed(ix, "firewall.anomaly"), "firewall_blocking_uid", Severity.high, 85,
            <<"firewall.anomaly">>)

rule_sockets_stuck_syn_sent(ix) ==
    finding(16, failed(ix, "sockets.states") /\ evidence(ix, "sockets.states", "syn_sent") # None,
            "sockets_stuck_syn_sent", Severity.medium, 80, <<"sockets.states">>)

\* The check warns for retransmissions too: the count tells them apart.
rule_sockets_stuck_close_wait(ix) ==
    finding(17,
            /\ warned(ix, "sockets.states")
            /\ evidence(ix, "sockets.states", "close_wait") >= CLOSE_WAIT_THRESHOLD,
            "sockets_stuck_close_wait", Severity.low, 85, <<"sockets.states">>)

\* The only warning of the check is the one about competing routes.
rule_multiple_default_routes(ix) ==
    LET key == IF warned(ix, "route.v4.default") THEN "route.v4.default" ELSE "route.v6.default"
    IN finding(18, warned(ix, key), "multiple_default_routes", Severity.low, 70, <<key>>)

rule_metered_restriction(ix, st) ==
    finding(19,
            /\ evidence(ix, "android.state", "metered") = "true"
            /\ st.network # None /\ st.network.caps.known /\ ~st.network.caps.not_restricted,
            "metered_restriction", Severity.info, 90, <<"android.state">>)

RULES(ix, st) ==
    << rule_no_connectivity_at_all(ix), rule_broken_upstream_ipv6(ix),
       rule_ipv6_configured_no_route(ix), rule_ipv6_disabled_by_sysctl(ix),
       rule_gateway_unreachable(ix), rule_dns_broken_transport_ok(ix),
       rule_private_dns_blocking(ix), rule_captive_portal(ix),
       rule_validated_but_broken(ix, st), rule_framework_kernel_disagreement(ix),
       rule_vpn_leak(ix), rule_vpn_ipv6_blackhole(ix), rule_mtu_blackhole(ix),
       rule_nat64_without_clat(ix, st), rule_firewall_blocking_uid(ix),
       rule_sockets_stuck_syn_sent(ix), rule_sockets_stuck_close_wait(ix),
       rule_multiple_default_routes(ix), rule_metered_restriction(ix, st) >>

\* Worst severity first, then most confident, then the order of the table (the
\* sort is stable).
comes_before(a, b) ==
    \/ a.severity > b.severity
    \/ a.severity = b.severity /\ a.confidence > b.confidence
    \/ a.severity = b.severity /\ a.confidence = b.confidence /\ a.place < b.place

evaluate(checks, st) ==
    SortSeq(SelectSeq(RULES(CheckIndex(checks), st), LAMBDA f : f.fires), comes_before)
=============================================================================

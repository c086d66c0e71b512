------------------------------- MODULE Checks -------------------------------
(***************************************************************************)
(* The checks of a diagnosis (daemon/src/diag/mod.rs).  A check is a fact: *)
(* it reads the state gathered from the kernel and the framework, makes at *)
(* most one probe, and has a status.  What the facts mean is decided by    *)
(* the rules (module DiagRules).                                           *)
(*                                                                         *)
(* The titles, the wording of the details and the evidence no rule reads   *)
(* are left out.  An interface, a route or a server is what the checks     *)
(* tell apart of it; `routes' holds the default routes only, because no    *)
(* check looks at another one.                                             *)
(***************************************************************************)
EXTENDS ProbeResults, TLC

CONSTANT None          \* an absent Option

SYN_SENT_THRESHOLD == 5

CLOSE_WAIT_THRESHOLD == 20

-----------------------------------------------------------------------------
(* CheckBuilder.                                                           *)

check_key == [android |-> "android.state", iface |-> "iface.active",
              lookup  |-> [v4 |-> "route.lookup.v4",  v6 |-> "route.lookup.v6"],
              addr    |-> [v4 |-> "addr.v4",          v6 |-> "addr.v6"],
              default |-> [v4 |-> "route.v4.default", v6 |-> "route.v6.default"],
              rules   |-> "rules.coverage", vpn |-> "vpn.routing",
              firewall |-> "firewall.anomaly", sockets |-> "sockets.states",
              framework |-> "framework.kernel", portal |-> "captive.portal",
              gateway |-> [v4 |-> "gateway.v4", v6 |-> "gateway.v6"],
              dns     |-> [v4 |-> "dns.a",  v6 |-> "dns.aaaa"],
              tcp     |-> [v4 |-> "tcp.v4", v6 |-> "tcp.v6"],
              tls     |-> "tls.handshake", private |-> "dns.private",
              nat64   |-> "nat64.dns64", mtu |-> "mtu.pmtu"]

\* CheckBuilder::finish: a check with its status and the evidence inserted so
\* far.  `probe' is the raw result of the probe the check made.
Check(key, status, ev) ==
    [key |-> key, status |-> status, ev |-> ev, probe |-> "none"]

NoEvidence == <<>>

\* with_probe: the status is the probe's, its evidence is carried across.
with_probe(key, ok, ev) ==
    [Check(key, IF ok THEN "pass" ELSE "fail", ev) EXCEPT !.probe = IF ok THEN "ok" ELSE "failed"]

\* A chain of early returns: the status of the first condition that holds.
FirstOf(chain) ==
    chain[CHOOSE i \in DOMAIN chain :
             chain[i][1] /\ \A j \in 1..(i - 1) : ~chain[j][1]][2]

Bool(b) == IF b THEN "true" ELSE "false"

\* Iterator::find over a sequence.
Find(seq, Test(_)) ==
    IF \E i \in DOMAIN seq : Test(seq[i])
    THEN seq[CHOOSE i \in DOMAIN seq : Test(seq[i]) /\ \A j \in 1..(i - 1) : ~Test(seq[j])]
    ELSE None

\* Option::or.
Or(a, b) == IF a = None THEN b ELSE a

-----------------------------------------------------------------------------
(* Gathering: from the dumps, the lookups and the request to a DiagState.  *)

\* The framework is the only source of a netId unless the target names one.
resolve_net_id(rq) ==
    IF rq.net_id # 0 THEN rq.net_id
    ELSE IF rq.android = None THEN 0 ELSE rq.android.active

network_under_test(rq) ==
    IF rq.android = None THEN None
    ELSE Or(Find(rq.android.networks, LAMBDA n : n.net_id = resolve_net_id(rq)),
            Find(rq.android.networks, LAMBDA n : n.is_default))

\* The interface of the lookup's first hop, searched in the dump taken before.
egress_interface(route, ifaces) ==
    IF route = None THEN None ELSE Find(ifaces, LAMBDA i : i.index = route.oif)

\* The framework's servers, or one public resolver of each family.
resolve_dns_servers(network) ==
    IF network # None /\ network.lp # None /\ network.lp.dns # <<>>
    THEN network.lp.dns ELSE <<"v4", "v6">>

\* The clat interface counts only while it is up and running.
detect_clat(ifaces) ==
    LET clat == Find(ifaces, LAMBDA i : i.kind = "Clat")
    IN  clat # None /\ clat.up /\ clat.running

\* has_global_address: of global scope, neither tentative nor a failed
\* duplicate address detection.
has_global_address(iface, f) == [family |-> f, state |-> "global"] \in iface.addrs

\* DiagState: `links' is the interface dump, `kernel' what was read after it.
DiagState(rq, links, kernel) ==
    LET network == network_under_test(rq)
    IN [interfaces |-> links, routes |-> kernel.routes, rules |-> kernel.rules,
        usable |-> kernel.usable, sockets |-> kernel.sockets, network |-> network,
        lookup |-> kernel.lookup, clat |-> detect_clat(links),
        egress |-> [f \in Families |-> egress_interface(kernel.lookup[f], links)],
        dns_servers |-> resolve_dns_servers(network)]

-----------------------------------------------------------------------------
(* Structural checks.                                                      *)

check_android_state(st, rq) ==
    LET key  == check_key.android
        caps == st.network.caps
    IN IF rq.android = None THEN Check(key, "skip", NoEvidence)
       ELSE IF st.network = None THEN Check(key, "fail", NoEvidence)
       ELSE Check(key,
                  FirstOf(<< <<~caps.internet, "fail">>, <<caps.captive_portal, "warn">>,
                             <<~caps.validated, "warn">>, <<caps.partial, "warn">>,
                             <<TRUE, "pass">> >>),
                  "metered" :> Bool(~caps.not_metered))

check_active_interface(st) ==
    LET iface == Or(st.egress.v4, st.egress.v6)
    IN Check(check_key.iface,
             IF iface = None THEN "fail"
             ELSE FirstOf(<< <<~iface.up, "fail">>, <<~iface.running, "warn">>,
                             <<TRUE, "pass">> >>),
             NoEvidence)

\* Which route the kernel picks is information, not a verdict.
check_route_lookup(st, f) ==
    Check(check_key.lookup[f], IF st.lookup[f] = None THEN "fail" ELSE "info", NoEvidence)

\* A family without an egress interface is reported on the other family's.
check_address(st, f) ==
    LET key   == check_key.addr[f]
        iface == Or(st.egress[f], Or(st.egress.v4, st.egress.v6))
        tentative == [family |-> "v6", state |-> "tentative"] \in iface.addrs
    IN IF iface = None THEN Check(key, "skip", NoEvidence)
       ELSE Check(key,
                  FirstOf(<< <<has_global_address(iface, f), "pass">>,
                             <<f = "v6" /\ tentative, "warn">>, <<TRUE, "fail">> >>),
                  IF f = "v6" THEN "disable_ipv6" :> Bool(iface.disable_ipv6)
                  ELSE NoEvidence)

\* Only the default routes of the table the lookup chose count.
check_default_route(st, f) ==
    LET in_table == {r \in st.routes : /\ r.family = f
                                       /\ st.lookup[f] # None
                                       /\ r.table = st.lookup[f].table}
    IN Check(check_key.default[f],
             FirstOf(<< <<in_table = {}, "fail">>, <<Cardinality(in_table) > 1, "warn">>,
                        <<TRUE, "pass">> >>),
             NoEvidence)

check_rule_coverage(st) ==
    Check(check_key.rules,
          FirstOf(<< <<st.rules = {}, "fail">>,
                     <<\A r \in st.rules : ~r.has_fwmark, "warn">>, <<TRUE, "pass">> >>),
          NoEvidence)

\* The first tun interface that is up is taken for the VPN's.
check_vpn(st) ==
    LET key == check_key.vpn
        vpn == Find(st.interfaces, LAMBDA i : i.kind = "VpnTun" /\ i.up)
        framework_vpn == st.network # None /\ st.network.vpn
        egress_is_vpn == \E f \in Families : st.egress[f] # None /\ st.egress[f].index = vpn.index
        DefaultsV6 == {r \in st.routes : r.family = "v6"}
        vpn_default_v6 == \E r \in DefaultsV6 : vpn.index \in r.hops
        ipv6_blackholed == \E r \in DefaultsV6 :
            /\ st.lookup.v4 # None /\ r.table = st.lookup.v4.table
            /\ \/ 1 \in r.hops
               \/ r.type \in {"Unreachable", "Blackhole", "Prohibit"}
    IN IF vpn = None
       THEN Check(key, IF framework_vpn THEN "fail" ELSE "skip", "vpn_interfaces" :> "")
       ELSE Check(key,
                  FirstOf(<< <<~egress_is_vpn, "warn">>,
                             <<~vpn_default_v6 /\ ipv6_blackholed, "info">>,
                             <<~vpn_default_v6, "warn">>, <<TRUE, "pass">> >>),
                  "vpn_interfaces" :> vpn.name
                  @@ "egress_is_vpn" :> Bool(egress_is_vpn)
                  @@ "vpn_has_ipv6_routes" :> Bool(vpn_default_v6)
                  @@ "ipv6_blackholed_in_vpn_table" :> Bool(ipv6_blackholed))

\* netd's uid_owner_map as it is found: `bits' are the numbers of the bits set.
UidOwnerMaps ==
    [found : {"no map", "cannot open", "cannot look up", "no entry"}, bits : {{}}]
    \cup [found : {"entry"}, bits : {{}, {0}, {1}, {2, 4}, {3, 11}}]

\* No entry is an answer; a map that cannot be read is not.
read_uid_firewall(map) ==
    [source_available |-> map.found \in {"no entry", "entry"}, raw_match |-> map.bits]

\* The bits that deny whichever chains are enabled.
DENY_BITS == {1, 8, 9, 10, 11}

is_unambiguously_denied(state) == state.source_available /\ state.raw_match \cap DENY_BITS # {}

check_firewall(rq, map) ==
    LET state == read_uid_firewall(map)
    IN Check(check_key.firewall,
             FirstOf(<< <<~rq.has_as_uid, "info">>, <<~state.source_available, "skip">>,
                        <<is_unambiguously_denied(state), "fail">>,
                        <<state.raw_match = {}, "pass">>, <<TRUE, "info">> >>),
             NoEvidence)

check_socket_states(st) ==
    LET s == st.sockets
    IN Check(check_key.sockets,
             FirstOf(<< <<s.total = 0, "skip">>,
                        <<s.syn_sent >= SYN_SENT_THRESHOLD, "fail">>,
                        <<s.close_wait >= CLOSE_WAIT_THRESHOLD, "warn">>,
                        <<s.established > 0 /\ 4 * s.retransmitting > s.established, "warn">>,
                        <<TRUE, "pass">> >>),
             "syn_sent" :> s.syn_sent @@ "close_wait" :> s.close_wait)

\* The framework's LinkProperties against the kernel: the interface, its
\* state, its MTU, its addresses, and the default routes against the lookups.
check_framework_agreement(st) ==
    LET key   == check_key.framework
        lp    == st.network.lp
        iface == Find(st.interfaces, LAMBDA i : i.name = lp.interface_name)
        disagree == \/ iface = None /\ lp.interface_name # ""
                    \/ /\ iface # None
                       /\ \/ ~iface.up
                          \/ lp.mtu > 0 /\ iface.mtu > 0 /\ lp.mtu # iface.mtu
                          \/ ~(lp.addresses \subseteq {a.family : a \in iface.addrs})
                    \/ \E f \in lp.defaults : st.lookup[f] = None
    IN Check(key,
             IF st.network = None \/ lp = None THEN "skip"
             ELSE IF disagree THEN "fail" ELSE "pass",
             NoEvidence)

check_captive_portal(st) ==
    LET caps == st.network.caps
    IN Check(check_key.portal,
             IF st.network = None THEN "skip"
             ELSE FirstOf(<< <<caps.captive_portal, "fail">>,
                             <<~caps.validated /\ caps.internet, "warn">>,
                             <<TRUE, "pass">> >>),
             NoEvidence)

-----------------------------------------------------------------------------
(* Probes.  The last argument is what arrives while the probe waits.        *)

\* Mutant: the neighbour table is not consulted.
GatewayByPingOnly(st, f, answer) ==
    IF st.lookup[f] = None \/ ~st.lookup[f].gateway
    THEN Check(check_key.gateway[f], "skip", NoEvidence)
    ELSE with_probe(check_key.gateway[f], ping(answer.kind, 2, answer.arrivals), NoEvidence)

\* A gateway that drops echo requests but is a usable neighbour is a warning.
check_gateway(st, f, answer) ==
    LET key  == check_key.gateway[f]
        ok   == ping(answer.kind, 2, answer.arrivals)
        ours == \E n \in 1..2 : [seq |-> n, to |-> "this socket"] \in answer.arrivals[n]
    IN IF st.lookup[f] = None \/ ~st.lookup[f].gateway THEN Check(key, "skip", NoEvidence)
       ELSE [Check(key, FirstOf(<< <<ok, "pass">>, <<f \in st.usable, "warn">>, <<TRUE, "fail">> >>),
                   NoEvidence)
             EXCEPT !.probe = FirstOf(<< <<~ok, "failed">>, <<ours, "ok">>, <<TRUE, "foreign">> >>)]

\* The servers are tried in order until one answers.
check_dns(st, f, replies) ==
    IF st.dns_servers = <<>> THEN Check(check_key.dns[f], "skip", NoEvidence)
    ELSE with_probe(check_key.dns[f], some_server_answers(replies), NoEvidence)

check_tcp(st, f, outcome) ==
    IF st.lookup[f] = None THEN Check(check_key.tcp[f], "skip", NoEvidence)
    ELSE with_probe(check_key.tcp[f], connect(outcome), NoEvidence)


\* The handshake runs over a family whose TCP check passed, IPv6 first.
check_tls(existing, outcome) ==
    LET passed(f) == \E i \in DOMAIN existing : /\ existing[i].key = check_key.tcp[f]
                                                /\ existing[i].status = "pass"
    IN IF ~\E f \in Families : passed(f) THEN Check(check_key.tls, "skip", NoEvidence)
       ELSE with_probe(check_key.tls, tls_probe(outcome), NoEvidence)

\* The servers to connect to on port 853.
dot_servers(st) ==
    IF st.network.lp.validated_dot # <<>> THEN st.network.lp.validated_dot ELSE st.dns_servers

\* Only strict mode fails: the opportunistic mode falls back to cleartext.
check_private_dns(st, outcomes) ==
    LET key == check_key.private
        lp  == st.network.lp
        reachable == \E i \in DOMAIN dot_servers(st) : connect(outcomes[i])
    IN IF st.network = None \/ lp = None \/ lp.private_dns \in {"Off", "Unspecified"}
       THEN Check(key, "skip", NoEvidence)
       ELSE Check(key,
                  FirstOf(<< <<~reachable /\ lp.private_dns = "Strict", "fail">>,
                             <<~reachable, "warn">>, <<~lp.private_dns_active, "warn">>,
                             <<TRUE, "pass">> >>),
                  NoEvidence)

\* RFC 7050: an IPv6 address for ipv4only.arpa that embeds a well-known IPv4
\* address was made by a DNS64 server.
check_nat64(st, addresses) ==
    LET key   == check_key.nat64
        found == {extract_nat64_prefix(a) : a \in addresses} \ {0}
        synthesised == found # {}
    IN IF st.dns_servers = <<>> THEN Check(key, "skip", NoEvidence)
       ELSE [Check(key,
                   FirstOf(<< <<synthesised /\ st.clat, "pass">>, <<synthesised \/ st.clat, "warn">>,
                              <<TRUE, "skip">> >>),
                   IF synthesised THEN "prefix_len" :> CHOOSE len \in found : TRUE ELSE NoEvidence)
             EXCEPT !.probe = IF synthesised THEN "ok" ELSE "failed"]

\* The search is reported as information when the route already has a cached
\* path MTU below the interface's.
check_mtu(st, path) ==
    LET key    == check_key.mtu
        iface  == Or(st.egress.v4, st.egress.v6)
        f      == IF st.lookup.v4 # None THEN "v4" ELSE "v6"
        route  == st.lookup[f]
        result == discover(iface.mtu, f, path)
        probed == with_probe(key, result.ok,
                             IF result.largest_ok = 0 THEN NoEvidence
                             ELSE "measured_path_mtu" :> result.largest_ok)
    IN IF iface = None \/ route = None THEN Check(key, "skip", NoEvidence)
       ELSE IF route.mtu > 0 /\ route.mtu < iface.mtu
            THEN [probed EXCEPT !.status = "info"] ELSE probed
=============================================================================

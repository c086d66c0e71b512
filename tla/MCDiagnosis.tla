----------------------------- MODULE MCDiagnosis -----------------------------
(* The kernels, the frameworks and the requests of the Diagnosis runs.      *)
EXTENDS Inspection

Addrs(fs, state) == {[family |-> f, state |-> state] : f \in fs}

Iface(index, name, kind, addrs) ==
    [index |-> index, name |-> name, kind |-> kind, up |-> TRUE, running |-> TRUE,
     mtu |-> 1500, addrs |-> addrs, disable_ipv6 |-> FALSE]

Lo   == Iface(1, "lo", "Loopback", {})
Wlan == Iface(2, "wlan0", "Wifi", Addrs(Families, "global"))
Tun0 == Iface(3, "tun0", "VpnTun", Addrs({"v4"}, "global"))
Tun1 == Iface(4, "tun1", "VpnTun", Addrs(Families, "global"))
Clat == Iface(5, "v4-wlan0", "Clat", Addrs({"v4"}, "global"))

Default(f, table, oif, metric) ==
    [family |-> f, table |-> table, metric |-> metric, hops |-> {oif}, type |-> "Unicast"]

Route(table, oif) == [table |-> table, oif |-> oif, gateway |-> TRUE, mtu |-> 0]

Rule(f, priority, table) ==
    [family |-> f, priority |-> priority, table |-> table, has_uid_range |-> FALSE,
     uid_range_start |-> 0, uid_range_end |-> 0, invert |-> FALSE, has_fwmark |-> FALSE,
     fwmark |-> {}]

MarkRule(f, priority, table, marks) ==
    [Rule(f, priority, table) EXCEPT !.has_fwmark = TRUE, !.fwmark = marks]

UidRule(f, priority, table, lo, hi, invert) ==
    [Rule(f, priority, table) EXCEPT !.has_uid_range = TRUE, !.uid_range_start = lo,
                                     !.uid_range_end = hi, !.invert = invert]

\* The rules of a network: for sockets marked with its netId, and for unmarked ones.
NetworkRules == UNION {{MarkRule(f, 16, 102, {102}), MarkRule(f, 31, 102, {0})} : f \in Families}

Healthy ==
    [ifaces |-> <<Lo, Wlan>>,
     routes |-> {Default(f, 102, 2, 0) : f \in Families},
     rules  |-> NetworkRules, usable |-> Families, app_sockets |-> <<>>,
     sockets |-> [total |-> 9, established |-> 8, syn_sent |-> 0, close_wait |-> 0,
                  retransmitting |-> 0],
     lookup |-> [f \in Families |-> Route(102, 2)], path_mtu |-> 1500, dns64 |-> 0]

Caps == [known |-> TRUE, internet |-> TRUE, validated |-> TRUE, captive_portal |-> FALSE,
         partial |-> FALSE, not_metered |-> TRUE, not_restricted |-> TRUE,
         vpn_uid_ranges |-> {}]

Lp == [interface_name |-> "wlan0", mtu |-> 1500, addresses |-> Families, defaults |-> Families,
       dns |-> <<"v4">>, private_dns |-> "Off", private_dns_active |-> FALSE,
       validated_dot |-> <<>>]

Network == [net_id |-> 102, is_default |-> TRUE, vpn |-> FALSE, caps |-> Caps, lp |-> Lp]

Android(network) == [active |-> network.net_id, networks |-> <<network>>]

\* The uid of the app asked about.
AppUid == 10

Request == [kind |-> "plain", android |-> Android(Network), net_id |-> 0, has_as_uid |-> FALSE,
            only |-> {}, skip |-> {}, passive |-> FALSE, emit |-> FALSE,
            uid |-> AppUid, app_query |-> "none"]

\* The framework says that a VPN is up and that the app is in it.
VpnAndroid ==
    [active |-> 103,
     networks |-> <<Network, [Network EXCEPT !.net_id = 103, !.is_default = FALSE, !.vpn = TRUE,
                                             !.caps.vpn_uid_ranges = {<<1, 10>>}]>>]

Only(kind, keys) == [Request EXCEPT !.kind = kind, !.only = keys]

-----------------------------------------------------------------------------
(* Kernels by what they vary.                                               *)

\* Families with and without a route, default routes of the chosen table and of
\* another, IPv6 addresses, gateways.
PathKernels ==
    {[Healthy EXCEPT !.lookup = l, !.routes = {Default("v4", 102, 2, 0)} \cup d, !.usable = u,
                     !.ifaces = <<Lo, [Wlan EXCEPT !.addrs = a]>>] :
        l \in {[v4 |-> a4, v6 |-> a6] : a4 \in {None, Route(102, 2)}, a6 \in {None, Route(102, 2)}},
        d \in {{}, {Default("v6", 102, 2, 0)}, {Default("v6", 99, 2, 0)},
               {Default("v6", 102, 2, 0), Default("v6", 102, 2, 1)}},
        u \in {{}, Families},
        a \in {Addrs(Families, "global"), Addrs({"v6"}, "global"),
               Addrs({"v4"}, "global") \cup Addrs({"v6"}, "tentative")}}

\* IPv6 disabled by sysctl, an interface that is down or has no carrier, clat.
LinkKernels ==
    {[Healthy EXCEPT !.ifaces = <<Lo, [Wlan EXCEPT !.up = up, !.running = run, !.disable_ipv6 = d,
                                        !.addrs = IF d THEN Addrs({"v4"}, "global") ELSE Addrs({"v6"}, "global")]>>
                                \o c,
                     !.dns64 = IF d THEN 0 ELSE 96] :
        up \in BOOLEAN, run \in BOOLEAN, d \in BOOLEAN,
        c \in {<<>>, <<Clat>>, <<[Clat EXCEPT !.running = FALSE]>>}}

\* How a VPN takes uids in: by no rule, all of them, or a per-app list with the app first,
\* last, inside or between the ranges, or with inverted ranges; a rule that
\* takes the app out; a rule of no uid before the VPN's.
VpnRules(f, table) ==
    {{UidRule(f, 12, table, lo, hi, FALSE)} : lo \in {1, 10}, hi \in {10, 99}}
    \cup {{}, {UidRule(f, 12, table, 1, 9, FALSE), UidRule(f, 12, table, 11, 99, FALSE)}}
    \cup {{UidRule(f, 12, table, u, u, TRUE)} : u \in {10, 11}}
    \cup {{UidRule(f, 12, table, 1, 99, FALSE), r} :
            r \in {UidRule(f, 11, 102, 10, 10, FALSE), Rule(f, 11, 102)}}
    \cup {{UidRule(f, 12, table, 1, 10, FALSE), UidRule(f, 11, 102, 10, 10, FALSE)},
          {UidRule(f, 12, table, 11, 11, TRUE), UidRule(f, 11, 102, 10, 10, FALSE)}}

\* Two of the app's sockets are pinned to the VPN, one to wlan0, one to nothing.
Pinned == <<[has_mark |-> TRUE, net_id |-> 102], [has_mark |-> TRUE, net_id |-> 103],
            [has_mark |-> TRUE, net_id |-> 103], [has_mark |-> FALSE, net_id |-> 0]>>

\* One or two tunnels, the first up or down; IPv4 or IPv6 in a tunnel's table,
\* routed, blackholed or absent.
VpnKernels(r) ==
    LET kernels ==
            {[Healthy EXCEPT !.ifaces = <<Lo, Wlan>> \o t, !.rules = NetworkRules \cup v4 \cup v6,
                             !.routes = {Default("v4", 102, 2, 0), Default("v6", 102, 2, 0)} \cup d,
                             !.app_sockets = s] :
                t \in {<<Tun0>>, <<Tun0, Tun1>>, <<[Tun0 EXCEPT !.up = FALSE]>>},
                v4 \in VpnRules("v4", 103), v6 \in {{}, {UidRule("v6", 12, 103, 1, 99, FALSE)},
                                                    {UidRule("v6", 12, 104, 1, 99, FALSE)}},
                d \in {{Default("v4", 103, 3, 0)}, {Default("v6", 103, 3, 0)},
                       {Default("v4", 103, 3, 0), Default("v6", 104, 4, 0)},
                       {Default("v4", 103, 3, 0), Default("v6", 103, 1, 0)},
                       {Default("v4", 103, 3, 0),
                        [Default("v6", 103, 0, 0) EXCEPT !.type = "Unreachable"]}},
                s \in IF r.app_query = "full" THEN {Pinned} ELSE {<<>>}}
    IN {[k EXCEPT !.lookup = [f \in Families |-> fib_lookup(k, IF r.has_as_uid THEN r.uid ELSE 0,
                                                             resolve_net_id(r), f)]] : k \in kernels}

SocketKernels ==
    {[Healthy EXCEPT !.sockets = [total |-> t, established |-> 8, syn_sent |-> s, close_wait |-> c,
                                  retransmitting |-> r], !.rules = m] :
        t \in {0, 99}, s \in {4, 5}, c \in {19, 20}, r \in {2, 3},
        m \in {{}, {Rule("v4", 31, 102)}, NetworkRules}}

\* A cached path MTU, an on-link route.
MtuKernels ==
    {[Healthy EXCEPT !.lookup = [v4 |-> v4, v6 |-> None], !.path_mtu = p] :
        p \in {0, 1400, 1492, 1500}, v4 \in {Route(102, 2), [Route(102, 2) EXCEPT !.mtu = 1400],
                [Route(102, 2) EXCEPT !.gateway = FALSE]}}

\* Every standard prefix length of a DNS64 server.
Nat64Kernels == {[Healthy EXCEPT !.dns64 = len] : len \in {32, 40, 48, 56, 64, 96}}

Frameworks ==
    {Android([Network EXCEPT !.caps = c, !.lp = l]) :
        c \in [known : {TRUE}, internet : BOOLEAN, validated : BOOLEAN, captive_portal : BOOLEAN,
               partial : BOOLEAN, not_metered : BOOLEAN, not_restricted : BOOLEAN,
               vpn_uid_ranges : {{}}],
        l \in {Lp, None, [Lp EXCEPT !.interface_name = "gone0"], [Lp EXCEPT !.mtu = 1400]}}

PrivateDns ==
    {Android([Network EXCEPT !.lp = [Lp EXCEPT !.private_dns = m, !.private_dns_active = a,
                                             !.validated_dot = d]]) :
        d \in {<<>>, <<"v6", "v6">>}, m \in {"Off", "Opportunistic", "Strict"}, a \in BOOLEAN}

\* What a run about the path leaves to the requests about it.
Unrelated == {"firewall.anomaly", "dns.private", "nat64.dns64", "mtu.pmtu"}

SomeKeys == {"android.state", "tcp.v4", "tls.handshake"}

MCRequests ==
    {[Request EXCEPT !.kind = "path", !.skip = Unrelated], Only("nat64", {"addr.v4", "nat64.dns64"})}
    \cup {[Request EXCEPT !.android = None, !.skip = Unrelated]}
    \cup {[Request EXCEPT !.kind = "link", !.skip = s] : 
            s \in {{"gateway.v4", "gateway.v6", "mtu.pmtu"}, Unrelated \cup {"iface.active", "addr.v4"}}}
    \cup {[Only("vpn", {"vpn.routing", "route.lookup.v4", "iface.active"})
             EXCEPT !.android = a, !.has_as_uid = u, !.app_query = q] :
            a \in {None, VpnAndroid}, u \in BOOLEAN, q \in {"full", "without lookups"}}
    \cup {[Request EXCEPT !.kind = "sockets", !.passive = TRUE, !.has_as_uid = u] : u \in BOOLEAN}
    \cup {Only("mtu", {"gateway.v4", "tcp.v4", "tcp.v6", "tls.handshake", "mtu.pmtu"})}
    \cup {[Only("plain", {"android.state", "captive.portal", "framework.kernel"})
             EXCEPT !.android = a] : a \in Frameworks}
    \cup {[Only("plain", {"dns.private", "dns.a"}) EXCEPT !.android = a] : a \in PrivateDns}
    \cup {[Request EXCEPT !.kind = "plain", !.net_id = 7, !.passive = TRUE,
                          !.android = [Android(Network) EXCEPT !.networks[1].is_default = b]] : b \in BOOLEAN}
    \cup {[Request EXCEPT !.passive = TRUE, !.emit = TRUE], [Only("plain", SomeKeys) EXCEPT !.emit = TRUE]}

Nat64Requests == {Only("nat64", {"addr.v4", "nat64.dns64"})}

Same(kernels) == {<<k, k>> : k \in kernels}

\* An interface that appears between the dump and the lookups.
Changes == {<<[k EXCEPT !.ifaces = <<Lo>>], k>> : k \in {Healthy}}

MCReadings(r) ==
    CASE r.kind = "path"    -> Same(PathKernels) \cup Changes
      [] r.kind = "link"    -> Same(LinkKernels)
      [] r.kind = "vpn"     -> Same(VpnKernels(r))
      [] r.kind = "sockets" -> Same(SocketKernels)
      [] r.kind = "mtu"     -> Same(MtuKernels)
      [] r.kind = "nat64"   -> Same(Nat64Kernels)
      [] OTHER              -> Same({Healthy})
=============================================================================

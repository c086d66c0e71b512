------------------------------ MODULE Correlate ------------------------------
(***************************************************************************)
(* What the daemon tells about one app (daemon/src/correlate.rs): the      *)
(* policy rules that can match its uid, the route the kernel picks for it, *)
(* the networks its sockets are pinned to, and whether it is in the VPN    *)
(* and why not.  The kernel's own policy routing is modelled beside it, as *)
(* the reference for what the answer says.                                 *)
(***************************************************************************)
EXTENDS Checks, SequencesExt

-----------------------------------------------------------------------------
(* The kernel.  A rule's mark selector is None or the set of netIds it      *)
(* accepts, 0 being an unmarked packet; `invert' negates the whole rule.    *)

in_range(r, uid) == uid >= r.uid_range_start /\ uid <= r.uid_range_end

Selects(r, uid, mark) ==
    (/\ r.has_uid_range => in_range(r, uid)
     /\ r.has_fwmark => mark \in r.fwmark) # r.invert

Defaults(kernel, table, f) == {d \in kernel.routes : d.table = table /\ d.family = f}

\* The first rule that applies and whose table has a route decides.
Deciding(kernel, uid, mark, f) ==
    LET able == {r \in kernel.rules : /\ r.family = f /\ Selects(r, uid, mark)
                                      /\ Defaults(kernel, r.table, f) # {}}
    IN IF able = {} THEN None ELSE CHOOSE r \in able : \A q \in able : r.priority <= q.priority

\* RTM_GETROUTE for a uid and a mark; a route of an error type is an error.
fib_lookup(kernel, uid, mark, f) ==
    LET rule  == Deciding(kernel, uid, mark, f)
        ds    == Defaults(kernel, rule.table, f)
        route == CHOOSE d \in ds : \A e \in ds : d.metric <= e.metric
    IN IF rule = None \/ route.type # "Unicast" THEN None
       ELSE [table |-> rule.table, oif |-> CHOOSE h \in route.hops : TRUE, gateway |-> TRUE, mtu |-> 0]

-----------------------------------------------------------------------------
\* Mutant: an inverted range is read as a plain one.
RuleIgnoresInvert(r, uid) == r.has_uid_range => in_range(r, uid)

\* A rule without a uid range applies to everyone.
rule_can_match_uid(r, uid) == r.has_uid_range => (in_range(r, uid) # r.invert)

matching_rules(rules, uid) ==
    {r \in rules : rule_can_match_uid(r, uid) /\ (r.has_uid_range \/ r.has_fwmark)}

\* get_rules sorts by family and priority; find takes the first.
FirstRule(rules) ==
    IF rules = {} THEN None
    ELSE CHOOSE r \in rules : \A q \in rules :
            \/ r.family = "v4" /\ q.family = "v6"
            \/ r.family = q.family /\ r.priority <= q.priority

\* The netIds of the app's marked sockets, most used first, then by number.
observed_net_ids(sockets) ==
    LET ids == {s.net_id : s \in {t \in Range(sockets) : t.has_mark /\ t.net_id # 0}}
        count(id) == Cardinality({i \in DOMAIN sockets : sockets[i].has_mark /\ sockets[i].net_id = id})
    IN SetToSortSeq(ids, LAMBDA a, b : count(a) > count(b) \/ (count(a) = count(b) /\ a < b))

\* The network the sockets are pinned to, or the default one.
android_network(android, ids) ==
    IF android = None THEN None
    ELSE Or(IF ids = <<>> THEN None ELSE Find(android.networks, LAMBDA n : n.net_id = ids[1]),
            Find(android.networks, LAMBDA n : n.is_default))

\* Tables with a default route through a tun interface, up or not.
vpn_tables(links, routes) ==
    LET tuns == {i.index : i \in {l \in Range(links) : l.kind = "VpnTun"}}
    IN {r.table : r \in {d \in routes : d.hops \cap tuns # {}}}


\* Why the app is not in the VPN: the sentence, and the rule it names.
bypass_reason(rules, tables, uid, uses_vpn) ==
    LET covering  == {r \in rules : r.has_uid_range /\ in_range(r, uid)}
        bypass    == FirstRule({r \in covering : r.invert})
        explicit  == FirstRule({r \in covering : ~r.invert})
        vpn_rules == {r \in rules : r.has_uid_range /\ r.table \in tables}
        covered   == \E r \in vpn_rules : in_range(r, uid) /\ ~r.invert
        why(w, r) == [why |-> w, rule |-> r]
    IN FirstOf(<< <<bypass # None, why("a rule excludes it", bypass)>>,
                  <<~uses_vpn /\ vpn_rules # {} /\ ~covered, why("outside the VPN's ranges", None)>>,
                  <<~uses_vpn /\ explicit # None, why("a rule sends it elsewhere", explicit)>>,
                  <<~uses_vpn, why("the lookup", None)>>,
                  <<TRUE, why("", None)>> >>)

framework_says_in_vpn(android, uid) ==
    LET network == IF android = None THEN None ELSE Find(android.networks, LAMBDA n : n.vpn)
    IN /\ network # None /\ network.caps # None
       /\ \/ network.caps.vpn_uid_ranges = {}
          \/ \E r \in network.caps.vpn_uid_ranges : uid >= r[1] /\ uid <= r[2]

NoVpn == [vpn_present |-> FALSE, app_uses_vpn |-> FALSE, bypass |-> [why |-> "", rule |-> None],
          disagreement |-> FALSE, split_tunnel |-> FALSE]

\* Mutant: only the IPv4 lookup is looked at.
AssessByIPv4(links, rules, tables, uid, lookup, android) ==
    LET vpn == Find(links, LAMBDA i : i.kind = "VpnTun" /\ i.up)
        uses_vpn == lookup.v4 # None /\ lookup.v4.oif = vpn.index
    IN IF vpn = None THEN NoVpn
       ELSE [vpn_present |-> TRUE, app_uses_vpn |-> uses_vpn,
             bypass |-> bypass_reason(rules, tables, uid, uses_vpn),
             disagreement |-> framework_says_in_vpn(android, uid) # uses_vpn,
             split_tunnel |-> FALSE]

\* The first tun interface that is up is taken for the VPN's; the app uses it if
\* the lookup of either family leaves through it.
assess_vpn(links, rules, tables, uid, lookup, android) ==
    LET vpn == Find(links, LAMBDA i : i.kind = "VpnTun" /\ i.up)
        inside(f) == lookup[f] # None /\ lookup[f].oif = vpn.index
        uses_vpn  == \E f \in Families : inside(f)
    IN IF vpn = None THEN NoVpn
       ELSE [vpn_present |-> TRUE, app_uses_vpn |-> uses_vpn,
             bypass |-> bypass_reason(rules, tables, uid, uses_vpn),
             disagreement |-> framework_says_in_vpn(android, uid) # uses_vpn,
             split_tunnel |-> inside("v4") # inside("v6")]

\* The egress a summary names for a family, or "" without a route.
egress_name(route, links) ==
    LET iface == egress_interface(route, links) IN IF iface = None THEN "" ELSE iface.name

\* The interfaces are dumped first; rules, lookups, sockets and routes follow.
app_network_state(uid, android, skip_lookup, links, kernel, map) ==
    LET lookup == [f \in Families |-> IF skip_lookup THEN None ELSE fib_lookup(kernel, uid, 0, f)]
        ids    == observed_net_ids(kernel.app_sockets)
        vpn    == assess_vpn(links, kernel.rules, vpn_tables(links, kernel.routes), uid, lookup, android)
    IN [matching_rules |-> matching_rules(kernel.rules, uid),
        egress |-> [f \in Families |-> egress_name(lookup[f], links)],
        path_ok |-> [f \in Families |-> lookup[f] # None],
        observed_net_ids |-> ids, android_network |-> android_network(android, ids), vpn |-> vpn,
        firewall |-> read_uid_firewall(map)]
=============================================================================

------------------------------ MODULE Diagnosis ------------------------------
(***************************************************************************)
(* One diagnosis (daemon/src/diag/mod.rs, run) and the task that streams   *)
(* its checks to the client (daemon/src/daemon.rs, diagnose_stream).       *)
(*                                                                         *)
(* The engine gathers kernel state with several dumps, between which the   *)
(* kernel may change; it then runs the wanted checks in a fixed order,     *)
(* each probe with an outcome the network decides; it pushes every check   *)
(* both into the report and, without waiting, into a bounded channel; a    *)
(* second task forwards the channel to the client.  When the checks are    *)
(* done the rules are evaluated, the channel closes, the forwarder is      *)
(* awaited and the report is sent.  The stream may be cancelled, and the   *)
(* client may leave, at any moment.  The daemon's self-test runs the same  *)
(* engine without a stream.                                                *)
(***************************************************************************)
EXTENDS DiagRules

CONSTANTS
    Requests,     \* the requests to consider
    Readings(_),  \* for a request, the pairs of kernel states that the interface
                  \* dump and the reads after it may see
    MaxServers,   \* bound: DNS servers of a network
    ChannelCap    \* mpsc::channel(64) of diagnose_stream

VARIABLES
    rq,           \* the request
    kernel,       \* << what the first dump sees, what the later reads see >>
    phase,        \* where run and diagnose_stream are
    links,        \* the interface dump
    st,           \* DiagState
    checks,       \* the report's checks so far
    chan,         \* the channel of checks
    forwarder,    \* "none" (no stream), "running", "over"
    sent,         \* checks the client was sent
    answered,     \* the final frame with the report was sent
    alive         \* the client is connected

vars == <<rq, kernel, phase, links, st, checks, chan, forwarder, sent,
          answered, alive>>

-----------------------------------------------------------------------------
\* The order of the checks in run: structural checks first, then the probes.
Structural ==
    << "android.state", "iface.active", "route.lookup.v4", "route.lookup.v6", "addr.v4",
       "addr.v6", "route.v4.default", "route.v6.default", "rules.coverage", "vpn.routing",
       "firewall.anomaly", "sockets.states", "framework.kernel", "captive.portal" >>

Probes ==
    << "gateway.v4", "gateway.v6", "dns.a", "dns.aaaa", "tcp.v4", "tcp.v6",
       "tls.handshake", "dns.private", "nat64.dns64", "mtu.pmtu" >>

wanted(r, key) == key \notin r.skip /\ (r.only = {} \/ key \in r.only)

Plan(r) == SelectSeq(Structural \o Probes, LAMBDA k : wanted(r, k))

\* What may arrive while the check of a key waits.
EchoAnswers ==
    LET own(n) == [seq |-> n, to |-> "this socket"]
        other  == [seq |-> 1, to |-> "another process"]
    IN {[kind |-> k, arrivals |-> a] : k \in SocketKinds,
            a \in {<<{}, {}>>, <<{own(1)}, {}>>, <<{}, {own(1)}>>, <<{}, {own(2)}>>, <<{other}, {}>>}}

NativeAddress == [o \in 0..15 |-> 38]

Answers(key) ==
    CASE key = "firewall.anomaly" -> UidOwnerMaps
      [] key \in {"gateway.v4", "gateway.v6"} -> EchoAnswers
      [] key \in {"dns.a", "dns.aaaa"} -> [DOMAIN st.dns_servers -> DnsReplies]
      [] key \in {"tcp.v4", "tcp.v6"} -> ConnectOutcomes
      [] key = "tls.handshake" -> TlsOutcomes
      [] key = "dns.private" -> [1..MaxServers -> {"connected", "timeout"}]
      [] key = "nat64.dns64" ->
            {{}, {NativeAddress}} \cup
            IF kernel[2].dns64 = 0 THEN {}
            ELSE {{Synthesised(kernel[2].dns64, v4)} : v4 \in WKA}
      [] key = "mtu.pmtu" ->
            {[mtu |-> kernel[2].path_mtu, kind |-> k, late |-> l] :
                k \in SocketKinds, l \in SUBSET {1500, 1492}}
      [] OTHER -> {"none"}

\* The check of one key; in a passive run the probes are only listed.
RunCheck(key, answer) ==
    IF rq.passive /\ key \in Range(Probes) THEN Check(key, "skip", NoEvidence)
    ELSE CASE key = "android.state"    -> check_android_state(st, rq)
           [] key = "iface.active"     -> check_active_interface(st)
           [] key = "route.lookup.v4"  -> check_route_lookup(st, "v4")
           [] key = "route.lookup.v6"  -> check_route_lookup(st, "v6")
           [] key = "addr.v4"          -> check_address(st, "v4")
           [] key = "addr.v6"          -> check_address(st, "v6")
           [] key = "route.v4.default" -> check_default_route(st, "v4")
           [] key = "route.v6.default" -> check_default_route(st, "v6")
           [] key = "rules.coverage"   -> check_rule_coverage(st)
           [] key = "vpn.routing"      -> check_vpn(st)
           [] key = "firewall.anomaly" -> check_firewall(rq, answer)
           [] key = "sockets.states"   -> check_socket_states(st)
           [] key = "framework.kernel" -> check_framework_agreement(st)
           [] key = "captive.portal"   -> check_captive_portal(st)
           [] key = "gateway.v4"       -> check_gateway(st, "v4", answer)
           [] key = "gateway.v6"       -> check_gateway(st, "v6", answer)
           [] key = "dns.a"            -> check_dns(st, "v4", answer)
           [] key = "dns.aaaa"         -> check_dns(st, "v6", answer)
           [] key = "tcp.v4"           -> check_tcp(st, "v4", answer)
           [] key = "tcp.v6"           -> check_tcp(st, "v6", answer)
           [] key = "tls.handshake"    -> check_tls(checks, answer)
           [] key = "dns.private"      -> check_private_dns(st, answer)
           [] key = "nat64.dns64"      -> check_nat64(st, answer)
           [] key = "mtu.pmtu"         -> check_mtu(st, answer)

\* The counts, the worst severity and the headline of the report.
finish(cs, findings) ==
    LET count(s) == Cardinality({i \in DOMAIN cs : cs[i].status = s})
    IN [findings |-> findings,
        passed |-> count("pass"), failed |-> count("fail"),
        warned |-> count("warn"), skipped |-> count("skip"),
        worst |-> Max({f.severity : f \in Range(findings)} \cup {Severity.unspecified}),
        summary |-> IF findings # <<>> THEN findings[1].id
                    ELSE FirstOf(<< <<count("fail") + count("warn") = 0, "healthy">>,
                                    <<count("fail") = 0, "warnings">>,
                                    <<TRUE, "no known pattern">> >>)]

\* What run returns once it has concluded; a failed gather has no findings.
response ==
    IF phase \notin {"returned", "done"} THEN None
    ELSE finish(checks, IF st = None THEN <<>> ELSE evaluate(checks, st))

\* push: try_send drops the copy for the stream when the channel is full or the
\* forwarder is gone; the report always gets the check.
push(check) ==
    /\ checks' = Append(checks, check)
    /\ chan' = IF forwarder = "running" /\ Len(chan) < ChannelCap
               THEN Append(chan, check) ELSE chan

-----------------------------------------------------------------------------
Init ==
    /\ rq \in Requests
    /\ kernel \in Readings(rq)
    /\ phase = "links"
    /\ links = <<>> /\ st = None /\ checks = <<>>
    /\ chan = <<>> /\ sent = <<>> /\ answered = FALSE /\ alive = TRUE
    /\ forwarder = IF rq.emit THEN "running" ELSE "none"

\* gather: the interface dump ...
GatherLinks ==
    /\ phase = "links"
    /\ links' = kernel[1].ifaces
    /\ phase' = "tables"
    /\ UNCHANGED <<rq, kernel, st, checks, chan, forwarder, sent, answered, alive>>

\* ... then the other dumps and the route lookups, resolved against it.
GatherTables ==
    /\ phase = "tables"
    /\ st' = DiagState(rq, links, kernel[2])
    /\ phase' = "checks"
    /\ UNCHANGED <<rq, kernel, links, checks, chan, forwarder, sent, answered, alive>>

\* A dump that fails ends the run with one failed check and no finding.
GatherFails ==
    /\ phase \in {"links", "tables"}
    /\ push(Check("iface.active", "fail", NoEvidence))
    /\ phase' = "returned"
    /\ UNCHANGED <<rq, kernel, links, st, forwarder, sent, answered, alive>>

NextCheck ==
    /\ phase = "checks"
    /\ Len(checks) < Len(Plan(rq))
    /\ LET key == Plan(rq)[Len(checks) + 1]
       IN \E answer \in Answers(key) : push(RunCheck(key, answer))
    /\ UNCHANGED <<rq, kernel, phase, links, st, forwarder, sent, answered, alive>>

Conclude ==
    /\ phase = "checks"
    /\ Len(checks) = Len(Plan(rq))
    /\ phase' = "returned"
    /\ UNCHANGED <<rq, kernel, links, st, checks, chan, forwarder, sent, answered, alive>>

\* Mutant: diagnose_stream keeps a sender of its own until it is done.
SenderKept == phase \in {"done", "cancelled"}

\* run owned the only sender: it is dropped when run returns or is aborted.
sender_dropped == phase \in {"returned", "cancelled"}

\* The forwarder sends one check, or stops when the client cannot be reached.
Forward ==
    /\ forwarder = "running"
    /\ chan # <<>>
    /\ chan' = Tail(chan)
    /\ IF alive THEN sent' = Append(sent, Head(chan)) /\ UNCHANGED forwarder
       ELSE forwarder' = "over" /\ UNCHANGED sent
    /\ UNCHANGED <<rq, kernel, phase, links, st, checks, answered, alive>>

ForwarderEnds ==
    /\ forwarder = "running"
    /\ chan = <<>> /\ sender_dropped
    /\ forwarder' = "over"
    /\ UNCHANGED <<rq, kernel, phase, links, st, checks, chan, sent, answered, alive>>

\* Mutant: the report is sent without waiting for the forwarder.
AnswerAtOnce ==
    /\ phase = "returned"
    /\ phase' = "done"
    /\ answered' = (rq.emit /\ alive)
    /\ UNCHANGED <<rq, kernel, links, st, checks, chan, forwarder, sent, alive>>

\* diagnose_stream after run: wait for the forwarder, then send the report.
Answer ==
    /\ phase = "returned"
    /\ forwarder # "running"
    /\ phase' = "done"
    /\ answered' = (rq.emit /\ alive)
    /\ UNCHANGED <<rq, kernel, links, st, checks, chan, forwarder, sent, alive>>

\* The session aborts the stream's task; the forwarder is not aborted with it.
Cancel ==
    /\ rq.emit /\ phase \notin {"done", "cancelled"}
    /\ phase' = "cancelled"
    /\ UNCHANGED <<rq, kernel, links, st, checks, chan, forwarder, sent, answered, alive>>

Disconnect ==
    /\ rq.emit /\ alive
    /\ alive' = FALSE
    /\ UNCHANGED <<rq, kernel, phase, links, st, checks, chan, forwarder, sent, answered>>

Engine == GatherLinks \/ GatherTables \/ GatherFails \/ NextCheck \/ Conclude \/ Answer

Next == Engine \/ Forward \/ ForwarderEnds \/ Cancel \/ Disconnect

\* Both tasks are scheduled by the runtime; every probe has a timeout.
Spec ==
    /\ Init /\ [][Next]_vars
    /\ WF_vars(Engine) /\ WF_vars(Forward) /\ WF_vars(ForwarderEnds)

-----------------------------------------------------------------------------
(* Properties.                                                             *)

TypeOK ==
    /\ phase \in {"links", "tables", "checks", "returned", "done", "cancelled"}
    /\ \A i \in DOMAIN checks : checks[i].status \in {"pass", "fail", "warn", "skip", "info"}
    /\ Len(checks) <= Len(Structural) + Len(Probes)
    /\ response # None => response.worst \in Range(Severity)
    /\ Len(chan) <= ChannelCap
    /\ forwarder \in {"none", "running", "over"}
    /\ answered \in BOOLEAN /\ alive \in BOOLEAN

\* Does the report of a concluded run have this finding?
Found(id) ==
    /\ phase \in {"returned", "done"}
    /\ \E f \in Range(response.findings) : f.id = id

Reported(key) == \E c \in Range(checks) : c.key = key

\* What the probe of a check really did, whatever status the check got.
ProbeOf(key) == IF Reported(key) THEN CheckIndex(checks)[key].probe ELSE "none"

StatusOf(key) == IF Reported(key) THEN CheckIndex(checks)[key].status ELSE "none"

\* The findings a user acts on are true of the kernel that was read and of the
\* probes that were made, across check, evidence and rule: "no connectivity"
\* and "DNS is broken" of the probes; "broken upstream IPv6" of the lookup, of
\* its table and of the address of its interface (when no interface changed
\* between the dump and the lookups); "gateway unreachable" of the neighbour
\* table; "DNS64 without clat" of the interfaces.
FindingsAreEarned ==
    /\ Found("no_connectivity") =>
          \A f \in Families : ProbeOf(check_key.tcp[f]) # "ok" /\ ProbeOf(check_key.dns[f]) = "failed"
    /\ Found("dns_broken_transport_ok") =>
          /\ \A f \in Families : ProbeOf(check_key.dns[f]) = "failed"
          /\ \E f \in Families : ProbeOf(check_key.tcp[f]) = "ok"
    /\ Found("broken_upstream_ipv6") /\ kernel[1].ifaces = kernel[2].ifaces =>
          LET route == kernel[2].lookup.v6
          IN /\ \E i \in Range(kernel[1].ifaces) : i.index = route.oif /\ has_global_address(i, "v6")
             /\ Cardinality({r \in kernel[2].routes : r.family = "v6" /\ r.table = route.table}) = 1
             /\ ProbeOf("tcp.v4") = "ok" /\ ProbeOf("tcp.v6") = "failed"
    /\ Found("gateway_unreachable") =>
          \E f \in Families : /\ kernel[2].lookup[f] # None /\ kernel[2].lookup[f].gateway
                              /\ f \notin kernel[2].usable
                              /\ ProbeOf(check_key.gateway[f]) = "failed"
    /\ Found("nat64_without_clat") =>
          /\ ProbeOf("nat64.dns64") = "ok"
          /\ ~\E i \in Range(kernel[1].ifaces) : i.kind = "Clat" /\ i.up /\ i.running

Layers == {"tcp.v4", "tcp.v6", "dns.a", "dns.aaaa", "tls.handshake"}


\* "A SKIPped check is not a passing check, and no rule may treat it as one":
\* taking the skipped checks out of a report changes no finding, except the one
\* that is about families without a route.
SkipsProveNothing ==
    response # None /\ st # None =>
        LET run == SelectSeq(checks, LAMBDA c : c.status # "skip")
            but(fs) == {f \in Range(fs) : f.id # "no_connectivity"}
        IN but(response.findings) = but(evaluate(run, st))

\* The stream is the report: the checks the client is sent are the report's, in
\* order and without a gap, and when the final frame goes out every one of them
\* has been sent before it.
StreamIsTheReport ==
    /\ IsPrefix(sent, checks)
    /\ answered => sent = checks

\* A diagnosis always ends, and then its forwarder ends too: the run never waits
\* for a forwarder that waits for the run.
DiagnosisEnds == <>(phase \in {"done", "cancelled"} /\ forwarder # "running")


\* icmp.rs, wait_for_reply: "Other processes' pings land here too on a raw
\* socket; keep reading until one of ours shows up".
EchoIsOurs == \A f \in Families : ProbeOf(check_key.gateway[f]) # "foreign"

\* dns.rs, extract_nat64_prefix: "Offsets and prefix lengths defined by RFC 6052":
\* the synthesised answer of a DNS64 server with any of the prefix lengths is
\* recognised, with that length.
Nat64PrefixRecovered ==
    ProbeOf("nat64.dns64") = "ok" =>
        CheckIndex(checks)["nat64.dns64"].ev["prefix_len"] = kernel[2].dns64

\* rules.rs: "If a don't-fragment probe at the full interface MTU got through,
\* the path demonstrably carries large packets and this rule is contradicted by
\* its own evidence ... so stay silent".
MtuFindingStands == Found("mtu_blackhole") => ProbeOf("mtu.pmtu") # "ok"

\* rules.rs: "A rule only fires on evidence that is actually present": leaving a
\* check out of a report adds no finding.
RulesNeedEvidence ==
    response # None /\ st # None =>
        \A k \in {c.key : c \in Range(checks)} :
            LET rest == SelectSeq(checks, LAMBDA c : c.key # k)
            IN {f.id : f \in Range(evaluate(rest, st))} \subseteq
                   {f.id : f \in Range(response.findings)}

\* check_active_interface fails with "the kernel has no route to the internet
\* for either family".
ActiveFailMeansNoRoute ==
    StatusOf("iface.active") = "fail" /\ st # None =>
        \/ \A f \in Families : kernel[2].lookup[f] = None
        \/ \E i \in Range(links) : ~i.up

\* rule_vpn_leak: "the kernel's own route lookup sends this traffic out of a
\* different interface".
VpnLeakIsALeak ==
    Found("vpn_leak") =>
        \E f \in Families : st.egress[f] # None /\ st.egress[f].kind # "VpnTun"
=============================================================================

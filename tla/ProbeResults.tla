---------------------------- MODULE ProbeResults ----------------------------
(***************************************************************************)
(* The active probes (daemon/src/probe): what each makes of the packets    *)
(* that arrive before its timeout.  A probe opens a socket of its own,     *)
(* marked with the netId and bound to the egress device; it sends, waits,  *)
(* and turns the first thing that happens into a result.  Wire formats are *)
(* abstracted to what the probe tells apart in them, except the layout of  *)
(* a synthesised IPv6 address, which a property is about.                  *)
(***************************************************************************)
EXTENDS Integers, Sequences, FiniteSetsExt

Families == {"v4", "v6"}

-----------------------------------------------------------------------------
(* icmp.rs.  An echo reply is [seq, to]: its sequence number, and whether   *)
(* it answers this socket's request, an earlier socket's, or a ping of      *)
(* another process.                                                         *)

SocketKinds == {"Datagram", "Raw"}

\* The kernel hands a datagram socket the replies to its own identifier only,
\* and a raw socket every echo reply.
Delivered(kind, reply) == kind = "Raw" \/ reply.to = "this socket"

\* Only the sequence number is compared.
matches_reply(reply, sequence) == reply.seq = sequence

\* `arrivals[n]' is what arrives between the n-th request and its deadline.
ping(kind, count, arrivals) ==
    \E n \in 1..count : \E r \in arrivals[n] : Delivered(kind, r) /\ matches_reply(r, n)

-----------------------------------------------------------------------------
(* mtu.rs.                                                                  *)

IPV6_MIN_MTU == 1280

ETHERNET_MTU == 1500

candidate_mtus(interface_mtu, f) ==
    {m \in {interface_mtu, ETHERNET_MTU, 1492, 1480, 1450, 1420, 1400, 1280, 1024, 576} :
        m >= (IF f = "v6" THEN IPV6_MIN_MTU ELSE 576) /\ m <= interface_mtu}

\* The echo of size m fits the path and is answered in time; or, on a raw socket,
\* the late answer to the size tried just before has the same sequence number.
EchoArrives(m, sizes, path) ==
    LET larger == {n \in sizes : n > m}
        own  == IF m <= path.mtu /\ m \notin path.late THEN {[seq |-> 1, to |-> "this socket"]} ELSE {}
        late == IF larger # {} /\ Min(larger) <= path.mtu /\ Min(larger) \in path.late
                THEN {[seq |-> 1, to |-> "an earlier socket"]} ELSE {}
    IN ping(path.kind, 1, <<own \cup late>>)


\* Sizes are tried from the largest down until one gets through.  The probe
\* succeeds only if that was the first one.
discover(interface_mtu, f, path) ==
    LET sizes   == candidate_mtus(IF interface_mtu = 0 THEN ETHERNET_MTU ELSE interface_mtu, f)
        arrives == {m \in sizes : EchoArrives(m, sizes, path)}
        largest_ok == IF arrives = {} THEN 0 ELSE Max(arrives)
    IN [ok |-> arrives # {} /\ largest_ok = Max(sizes), largest_ok |-> largest_ok]

-----------------------------------------------------------------------------
(* dns.rs.  What comes back to the query's socket first.                    *)

DnsReplies == {"addresses", "no records", "error code", "another id", "malformed", "nothing"}

\* decode_response refuses another query's id and a malformed message; probe
\* needs NOERROR and at least one address of the type asked for.
dns_probe(reply) == reply = "addresses"

\* The servers of the network are tried in order until one gives addresses.
some_server_answers(replies) == \E i \in DOMAIN replies : dns_probe(replies[i])

\* RFC 6052: where an IPv4 address lies in an IPv6 address whose prefix has
\* this many bits.  Octet 8 is reserved.
Rfc6052 ==
    [len \in {32, 40, 48, 56, 64, 96} |->
        CASE len = 32 -> <<4, 5, 6, 7>>  [] len = 40 -> <<5, 6, 7, 9>>
          [] len = 48 -> <<6, 7, 9, 10>> [] len = 56 -> <<7, 9, 10, 11>>
          [] len = 64 -> <<9, 10, 11, 12>> [] len = 96 -> <<12, 13, 14, 15>>]

WKA == {<<192, 0, 0, 170>>, <<192, 0, 0, 171>>}

\* A DNS64 server's answer for ipv4only.arpa: its prefix, one of the addresses
\* of RFC 7050, zeros.
Synthesised(len, v4) ==
    [o \in 0..15 |->
        IF \E i \in 1..4 : Rfc6052[len][i] = o
        THEN v4[CHOOSE i \in 1..4 : Rfc6052[len][i] = o]
        ELSE IF o < len \div 8 THEN 33 ELSE 0]

\* The octets extract_nat64_prefix reads for one entry of its table: four from
\* the offset up, the reserved one skipped except for /32 and /96.
octets_read(offset, len) ==
    [n \in 1..4 |-> LET i == offset + n - 1
                    IN IF i >= 8 /\ offset <= 8 /\ len \notin {32, 96} THEN i + 1 ELSE i]

\* The first entry that finds a well-known address decides the prefix length;
\* zero if none does.
extract_nat64_prefix(octets) ==
    LET table == << <<4, 32>>, <<5, 40>>, <<6, 48>>, <<8, 56>>, <<9, 64>>, <<12, 96>> >>
        found(k) == [n \in 1..4 |-> octets[octets_read(table[k][1], table[k][2])[n]]] \in WKA
    IN IF ~\E k \in 1..6 : found(k) THEN 0
       ELSE table[CHOOSE k \in 1..6 : found(k) /\ \A j \in 1..(k - 1) : ~found(j)][2]

-----------------------------------------------------------------------------
(* tcp.rs and tls.rs.                                                       *)

ConnectOutcomes == {"connected", "refused", "unreachable", "timeout"}

connect(outcome) == outcome = "connected"

\* A second connection is made for the handshake; then the first read decides.
TlsOutcomes == {"connect failed", "write failed", "closed", "server hello", "alert",
                "not tls", "read error", "timeout"}

tls_probe(outcome) == outcome = "server hello"
=============================================================================

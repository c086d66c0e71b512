---------------------------- MODULE SocketWatch ------------------------------
(***************************************************************************)
(* The watch_sockets stream (daemon/src/daemon.rs) over the socket dumps   *)
(* of daemon/src/collect/sockets.rs.  The daemon polls: one netlink dump   *)
(* per protocol and family, between which sockets open, change state and   *)
(* close; it compares what it read with what it read the time before, and  *)
(* sends the differences one frame at a time.                              *)
(*                                                                         *)
(* A socket is identified by its cookie, which the kernel never reuses.    *)
(* Addresses, ports, marks and tcp_info are left out.                      *)
(***************************************************************************)
EXTENDS Integers, FiniteSetsExt, SequencesExt

CONSTANTS
    Ids,        \* cookies of the sockets that may exist
    Kind,       \* what a socket is: [protocol, family, uid]
    Filters,    \* the filters of the request to consider
    Limit       \* filter.limit, or DEFAULT_SOCKET_LIMIT

VARIABLES
    sock,       \* the kernel: state of each socket, "unborn" or "gone"
    filter,     \* the request's filter
    pc,         \* "names", "dump", "emit", "sleep", "over"
    group,      \* the dump that comes next
    current,    \* what this pass has read
    truncated,  \* some pass met the limit (dump.truncated, which nobody reads)
    previous,   \* what the pass before has read
    first_pass,
    news,       \* events of this pass still to send: appeared, state changed
    losses,     \* events of this pass still to send: disappeared
    sent,       \* counter of the stream's end
    view,       \* what the client knows from the events: a state, or "closed"
    alive       \* the client is connected

vars == <<sock, filter, pc, group, current, truncated, previous, first_pass, news, losses, sent,
          view, alive>>

-----------------------------------------------------------------------------
(* The kernel.                                                              *)

States == {"SynSent", "Established", "CloseWait"}

\* A TCP socket connects, is half-closed by its peer, closes; a UDP socket is
\* only ever connected.
Later(id, state) ==
    CASE state = "unborn"      -> {IF Kind[id].protocol = "tcp" THEN "SynSent" ELSE "Established"}
      [] state = "SynSent"     -> {"Established", "gone"}
      [] state = "Established" -> IF Kind[id].protocol = "tcp" THEN {"CloseWait", "gone"} ELSE {"gone"}
      [] state = "CloseWait"   -> {"gone"}
      [] state = "gone"        -> {}

KernelStep ==
    /\ \E id \in Ids : \E s \in Later(id, sock[id]) : sock' = [sock EXCEPT ![id] = s]
    /\ UNCHANGED <<filter, pc, group, current, truncated, previous, first_pass, news, losses, sent,
                   view, alive>>

-----------------------------------------------------------------------------
(* get_sockets.                                                             *)

wanted_protocols == IF filter.protocols = <<>> THEN <<"tcp", "udp">>
                    ELSE SelectSeq(filter.protocols, LAMBDA p : p \in {"tcp", "udp"})

wanted_families == IF filter.families = <<>> THEN <<"v4", "v6">>
                   ELSE SelectSeq(filter.families, LAMBDA f : f \in {"v4", "v6"})

\* The dumps of a pass, in order.
Groups ==
    LET n == Len(wanted_families)
    IN [i \in 1..(Len(wanted_protocols) * n) |->
            <<wanted_protocols[1 + ((i - 1) \div n)], wanted_families[1 + ((i - 1) % n)]>>]

\* The states the kernel is asked for; UDP is not narrowed.
state_flags(protocol) ==
    LET known == filter.states \cap States
    IN IF protocol = "udp" \/ known = {} THEN States ELSE known

passes_filter(id) == filter.uids # {} => Kind[id].uid \in filter.uids

\* The sockets one dump returns and the filter keeps.
Rows(g) ==
    {id \in Ids : /\ <<Kind[id].protocol, Kind[id].family>> = g
                  /\ sock[id] \in state_flags(g[1])
                  /\ passes_filter(id)}

\* A map of sockets by key: `current' with the state of these rows.
Read(ids) == [id \in DOMAIN current \cup ids |-> IF id \in ids THEN sock[id] ELSE current[id]]

Fails ==
    /\ pc' = "over"
    /\ UNCHANGED <<sock, filter, group, current, truncated, previous, first_pass, news, losses,
                   sent, view, alive>>

\* Names of the interfaces, then an empty map.
ReadNames ==
    /\ pc = "names"
    /\ \/ Fails
       \/ /\ pc' = "dump" /\ group' = 1 /\ current' = <<>>
          /\ UNCHANGED <<sock, filter, truncated, previous, first_pass, news, losses, sent, view, alive>>

\* Mutant: a dump that fails is taken for an empty one.
DumpOrNothing ==
    /\ pc = "dump" /\ group <= Len(Groups)
    /\ \E ids \in {Rows(Groups[group]), {}} :
          /\ Cardinality(DOMAIN current) + Cardinality(ids) <= Limit
          /\ current' = Read(ids)
    /\ group' = group + 1
    /\ UNCHANGED <<sock, filter, pc, truncated, previous, first_pass, news, losses, sent, view, alive>>

\* One dump.  At the limit the pass stops, wherever it is.
Dump ==
    /\ pc = "dump" /\ group <= Len(Groups)
    /\ \/ Fails
       \/ LET rows == Rows(Groups[group])
              room == Limit - Cardinality(DOMAIN current)
          IN /\ IF Cardinality(rows) <= room
                THEN /\ current' = Read(rows)
                     /\ group' = group + 1 /\ UNCHANGED truncated
                ELSE /\ \E some \in kSubset(room, rows) : current' = Read(some)
                     /\ group' = Len(Groups) + 1 /\ truncated' = TRUE
             /\ UNCHANGED <<sock, filter, pc, previous, first_pass, news, losses, sent, view, alive>>

-----------------------------------------------------------------------------
(* watch_sockets.                                                           *)

Init ==
    /\ sock \in [Ids -> {"unborn", "Established"}]
    /\ filter \in Filters
    /\ pc = "names" /\ group = 1 /\ current = <<>> /\ truncated = FALSE
    /\ previous = <<>> /\ first_pass = TRUE /\ news = {} /\ losses = {}
    /\ sent = 0 /\ view = <<>> /\ alive = TRUE

Event(id, old, state) == [id |-> id, previous_state |-> old, state |-> state]

News ==
    {Event(id, "none", current[id]) : id \in DOMAIN current \ DOMAIN previous}
    \cup {Event(id, previous[id], current[id]) :
            id \in {i \in DOMAIN current \cap DOMAIN previous : current[i] # previous[i]}}

\* The first pass is the baseline and is not reported.
Compare ==
    /\ pc = "dump" /\ group > Len(Groups)
    /\ pc' = "emit"
    /\ news' = IF first_pass THEN {} ELSE News
    /\ losses' = IF first_pass THEN {}
                 ELSE {Event(id, "none", "closed") : id \in DOMAIN previous \ DOMAIN current}
    /\ UNCHANGED <<sock, filter, group, current, truncated, previous, first_pass, sent, view, alive>>

\* The client folds the events into what it knows.
Told(e) == [id \in DOMAIN view \cup {e.id} |-> IF id = e.id THEN e.state ELSE view[id]]

\* emit_socket_event for one new or changed socket, in any order of the map.
EmitNews ==
    /\ pc = "emit"
    /\ \E e \in news :
          IF alive THEN /\ view' = Told(e) /\ news' = news \ {e} /\ sent' = sent + 1 /\ UNCHANGED pc
          ELSE pc' = "over" /\ UNCHANGED <<view, news, sent>>
    /\ UNCHANGED <<sock, filter, group, current, truncated, previous, first_pass, losses, alive>>

\* emit_socket_event for one socket that is no longer there; not counted.
EmitLosses ==
    /\ pc = "emit" /\ news = {}
    /\ \E e \in losses :
          IF alive THEN view' = Told(e) /\ losses' = losses \ {e} /\ UNCHANGED pc
          ELSE pc' = "over" /\ UNCHANGED <<view, losses>>
    /\ UNCHANGED <<sock, filter, group, current, truncated, previous, first_pass, news, sent, alive>>


\* Mutant: only the first pass is remembered.
EndPassKeepsBaseline ==
    /\ pc = "emit" /\ news = {} /\ losses = {}
    /\ previous' = IF first_pass THEN current ELSE previous
    /\ first_pass' = FALSE /\ pc' = "sleep"
    /\ UNCHANGED <<sock, filter, group, current, truncated, news, losses, sent, view, alive>>

EndPass ==
    /\ pc = "emit" /\ news = {} /\ losses = {}
    /\ previous' = current /\ first_pass' = FALSE /\ pc' = "sleep"
    /\ UNCHANGED <<sock, filter, group, current, truncated, news, losses, sent, view, alive>>

\* The sleep of poll_ms, between MIN_SOCKET_POLL_MS and MAX_SOCKET_POLL_MS.
Wake ==
    /\ pc = "sleep"
    /\ pc' = "names"
    /\ UNCHANGED <<sock, filter, group, current, truncated, previous, first_pass, news, losses, sent,
                   view, alive>>

Disconnect ==
    /\ alive
    /\ alive' = FALSE
    /\ UNCHANGED <<sock, filter, pc, group, current, truncated, previous, first_pass, news, losses,
                   sent, view>>

\* The session aborts the stream's task, whatever it awaits.
Cancel ==
    /\ pc # "over"
    /\ pc' = "over"
    /\ UNCHANGED <<sock, filter, group, current, truncated, previous, first_pass, news, losses, sent,
                   view, alive>>

Watch == ReadNames \/ Dump \/ Compare \/ EmitNews \/ EmitLosses \/ EndPass \/ Wake

Next == KernelStep \/ Watch \/ Disconnect \/ Cancel

\* The task is scheduled by the runtime and its sleep ends.
Spec == Init /\ [][Next]_vars /\ WF_vars(Watch)

-----------------------------------------------------------------------------
(* Properties.                                                             *)

TypeOK ==
    /\ sock \in [Ids -> States \cup {"unborn", "gone"}]
    /\ filter \in Filters
    /\ pc \in {"names", "dump", "emit", "sleep", "over"}
    /\ group \in 1..(Len(Groups) + 1)
    /\ \A m \in {current, previous} : DOMAIN m \subseteq Ids /\ Cardinality(DOMAIN m) <= Limit
    /\ \A id \in DOMAIN view : view[id] \in States \cup {"closed"}
    /\ truncated \in BOOLEAN /\ first_pass \in BOOLEAN /\ alive \in BOOLEAN
    /\ sent \in Nat


\* A socket is reported closed only when it is: as long as no pass met the limit
\* and the request filters by no state, a client told "socket closed" will not
\* see that socket again, however many dumps failed or were cut short.
ClosedMeansGone ==
    ~truncated /\ filter.states = {} =>
        \A id \in DOMAIN view : view[id] = "closed" => sock[id] = "gone"

\* Once the sockets rest, a client that stays and a watch that does not fail
\* get the daemon to know exactly the sockets the filter selects.
PassesCatchUp ==
    <>[](\/ pc = "over"
         \/ truncated
         \/ previous = [id \in UNION {Rows(g) : g \in Range(Groups)} |-> sock[id]])

-----------------------------------------------------------------------------
(* Statements of the repository that the code does not keep.               *)

\* emit_socket_event's "socket closed", under every limit and filter.
ClosedMeansGoneAlways ==
    \A id \in DOMAIN view : view[id] = "closed" => sock[id] = "gone"

\* service.proto, StreamEnd.items_sent: the events a client got are counted.
ItemsSentCounts == pc = "over" => sent >= Cardinality(DOMAIN view)
=============================================================================

------------------------------ MODULE EventBus ------------------------------
(***************************************************************************)
(* The event timeline: the kernel monitor and the framework pushes publish *)
(* on one broadcast channel (daemon/src/watch.rs, EventBus and run), and   *)
(* every watch_network or watch_routes call reads it at its own pace       *)
(* (daemon/src/daemon.rs).                                                 *)
(*                                                                         *)
(* The kernel's state is one link whose versions are numbered; an event of *)
(* kind "link" carries the version it reports, one of kind "framework"    *)
(* stands for the rest of the traffic.  log is all that was ever sent on   *)
(* the channel, which itself keeps the last EVENT_CHANNEL_CAPACITY entries.    *)
(***************************************************************************)
EXTENDS Naturals, Sequences

CONSTANTS
  Networks,                \* watch_network calls with replay_initial_state
  Routes,                  \* watch_routes calls
  Pushers,                 \* connections that push framework events
  EVENT_CHANNEL_CAPACITY,  \* watch.rs
  MaxChanges,              \* bound: changes of the link
  MaxPushes                \* bound: events per pusher

ASSUME EventBusAssumption ==
  /\ Networks \cap Routes = {}
  /\ EVENT_CHANNEL_CAPACITY \in Nat \ {0}
  /\ MaxChanges \in Nat /\ MaxPushes \in Nat

Subscribers == Networks \cup Routes
Publishers  == {"monitor"} \cup Pushers

VARIABLES
  link,       \* version of the kernel's link state
  netlink,    \* notifications the monitor has not read
  sequence,   \* EventBus::sequence
  stamped,    \* the event each publisher has stamped and not yet sent, or <<>>
  pushes,     \* events each pusher has published
  log,        \* everything sent on the channel
  pc,         \* "none", "replay", "send", "recv", "ended"
  from,       \* where each receiver was when it subscribed
  pos,        \* the next entry of log each receiver reads
  dump,       \* the state replay_state read
  got         \* what each subscriber put on its stream

kernelVars == <<link, netlink>>
busVars == <<sequence, stamped, pushes, log>>
subVars == <<pc, from, pos, dump, got>>
vars == <<kernelVars, busVars, subVars>>

Event(q, k, v) == [seq |-> q, kind |-> k, version |-> v]

\* The monitor announces itself before it reads its first notification.
Init ==
  /\ link = 0 /\ netlink = <<>>
  /\ sequence = 1
  /\ stamped = [p \in Publishers |->
                  IF p = "monitor" THEN <<Event(0, "daemon", 0)>> ELSE <<>>]
  /\ pushes = [p \in Pushers |-> 0]
  /\ log = <<>>
  /\ pc = [s \in Subscribers |-> "none"]
  /\ from = [s \in Subscribers |-> 1]
  /\ pos = [s \in Subscribers |-> 1]
  /\ dump = [s \in Subscribers |-> 0]
  /\ got = [s \in Subscribers |-> <<>>]

KernelChange ==
  /\ link < MaxChanges
  /\ link' = link + 1
  /\ netlink' = Append(netlink, link + 1)
  /\ UNCHANGED <<busVars, subVars>>

----------------------------------------------------------------------------
(* publish: the stamp and the send are two steps; publishers run on        *)
(* different threads.                                                      *)

Stamp(p, k, v) ==
  /\ stamped[p] = <<>>
  /\ stamped' = [stamped EXCEPT ![p] = <<Event(sequence, k, v)>>]
  /\ sequence' = sequence + 1
  /\ UNCHANGED <<link, log, subVars>>

MonitorStamps ==
  /\ netlink # <<>>
  /\ Stamp("monitor", "link", Head(netlink))
  /\ netlink' = Tail(netlink)
  /\ UNCHANGED pushes

PusherStamps(p) ==
  /\ pushes[p] < MaxPushes
  /\ Stamp(p, "framework", 0)
  /\ pushes' = [pushes EXCEPT ![p] = @ + 1]
  /\ UNCHANGED netlink

PublishSend(p) ==
  /\ stamped[p] # <<>>
  /\ log' = log \o stamped[p]
  /\ stamped' = [stamped EXCEPT ![p] = <<>>]
  /\ UNCHANGED <<kernelVars, sequence, pushes, subVars>>

----------------------------------------------------------------------------
(* A subscriber.                                                           *)

\* matches_filter: framework and daemon events pass every filter; the routes
\* filter keeps link events out.
Wanted(s, e) == s \in Networks \/ e.kind # "link"

Put(s, what, n) == got' = [got EXCEPT ![s] = Append(@, [what |-> what, n |-> n])]

\* subscribe comes before the replay.
Subscribe(s) ==
  /\ pc[s] = "none"
  /\ from' = [from EXCEPT ![s] = Len(log) + 1]
  /\ pos' = [pos EXCEPT ![s] = Len(log) + 1]
  /\ pc' = [pc EXCEPT ![s] = IF s \in Networks THEN "replay" ELSE "recv"]
  /\ UNCHANGED <<kernelVars, busVars, dump, got>>

\* replay_state: a dump of the kernel's state ...
DumpState(s) ==
  /\ pc[s] = "replay"
  /\ dump' = [dump EXCEPT ![s] = link]
  /\ pc' = [pc EXCEPT ![s] = "send"]
  /\ UNCHANGED <<kernelVars, busVars, from, pos, got>>

\* Mutant: the receiver is created once the replay is done.
ReplayThenSubscribe(s) ==
  /\ pc[s] = "send"
  /\ Put(s, "replay", dump[s])
  /\ from' = [from EXCEPT ![s] = Len(log) + 1]
  /\ pos' = [pos EXCEPT ![s] = Len(log) + 1]
  /\ pc' = [pc EXCEPT ![s] = "recv"]
  /\ UNCHANGED <<kernelVars, busVars, dump>>

\* ... which is then sent as events.
ReplayState(s) ==
  /\ pc[s] = "send"
  /\ Put(s, "replay", dump[s])
  /\ pc' = [pc EXCEPT ![s] = "recv"]
  /\ UNCHANGED <<kernelVars, busVars, from, pos, dump>>

\* replay_state fails, or a reply does: the stream ends.
SubscriberEnds(s) ==
  /\ pc[s] \in {"replay", "send", "recv"}
  /\ pc' = [pc EXCEPT ![s] = "ended"]
  /\ UNCHANGED <<kernelVars, busVars, from, pos, dump, got>>

Oldest == IF Len(log) > EVENT_CHANNEL_CAPACITY THEN Len(log) - EVENT_CHANNEL_CAPACITY + 1 ELSE 1

RecvEvent(s) ==
  /\ pc[s] = "recv" /\ pos[s] >= Oldest /\ pos[s] <= Len(log)
  /\ IF Wanted(s, log[pos[s]]) THEN Put(s, "event", pos[s]) ELSE UNCHANGED got
  /\ pos' = [pos EXCEPT ![s] = @ + 1]
  /\ UNCHANGED <<kernelVars, busVars, pc, from, dump>>

\* Mutant: watch_network handles Lagged the way watch_routes does.
LaggedSilently(s) ==
  /\ pc[s] = "recv" /\ pos[s] < Oldest
  /\ pos' = [pos EXCEPT ![s] = Oldest]
  /\ UNCHANGED <<kernelVars, busVars, pc, from, dump, got>>


\* recv returns Lagged and moves the receiver to the oldest entry kept.
\* watch_network tells its client; watch_routes goes on.
Lagged(s) ==
  /\ pc[s] = "recv" /\ pos[s] < Oldest
  /\ pos' = [pos EXCEPT ![s] = Oldest]
  /\ IF s \in Networks THEN Put(s, "notice", Oldest - pos[s]) ELSE UNCHANGED got
  /\ UNCHANGED <<kernelVars, busVars, pc, from, dump>>

----------------------------------------------------------------------------
PublisherStep == MonitorStamps \/ \E p \in Publishers : PublishSend(p)
SubscriberStep(s) == DumpState(s) \/ ReplayState(s) \/ RecvEvent(s) \/ Lagged(s)

Next ==
  \/ KernelChange \/ PublisherStep
  \/ \E p \in Pushers : PusherStamps(p)
  \/ \E s \in Subscribers : Subscribe(s) \/ SubscriberStep(s) \/ SubscriberEnds(s)

Spec == Init /\ [][Next]_vars

\* The monitor and the subscribers run while they have something to do.
FairSpec ==
  /\ Spec
  /\ WF_vars(PublisherStep)
  /\ \A s \in Subscribers : WF_vars(SubscriberStep(s))

----------------------------------------------------------------------------
\* The channel and the receivers' positions; what the channel holds is what
\* was stamped.
TypeOK ==
  /\ link \in 0 .. MaxChanges
  /\ \A s \in Subscribers : from[s] <= pos[s] /\ pos[s] <= Len(log) + 1
  /\ \A k, l \in DOMAIN log : log[k].seq = log[l].seq => k = l
  /\ \A k \in DOMAIN log : log[k].seq < sequence
  /\ pc \in [Subscribers -> {"none", "replay", "send", "recv", "ended"}]

\* The notice that stands for entry k, between the last entry before it and the
\* first after it that the subscriber was sent.
Admitted(s, k) ==
  \E j \in DOMAIN got[s] :
    /\ got[s][j].what = "notice"
    /\ \A i \in DOMAIN got[s] :
         got[s][i].what = "event" => (i < j /\ got[s][i].n < k) \/ (i > j /\ got[s][i].n > k)

NoSilentGap(s) ==
  \A k \in from[s] .. pos[s] - 1 :
    \/ ~Wanted(s, log[k])
    \/ \E j \in DOMAIN got[s] : got[s][j] = [what |-> "event", n |-> k]
    \/ Admitted(s, k)

\* watch_network: "a timeline with a hole in it is worse than one that admits to
\* the hole".  An event published after the subscription that passes the filter
\* is sent, or the stream has a notice in its place.
GapsAdmitted == \A s \in Networks : NoSilentGap(s)

\* What the last link event on a stream says.
View(s) ==
  LET about == SelectSeq(got[s], LAMBDA g : g.what = "replay" \/
                                            (g.what = "event" /\ log[g.n].kind = "link"))
      last  == about[Len(about)]
  IN IF last.what = "replay" THEN last.n ELSE log[last.n].version

Notified(s) == \E j \in DOMAIN got[s] : got[s][j].what = "notice"

\* Subscribing before the dump leaves no window: once a subscriber has read what
\* there is, the last link state it was told is the kernel's, unless it was told
\* that it missed events.
ViewIsCurrent ==
  \A s \in Networks :
    (/\ pc[s] = "recv" /\ pos[s] = Len(log) + 1 /\ ~Notified(s)
     /\ netlink = <<>> /\ stamped["monitor"] = <<>>) => View(s) = link


\* watch.rs, EVENT_CHANNEL_CAPACITY: a Lagged error "which the session reports
\* rather than silently dropping events", for watch_routes too.
RoutesGapsAdmitted == \A s \in Routes : NoSilentGap(s)

\* watch.rs, publish: "keeps the sequence numbers strictly increasing in
\* publication order".
SequenceIncreases == \A k, l \in DOMAIN log : k < l => log[k].seq < log[l].seq
=============================================================================

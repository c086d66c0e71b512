------------------------------ MODULE Capture -------------------------------
(***************************************************************************)
(* One packet capture: Daemon::start_capture (daemon/src/daemon.rs) around *)
(* Capture::next_packet (daemon/src/capture.rs), with the flag StopCapture *)
(* sets from another task.  A Cancel or a disconnect may also abort the    *)
(* task at any await; the abort is Session's and is left out here.         *)
(***************************************************************************)
EXTENDS Naturals, Sequences

CONSTANTS
  max_packets,    \* of the request; 0 is no limit
  max_bytes,      \* of the request; 0 is no limit
  Lengths,        \* lengths of packets on the wire
  Backlog,        \* bound: packets waiting in the socket
  MaxTraffic      \* bound: packets that arrive in all

ASSUME CaptureAssumption ==
  /\ max_packets \in Nat /\ max_bytes \in Nat
  /\ Lengths \subseteq Nat \ {0}
  /\ Backlog \in Nat \ {0} /\ MaxTraffic \in Nat

VARIABLES
  pc,          \* where start_capture is
  reason,      \* why the loop was left
  registered,  \* the flag is in Daemon::captures
  finished,    \* CaptureFinished is on the stream
  sent, bytes, inhand,   \* locals of start_capture; the length in `packet`
  packets, filtered_out, \* counters of Capture, reported in CaptureStats
  afterStop,   \* history: packets sent since the flag was set
  socket,      \* packets in the socket, [len, passes]
  ready,       \* AsyncFd's cached readiness
  arrived,     \* packets that arrived in all
  stop,        \* the stop flag
  gone         \* the connection's writer has ended: reply returns false

counters == <<sent, bytes, inhand, packets, filtered_out, afterStop>>
outside == <<socket, ready, arrived, stop, gone>>
vars == <<pc, reason, registered, finished, counters, outside>>

Init ==
  /\ pc = "open" /\ reason = "none" /\ registered = FALSE /\ finished = FALSE
  /\ sent = 0 /\ bytes = 0 /\ inhand = 0 /\ packets = 0 /\ filtered_out = 0 /\ afterStop = 0
  /\ socket = <<>> /\ ready = FALSE /\ arrived = 0 /\ stop = FALSE /\ gone = FALSE

----------------------------------------------------------------------------
(* What happens around the task. *)

Arrive(p) ==
  /\ pc \notin {"open", "done"} /\ Len(socket) < Backlog /\ arrived < MaxTraffic
  /\ socket' = Append(socket, p)
  /\ ready' = TRUE
  /\ arrived' = arrived + 1
  /\ UNCHANGED <<pc, reason, registered, finished, counters, stop, gone>>

\* stop_capture finds only a registered capture.
StopCapture ==
  /\ registered /\ ~stop
  /\ stop' = TRUE
  /\ UNCHANGED <<pc, reason, registered, finished, counters, socket, ready, arrived, gone>>

ClientGone ==
  /\ pc # "done" /\ ~gone
  /\ gone' = TRUE
  /\ UNCHANGED <<pc, reason, registered, finished, counters, socket, ready, arrived, stop>>

----------------------------------------------------------------------------
(* start_capture. *)

Leave(r) == pc' = "report" /\ reason' = r

\* Capture::open and the entry in captures, or the failure to open.
Open ==
  /\ pc = "open"
  /\ \/ pc' = "started" /\ registered' = TRUE /\ UNCHANGED reason
     \/ pc' = "done" /\ reason' = "not opened" /\ UNCHANGED registered
  /\ UNCHANGED <<finished, counters, outside>>

\* CaptureStarted is sent, or the client is gone and the entry removed.
SendStarted ==
  /\ pc = "started"
  /\ IF gone THEN pc' = "done" /\ reason' = "client disconnected" /\ registered' = FALSE
             ELSE pc' = "top" /\ UNCHANGED <<reason, registered>>
  /\ UNCHANGED <<finished, counters, outside>>

\* Mutant: the packet limit is tested with >.
CheckLimitsLate ==
  /\ pc = "top"
  /\ IF max_packets # 0 /\ sent > max_packets THEN Leave("max_packets")
     ELSE IF max_bytes # 0 /\ bytes >= max_bytes THEN Leave("max_bytes")
     ELSE pc' = "check" /\ UNCHANGED reason
  /\ UNCHANGED <<registered, finished, counters, outside>>

\* Top of the loop in start_capture.
CheckLimits ==
  /\ pc = "top"
  /\ IF max_packets # 0 /\ sent >= max_packets THEN Leave("max_packets")
     ELSE IF max_bytes # 0 /\ bytes >= max_bytes THEN Leave("max_bytes")
     ELSE pc' = "check" /\ UNCHANGED reason
  /\ UNCHANGED <<registered, finished, counters, outside>>

\* Mutant: the deadline is also raced against the send of a packet.
DeadlineAnywhere ==
  /\ pc \in {"check", "wait", "reply"}
  /\ Leave("duration")
  /\ UNCHANGED <<registered, finished, counters, outside>>


\* The deadline's branch of select!, which drops next_packet where it waits.
Deadline ==
  /\ pc \in {"check", "wait"}
  /\ Leave("duration")
  /\ UNCHANGED <<registered, finished, counters, outside>>

\* The packet is counted in bytes, then sent, or the client is gone.
SendPacket ==
  /\ pc = "reply"
  /\ bytes' = bytes + inhand
  /\ IF gone THEN Leave("client disconnected") /\ UNCHANGED <<sent, afterStop>>
     ELSE /\ sent' = sent + 1
          /\ afterStop' = IF stop THEN afterStop + 1 ELSE afterStop
          /\ pc' = "top" /\ UNCHANGED reason
  /\ UNCHANGED <<registered, finished, inhand, packets, filtered_out, outside>>

\* CaptureStats and CaptureFinished; whether they were taken is not looked at.
SendFinished ==
  /\ pc = "report"
  /\ finished' = ~gone
  /\ pc' = "unregister"
  /\ UNCHANGED <<reason, registered, counters, outside>>

FinishCapture ==
  /\ pc = "unregister"
  /\ registered' = FALSE
  /\ pc' = "done"
  /\ UNCHANGED <<reason, finished, counters, outside>>

----------------------------------------------------------------------------
(* next_packet. *)

\* Mutant: the flag is not looked at.
CheckNothing ==
  /\ pc = "check"
  /\ pc' = "wait"
  /\ UNCHANGED <<reason, registered, finished, counters, outside>>

\* Top of its loop: the only place the flag is read.
CheckStop ==
  /\ pc = "check"
  /\ IF stop THEN Leave("stopped") ELSE pc' = "wait" /\ UNCHANGED reason
  /\ UNCHANGED <<registered, finished, counters, outside>>

\* A packet is read; one that does not pass the filter is counted and skipped.
ReadPacket ==
  /\ pc = "wait" /\ ready /\ socket # <<>>
  /\ socket' = Tail(socket)
  /\ \/ /\ Head(socket).passes
        /\ pc' = "reply" /\ packets' = packets + 1 /\ inhand' = Head(socket).len
        /\ UNCHANGED filtered_out
     \/ /\ ~Head(socket).passes
        /\ pc' = "check" /\ filtered_out' = filtered_out + 1
        /\ UNCHANGED <<packets, inhand>>
  /\ UNCHANGED <<reason, registered, finished, sent, bytes, afterStop, ready, arrived, stop, gone>>

\* The readiness was stale: it is cleared and the loop starts again.
WouldBlock ==
  /\ pc = "wait" /\ ready /\ socket = <<>>
  /\ ready' = FALSE
  /\ pc' = "check"
  /\ UNCHANGED <<reason, registered, finished, counters, socket, arrived, stop, gone>>

\* The socket reports an error: finish_capture, and the error goes to the caller.
ReadFails ==
  /\ pc = "wait"
  /\ pc' = "done" /\ reason' = "failed" /\ registered' = FALSE
  /\ UNCHANGED <<finished, counters, outside>>

CaptureStep ==
  \/ Open \/ SendStarted \/ CheckLimits \/ CheckStop \/ ReadPacket \/ WouldBlock
  \/ SendPacket \/ SendFinished \/ FinishCapture

Next ==
  \/ CaptureStep \/ Deadline \/ ReadFails \/ StopCapture \/ ClientGone
  \/ \E p \in [len : Lengths, passes : BOOLEAN] : Arrive(p)

Spec == Init /\ [][Next]_vars

\* The task is polled while it can go on, and its timer fires: a duration_ms of
\* 0 is a default duration, never none.
FairSpec == Spec /\ WF_vars(CaptureStep) /\ WF_vars(Deadline)

----------------------------------------------------------------------------
\* Where start_capture is; its two counters account for every packet read.
TypeOK ==
  /\ pc \in {"open", "started", "top", "check", "wait", "reply", "report", "unregister", "done"}
  /\ reason \in {"none", "not opened", "max_packets", "max_bytes", "duration", "stopped",
                 "client disconnected", "failed"}
  /\ {registered, finished, ready, stop, gone} \subseteq BOOLEAN
  /\ packets + filtered_out + Len(socket) = arrived

\* The limits of the request: max_packets is never exceeded, and max_bytes by
\* less than the last packet.
WithinLimits ==
  /\ max_packets # 0 => sent <= max_packets
  /\ max_bytes # 0 => bytes < max_bytes \/ bytes - inhand < max_bytes

\* packets_captured in CaptureFinished is the number of packets on the stream,
\* whichever branch of select! won and whatever was filtered, unless the client
\* went away under a packet.
StatsMatchStream == finished => packets = sent

\* stop_capture is honoured within one packet: at most the packet being waited
\* for, or being sent, when the flag was set still goes out.
StopWithinOnePacket == afterStop <= 1


\* capture.proto gives CaptureFinished a reason "error" and an error: a capture
\* that was opened, and whose client is there, ends with CaptureFinished.
EveryCaptureFinishes == pc = "done" /\ ~gone /\ reason # "not opened" => finished
=============================================================================

------------------------------- MODULE Client -------------------------------
(***************************************************************************)
(* The client library (crates/netdiag-ipc/src/client.rs): calls share one  *)
(* socket, and read_loop hands every frame to the call that waits for its  *)
(* id, through a bounded queue per call.  The daemon is the far end: it    *)
(* answers requests as Session does, and may close the connection.         *)
(*                                                                         *)
(* next_id never repeats, so a call is its id.                             *)
(***************************************************************************)
EXTENDS Naturals, Sequences

CONSTANTS
  Unary,              \* calls made with unary (cancel is one of them)
  Streams,            \* calls made with stream
  REPLY_QUEUE_DEPTH,  \* client.rs: capacity of a call's queue
  SocketBuffer,       \* bound: frames in the socket
  MaxItems,           \* bound: items the daemon sends per stream
  Faults              \* "close", "half", "garbled", "refuse", "drop", "stall": see the actions

ASSUME ClientAssumption ==
  /\ Unary \cap Streams = {}
  /\ REPLY_QUEUE_DEPTH \in Nat \ {0} /\ SocketBuffer \in Nat \ {0} /\ MaxItems \in Nat
  /\ Faults \subseteq {"close", "half", "garbled", "refuse", "drop", "stall"}

Calls == Unary \cup Streams

VARIABLES
  pc,        \* unary, or stream and the task it spawns
  pending,   \* ids in the pending map; each entry holds a sender
  queue,     \* frames in the call's queue (raw_rx, or rx of unary)
  out,       \* frames in the queue to the caller of stream
  receiver,  \* the caller of stream still holds its receiver
  reader,    \* read_loop: "read", "send" (frame in hand), "clear", "stopped"
  hand,      \* the frame read_loop is sending
  writeShut, \* shutdown was called
  wire,      \* frames in the socket, daemon to client
  conn,      \* "up", "half" (daemon shut its write side), "closed"
  srv,       \* the daemon's side of each call: "none", "open", "done", "refused"
  sent       \* items the daemon has sent, per stream

clientVars == <<pc, pending, queue, out, receiver, reader, hand, writeShut>>
daemonVars == <<wire, conn, srv, sent>>
vars == <<clientVars, daemonVars>>

Frame(c, k) == [id |-> c, kind |-> k]
NoFrame     == Frame("none", "none")
Ended       == {"ok", "failed"}

Init ==
  /\ pc = [c \in Calls |-> "idle"] /\ pending = {}
  /\ queue = [c \in Calls |-> <<>>]
  /\ out = [c \in Streams |-> 0]
  /\ receiver = [c \in Streams |-> TRUE]
  /\ reader = "read" /\ hand = NoFrame /\ writeShut = FALSE
  /\ wire = <<>> /\ conn = "up"
  /\ srv = [c \in Calls |-> "none"]
  /\ sent = [c \in Streams |-> 0]

----------------------------------------------------------------------------
(* unary and stream, up to the request's last byte.                        *)

\* Mutant: the call forgets to register before it sends.
InsertNothing(c) ==
  /\ pc[c] = "idle"
  /\ pc' = [pc EXCEPT ![c] = "send"]
  /\ UNCHANGED <<pending, queue, out, receiver, reader, hand, writeShut, daemonVars>>

\* An id is taken and its sender put in the map before anything is sent.
InsertPending(c) ==
  /\ pc[c] = "idle"
  /\ pending' = pending \cup {c}
  /\ pc' = [pc EXCEPT ![c] = "send"]
  /\ UNCHANGED <<queue, out, receiver, reader, hand, writeShut, daemonVars>>

\* The request is written.  A failed write takes unary to its clean-up; stream
\* returns the error at once and its entry stays.  On a connection whose daemon
\* has shut its write side but not closed, the write succeeds and is lost.
SendRequest(c) ==
  /\ pc[c] = "send"
  /\ IF conn = "closed" \/ writeShut
     THEN /\ pc' = [pc EXCEPT ![c] = IF c \in Unary THEN "remove_failed" ELSE "failed"]
          /\ UNCHANGED srv
     ELSE /\ pc' = [pc EXCEPT ![c] = "recv"]
          /\ srv' = IF conn = "up" THEN [srv EXCEPT ![c] = "open"] ELSE srv
  /\ UNCHANGED <<pending, queue, out, receiver, reader, hand, writeShut, wire, conn, sent>>

\* DaemonClient::shutdown.
Shutdown ==
  /\ "close" \in Faults /\ ~writeShut
  /\ writeShut' = TRUE
  /\ UNCHANGED <<pc, pending, queue, out, receiver, reader, hand, daemonVars>>

----------------------------------------------------------------------------
(* read_loop.                                                              *)

\* A frame for a registered call is taken in hand; others are dropped, and one
\* that does not decode ends the loop.
ReadFrame ==
  /\ reader = "read" /\ wire # <<>>
  /\ wire' = Tail(wire)
  /\ LET f == Head(wire) IN
     /\ hand' = IF f.id \in pending THEN f ELSE NoFrame
     /\ reader' = IF f.kind = "garbled" THEN "clear"
                  ELSE IF f.id \in pending THEN "send" ELSE "read"
  /\ UNCHANGED <<pc, pending, queue, out, receiver, writeShut, conn, srv, sent>>

ReadEof ==
  /\ reader = "read" /\ wire = <<>> /\ conn # "up"
  /\ reader' = "clear"
  /\ UNCHANGED <<pc, pending, queue, out, receiver, hand, writeShut, daemonVars>>

\* The queue's receiver is gone once the call, or the spawned task, is over.
Receiving(c) == pc[c] \notin Ended

\* sender.send(frame).await: waits while the call's queue is full.
Deliver ==
  /\ reader = "send"
  /\ LET c == hand.id IN
     IF Receiving(c)
     THEN /\ Len(queue[c]) < REPLY_QUEUE_DEPTH
          /\ queue' = [queue EXCEPT ![c] = Append(@, hand.kind)]
     ELSE UNCHANGED queue
  /\ reader' = "read" /\ hand' = NoFrame
  /\ UNCHANGED <<pc, pending, out, receiver, writeShut, daemonVars>>

\* Mutant: the loop just ends.
ClearNothing ==
  /\ reader = "clear"
  /\ reader' = "stopped"
  /\ UNCHANGED <<pc, pending, queue, out, receiver, hand, writeShut, daemonVars>>

\* pending.clear() drops the senders, which wakes every call that waits.
ClearPending ==
  /\ reader = "clear"
  /\ pending' = {}
  /\ reader' = "stopped"
  /\ UNCHANGED <<pc, queue, out, receiver, hand, writeShut, daemonVars>>

----------------------------------------------------------------------------
(* The end of unary, and the task stream spawns.                           *)

\* recv returns None: no sender is left and the queue is empty.
SendersGone(c) == queue[c] = <<>> /\ c \notin pending /\ hand.id # c

UnaryRecv(c) ==
  /\ c \in Unary /\ pc[c] = "recv"
  /\ \/ /\ queue[c] # <<>>
        /\ queue' = [queue EXCEPT ![c] = Tail(@)]
        /\ pc' = [pc EXCEPT ![c] = IF Head(queue[c]) = "error" THEN "remove_failed" ELSE "remove_ok"]
     \/ /\ SendersGone(c)
        /\ pc' = [pc EXCEPT ![c] = "remove_failed"]
        /\ UNCHANGED queue
  /\ UNCHANGED <<pending, out, receiver, reader, hand, writeShut, daemonVars>>

\* The entry goes, and with it the queue.
RemovePending(c) ==
  /\ pc[c] \in {"remove_ok", "remove_failed"}
  /\ pending' = pending \ {c}
  /\ pc' = [pc EXCEPT ![c] = IF @ = "remove_ok" THEN "ok" ELSE "failed"]
  /\ queue' = [queue EXCEPT ![c] = <<>>]
  /\ UNCHANGED <<out, receiver, reader, hand, writeShut, daemonVars>>

\* Mutant: StreamEnd is passed on like any other frame.
StreamRecvAll(c) ==
  /\ c \in Streams /\ pc[c] = "recv" /\ queue[c] # <<>>
  /\ queue' = [queue EXCEPT ![c] = Tail(@)]
  /\ pc' = [pc EXCEPT ![c] = "push"]
  /\ UNCHANGED <<pending, out, receiver, reader, hand, writeShut, daemonVars>>

\* Only StreamEnd, or the loss of the connection, ends the task; an Error frame
\* is passed on.
StreamRecv(c) ==
  /\ c \in Streams /\ pc[c] = "recv"
  /\ \/ /\ queue[c] # <<>>
        /\ queue' = [queue EXCEPT ![c] = Tail(@)]
        /\ pc' = [pc EXCEPT ![c] = IF Head(queue[c]) = "end" THEN "remove_ok" ELSE "push"]
     \/ /\ SendersGone(c)
        /\ pc' = [pc EXCEPT ![c] = "remove_ok"]
        /\ UNCHANGED queue
  /\ UNCHANGED <<pending, out, receiver, reader, hand, writeShut, daemonVars>>

\* tx.send(frame).await: waits for the caller, or finds its receiver dropped.
StreamPush(c) ==
  /\ pc[c] = "push"
  /\ \/ /\ receiver[c] /\ out[c] < REPLY_QUEUE_DEPTH
        /\ out' = [out EXCEPT ![c] = @ + 1]
        /\ pc' = [pc EXCEPT ![c] = "recv"]
     \/ /\ ~receiver[c]
        /\ pc' = [pc EXCEPT ![c] = "remove_ok"]
        /\ UNCHANGED out
  /\ UNCHANGED <<pending, queue, receiver, reader, hand, writeShut, daemonVars>>

\* The caller of stream takes a frame, or drops its receiver.
Consume(c) ==
  /\ receiver[c] /\ out[c] > 0
  /\ out' = [out EXCEPT ![c] = @ - 1]
  /\ UNCHANGED <<pc, pending, queue, receiver, reader, hand, writeShut, daemonVars>>

DropReceiver(c) ==
  /\ "drop" \in Faults /\ receiver[c] /\ pc[c] \notin {"idle", "send", "failed"}
  /\ receiver' = [receiver EXCEPT ![c] = FALSE]
  /\ out' = [out EXCEPT ![c] = 0]
  /\ UNCHANGED <<pc, pending, queue, reader, hand, writeShut, daemonVars>>

----------------------------------------------------------------------------
(* The daemon (daemon/src/ipc/session.rs).                                 *)

Answer(f) ==
  /\ conn = "up" /\ srv[f.id] = "open" /\ Len(wire) < SocketBuffer
  /\ wire' = Append(wire, f)
  /\ UNCHANGED <<clientVars, conn>>

Reply(c) ==
  \E k \in {"reply", "error"} :
    Answer(Frame(c, k)) /\ srv' = [srv EXCEPT ![c] = "done"] /\ UNCHANGED sent

Item(c) ==
  /\ sent[c] < MaxItems
  /\ Answer(Frame(c, "item")) /\ sent' = [sent EXCEPT ![c] = @ + 1] /\ UNCHANGED srv

\* A stream ends with StreamEnd.  If it is refused (no Hello, or the limit of
\* streams), it ends with an Error and nothing else.
Finish(c) ==
  /\ \/ Answer(Frame(c, "end")) /\ srv' = [srv EXCEPT ![c] = "done"]
     \/ "refuse" \in Faults /\ Answer(Frame(c, "error")) /\ srv' = [srv EXCEPT ![c] = "refused"]
  /\ UNCHANGED sent

\* A frame the client's read_frame rejects.
Garble ==
  /\ "garbled" \in Faults /\ conn = "up" /\ Len(wire) < SocketBuffer
  /\ wire' = Append(wire, Frame("none", "garbled"))
  /\ UNCHANGED <<clientVars, conn, srv, sent>>

\* serve ends: the writer task shuts its half down before serve drops the
\* reader.  A daemon that is killed closes both at once.
HalfClose ==
  /\ "half" \in Faults /\ conn = "up"
  /\ conn' = "half"
  /\ UNCHANGED <<clientVars, wire, srv, sent>>

CloseConn ==
  /\ conn = "half" \/ (conn = "up" /\ "close" \in Faults)
  /\ conn' = "closed"
  /\ UNCHANGED <<clientVars, wire, srv, sent>>

----------------------------------------------------------------------------
CallStep(c) == InsertPending(c) \/ SendRequest(c) \/ UnaryRecv(c) \/ StreamRecv(c) \/ RemovePending(c)

ReaderStep == ReadFrame \/ ReadEof \/ Deliver \/ ClearPending

DaemonStep ==
  \/ \E c \in Unary : Reply(c)
  \/ \E c \in Streams : Item(c) \/ Finish(c)

Next ==
  \/ \E c \in Calls : CallStep(c)
  \/ \E c \in Streams : StreamPush(c) \/ Consume(c) \/ DropReceiver(c)
  \/ ReaderStep \/ Shutdown
  \/ DaemonStep \/ Garble \/ HalfClose \/ CloseConn

Spec == Init /\ [][Next]_vars

\* The runtime runs the tasks of the client; the daemon answers requests it has
\* read (Session's OverIsReported) while the connection is up and finishes a
\* closing one.  Callers take their frames unless Faults says they stall.
Fairness ==
  /\ WF_vars(ReaderStep)
  /\ \A c \in Calls : WF_vars(pc[c] # "idle" /\ CallStep(c))
  /\ \A c \in Unary : SF_vars(Reply(c))
  /\ \A c \in Streams :
       /\ WF_vars(StreamPush(c))
       /\ "stall" \notin Faults => WF_vars(Consume(c))
  /\ WF_vars(conn = "half" /\ CloseConn)
  /\ WF_vars(writeShut /\ CloseConn)

FairSpec == Spec /\ Fairness

----------------------------------------------------------------------------
\* The tables and queues of the client have their types; no queue holds more
\* than REPLY_QUEUE_DEPTH frames.
TypeOK ==
  /\ pc \in [Calls -> {"idle", "send", "recv", "push", "remove_ok", "remove_failed"} \cup Ended]
  /\ pending \subseteq Calls
  /\ \A c \in Calls : Len(queue[c]) <= REPLY_QUEUE_DEPTH
  /\ \A c \in Streams : out[c] \in 0 .. REPLY_QUEUE_DEPTH
  /\ receiver \in [Streams -> BOOLEAN]
  /\ reader \in {"read", "send", "clear", "stopped"}
  /\ hand = NoFrame \/ hand.id \in Calls
  /\ conn \in {"up", "half", "closed"}
  /\ srv \in [Calls -> {"none", "open", "done", "refused"}]

\* read_loop drops a frame only if its call was abandoned ("expected between
\* cancelling a stream and its stream_end arriving"), never one that a call
\* still waits for, however early the daemon answers.
OnlyLateFramesDropped ==
  [][\A c \in Calls :
       (wire # <<>> /\ wire' = Tail(wire) /\ Head(wire).id = c /\ hand' = NoFrame)
         => pc[c] \notin {"idle", "send", "recv", "push"}]_vars

\* The call's entry was in the map while read_loop could still use or clear it.
Watched(c) == c \in pending /\ reader # "stopped"

\* unary: a call that registered before read_loop ended gets its reply or an
\* error, however the connection ends and whatever the streams beside it do.
UnaryReturns == \A c \in Unary : (pc[c] = "send" /\ Watched(c)) ~> pc[c] \in Ended

\* stream: once the daemon has ended the call with StreamEnd, or the connection
\* is gone, the caller's channel closes.
StreamCloses ==
  \A c \in Streams :
    (pc[c] = "recv" /\ Watched(c) /\ (srv[c] = "done" \/ conn = "closed")) ~> pc[c] \in Ended

\* An Error frame "terminates call N" (service.proto): the caller's channel closes
\* after one as it does after StreamEnd.
RefusedCloses == \A c \in Streams : (pc[c] = "recv" /\ srv[c] = "refused") ~> pc[c] \in Ended
=============================================================================

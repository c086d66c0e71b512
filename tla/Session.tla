------------------------------ MODULE Session ------------------------------
(***************************************************************************)
(* One client connection of the daemon (daemon/src/ipc/session.rs): the    *)
(* read loop, the stream tasks it spawns, the registry that makes them     *)
(* cancellable, and the queue in front of the writer task.                 *)
(*                                                                         *)
(* The runtime is multi-threaded (main.rs builds new_multi_thread), so a   *)
(* spawned task may run, and even finish, before the read loop executes    *)
(* its next statement.  abort() is asynchronous: a task that some worker   *)
(* is polling when the abort arrives runs on until that poll returns       *)
(* Pending.  So an abort only sets a flag here, and Drop is a later step.  *)
(*                                                                         *)
(* Ids are the ids of streaming calls.  Unary calls never meet the         *)
(* registry, so their ids are abstracted to 0, which is also the id of a   *)
(* frame that belongs to no call.                                          *)
(***************************************************************************)
EXTENDS Naturals, Sequences, FiniteSets

CONSTANTS
  Tasks,              \* stream tasks, one for every spawn_stream
  NoTask,             \* an empty registry slot
  Ids,                \* ids the client gives to streaming calls
  MAX_STREAMS,        \* session.rs: cap on the registry
  WRITE_QUEUE_DEPTH,  \* session.rs: capacity of the writer's channel
  MaxItems,           \* bound: stream items per call id
  MaxUnary,           \* bound: unary calls running at once
  MaxEnds,            \* bound: no StopCapture, or call before Hello, beyond these for one id
  Uses,               \* which of "cancel", "capture", "stop", "unary" the client uses
  IdReuse             \* "never" (client.rs) or "completed" (service.proto)

ASSUME SessionAssumption ==
  /\ NoTask \notin Tasks
  /\ IsFiniteSet(Ids) /\ Ids \subseteq Nat \ {0}
  /\ MAX_STREAMS \in Nat
  /\ WRITE_QUEUE_DEPTH \in Nat \ {0}
  /\ MaxItems \in Nat
  /\ MaxUnary \in Nat
  /\ MaxEnds \in Nat
  /\ Uses \subseteq {"cancel", "capture", "stop", "unary"}
  /\ IdReuse \in {"never", "completed"}

VARIABLES
  client,       \* "open", "half" (write side shut down, still reads), "gone"
  call,         \* Ids -> "unused", "inflight", "complete": what the client knows
  greeted,      \* serve's local
  loop,         \* where serve is
  spawning,     \* the task spawn_stream has spawned but not yet inserted
  outbox,       \* frames the read loop still has to send before it reads on
  registry,     \* StreamRegistry.streams: Ids -> Tasks or NoTask
  st,           \* where each stream task is
  aborted,      \* AbortHandle::abort was called on the task
  tid,          \* the request id the task serves
  cid,          \* its capture id, 0 before it has one
  captures,     \* Daemon.captures, as the set of tasks with an entry
  nextCapture,  \* Daemon.next_capture_id
  unary,        \* unary tasks still running
  queued,       \* frames in the writer's channel
  writer,       \* "up" or "stopped"
  items,        \* history: item frames put on the channel, per id
  ends,         \* history: StreamEnd frames, per id
  errs          \* history: Error frames, per id

clientVars == <<client, call>>
loopVars   == <<greeted, loop, spawning, outbox>>
taskVars   == <<st, aborted, tid, cid>>
capVars    == <<captures, nextCapture>>
wireVars   == <<queued, items, ends, errs>>
vars == <<clientVars, loopVars, registry, taskVars, capVars, unary, writer, wireVars>>

Kinds  == {"item", "end", "error", "reply"}
Frames == [kind : Kinds, id : Ids \cup {0}]
Frame(k, i) == [kind |-> k, id |-> i]

LiveStates == {"open", "body", "finish", "ending", "removing"}
Live(t)    == st[t] \in LiveStates

Registered == {i \in Ids : registry[i] # NoTask}

----------------------------------------------------------------------------
(* The writer's channel.  A send waits for room; once the writer is gone   *)
(* it fails at once.  Frames are read in the order they were put on the    *)
(* channel, so the histories count them here.                              *)

Bump(f, k, fr) == IF fr.kind = k /\ fr.id \in Ids THEN [f EXCEPT ![fr.id] = @ + 1] ELSE f

\* Mutant: an unbounded channel.
SendUnbounded(fr) ==
  /\ queued' = queued + 1
  /\ UNCHANGED <<items, ends, errs, call>>

\* Responder::send, reply, error and end_stream.
Send(fr) ==
  IF writer = "stopped" THEN UNCHANGED <<wireVars, call>>
  ELSE
  /\ queued < WRITE_QUEUE_DEPTH
  /\ queued' = queued + 1
  /\ items' = Bump(items, "item", fr)
  /\ ends'  = Bump(ends, "end", fr)
  /\ errs'  = Bump(errs, "error", fr)
  /\ call'  = IF fr.kind \in {"end", "error"} /\ fr.id \in Ids /\ call[fr.id] = "inflight"
              THEN [call EXCEPT ![fr.id] = "complete"] ELSE call

----------------------------------------------------------------------------
Init ==
  /\ client = "open" /\ call = [i \in Ids |-> "unused"]
  /\ greeted = FALSE /\ loop = "read" /\ spawning = NoTask /\ outbox = <<>>
  /\ registry = [i \in Ids |-> NoTask]
  /\ st = [t \in Tasks |-> "none"]
  /\ aborted = [t \in Tasks |-> FALSE]
  /\ tid = [t \in Tasks |-> 0]
  /\ cid = [t \in Tasks |-> 0]
  /\ captures = {} /\ nextCapture = 1
  /\ unary = 0 /\ queued = 0 /\ writer = "up"
  /\ items = [i \in Ids |-> 0]
  /\ ends = [i \in Ids |-> 0]
  /\ errs = [i \in Ids |-> 0]

----------------------------------------------------------------------------
(* The read loop.  It handles one frame at a time and reads the next only  *)
(* when every frame it owes for the last one is on the channel.            *)

Reading == loop = "read" /\ spawning = NoTask /\ outbox = <<>> /\ client = "open"

\* An id the client may put on a new call.
FreeId(i) == IF IdReuse = "never" THEN call[i] = "unused" ELSE call[i] # "inflight"

\* Hello is answered inline and opens the session to the other requests.
ReadHello ==
  /\ Reading
  /\ greeted' = TRUE
  /\ outbox' = <<Frame("reply", 0)>>
  /\ UNCHANGED <<clientVars, loop, spawning, registry, taskVars, capVars, unary, writer, wireVars>>

\* A frame without a body, with id 0, or before Hello: an error, read on.
ReadRejected ==
  /\ Reading
  /\ outbox' = <<Frame("error", 0)>>
  /\ UNCHANGED <<clientVars, greeted, loop, spawning, registry, taskVars, capVars, unary,
                 writer, wireVars>>

\* A streaming request before Hello: an error, and no task.
ReadUngreetedStream(i) ==
  /\ Reading /\ ~greeted /\ FreeId(i)
  /\ errs[i] <= MaxEnds
  /\ call' = [call EXCEPT ![i] = "inflight"]
  /\ outbox' = <<Frame("error", i)>>
  /\ UNCHANGED <<client, greeted, loop, spawning, registry, taskVars, capVars, unary,
                 writer, wireVars>>

\* StreamRegistry::cancel removes the entry and aborts the task.
Cancelled(i) ==
  IF i \in Registered
  THEN /\ registry' = [registry EXCEPT ![i] = NoTask]
       /\ aborted' = [aborted EXCEPT ![registry[i]] = TRUE]
  ELSE UNCHANGED <<registry, aborted>>

\* Mutant: Cancel forgets the StreamEnd of an active target.
ReadCancelNoEnd(i) ==
  /\ Reading /\ "cancel" \in Uses
  /\ Cancelled(i)
  /\ outbox' = <<Frame("reply", 0)>>
  /\ UNCHANGED <<clientVars, greeted, loop, spawning, st, tid, cid, capVars, unary,
                 writer, wireVars>>

\* Cancel is handled inline, greeted or not: StreamEnd for an active target,
\* then the acknowledgement.
ReadCancel(i) ==
  /\ Reading /\ "cancel" \in Uses
  /\ Cancelled(i)
  /\ outbox' = IF i \in Registered THEN <<Frame("end", i), Frame("reply", 0)>>
                                   ELSE <<Frame("reply", 0)>>
  /\ UNCHANGED <<clientVars, greeted, loop, spawning, st, tid, cid, capVars, unary,
                 writer, wireVars>>

\* spawn_unary: a detached task that replies once.
ReadUnary ==
  /\ Reading /\ greeted /\ "unary" \in Uses
  /\ unary < MaxUnary
  /\ unary' = unary + 1
  /\ UNCHANGED <<clientVars, loopVars, registry, taskVars, capVars, writer, wireVars>>

\* spawn_stream up to tokio::spawn.  From here the task runs on its own; the
\* insertion into the registry is the read loop's next step.
ReadStream(i, t, start) ==
  /\ Reading /\ greeted /\ FreeId(i)
  /\ start = "open" => "capture" \in Uses
  /\ st[t] = "none"
  /\ call' = [call EXCEPT ![i] = "inflight"]
  /\ spawning' = t
  /\ st' = [st EXCEPT ![t] = start]
  /\ tid' = [tid EXCEPT ![t] = i]
  /\ UNCHANGED <<client, greeted, loop, outbox, registry, aborted, cid, capVars, unary,
                 writer, wireVars>>

\* Mutant: the limit is tested with > instead of >=.
InsertOverLimit ==
  /\ spawning # NoTask
  /\ Cardinality(Registered) <= MAX_STREAMS
  /\ registry' = [registry EXCEPT ![tid[spawning]] = spawning]
  /\ spawning' = NoTask
  /\ UNCHANGED <<clientVars, greeted, loop, outbox, taskVars, capVars, unary, writer, wireVars>>

\* Mutant: a refused stream is reported but its task is not aborted.
InsertNoAbort ==
  /\ spawning # NoTask
  /\ IF Cardinality(Registered) >= MAX_STREAMS
     THEN outbox' = <<Frame("error", tid[spawning])>> /\ UNCHANGED registry
     ELSE registry' = [registry EXCEPT ![tid[spawning]] = spawning] /\ UNCHANGED outbox
  /\ spawning' = NoTask
  /\ UNCHANGED <<clientVars, greeted, loop, taskVars, capVars, unary, writer, wireVars>>

\* Mutant: a refused stream is aborted but nobody is told.
InsertNoError ==
  /\ spawning # NoTask
  /\ IF Cardinality(Registered) >= MAX_STREAMS
     THEN aborted' = [aborted EXCEPT ![spawning] = TRUE] /\ UNCHANGED registry
     ELSE registry' = [registry EXCEPT ![tid[spawning]] = spawning] /\ UNCHANGED aborted
  /\ spawning' = NoTask
  /\ UNCHANGED <<clientVars, greeted, loop, outbox, st, tid, cid, capVars, unary, writer, wireVars>>

\* StreamRegistry::insert, and the refusal spawn_stream makes of its Err.
Insert ==
  /\ spawning # NoTask
  /\ LET i == tid[spawning] IN
     IF Cardinality(Registered) >= MAX_STREAMS
     THEN /\ aborted' = [aborted EXCEPT ![spawning] = TRUE]
          /\ outbox' = <<Frame("error", i)>>
          /\ UNCHANGED registry
     ELSE /\ registry' = [registry EXCEPT ![i] = spawning]
          /\ aborted' = [t \in Tasks |-> aborted[t] \/ t = registry[i]]
          /\ UNCHANGED outbox
  /\ spawning' = NoTask
  /\ UNCHANGED <<clientVars, greeted, loop, st, tid, cid, capVars, unary, writer,
                 wireVars>>

\* Daemon::stop_capture: is there a capture with this id?  (The flag it sets
\* is read by the capture loop, module Capture.)
StopsCapture(c) == \E t \in captures : cid[t] = c

\* StopCapture.  The capture id is tried first as a stream id of this
\* connection, then as the id of a capture of any connection.
ReadStopCapture(c) ==
  /\ Reading /\ greeted /\ "stop" \in Uses
  /\ ends[c] <= MaxEnds
  /\ Cancelled(c)
  /\ outbox' = IF c \in Registered \/ StopsCapture(c)
               THEN <<Frame("end", c), Frame("reply", 0)>>
               ELSE <<Frame("error", 0)>>
  /\ UNCHANGED <<clientVars, greeted, loop, spawning, st, tid, cid, capVars, unary,
                 writer, wireVars>>

\* A malformed frame: report it and leave the loop.
ReadMalformed ==
  /\ Reading
  /\ outbox' = <<Frame("error", 0)>>
  /\ loop' = "closing"
  /\ UNCHANGED <<clientVars, greeted, spawning, registry, taskVars, capVars, unary, writer,
                 wireVars>>

\* End of file leaves the loop too.
ReadEof ==
  /\ loop = "read" /\ spawning = NoTask /\ outbox = <<>> /\ client # "open"
  /\ loop' = "closing"
  /\ UNCHANGED <<clientVars, greeted, spawning, outbox, registry, taskVars, capVars, unary,
                 writer, wireVars>>

\* The read loop's own sends; it waits here while the channel is full.
LoopSend ==
  /\ outbox # <<>>
  /\ Send(Head(outbox))
  /\ outbox' = Tail(outbox)
  /\ UNCHANGED <<client, greeted, loop, spawning, registry, taskVars, capVars, unary, writer>>

\* Mutant: abort_all empties the registry and aborts nothing.
AbortNone ==
  /\ loop = "closing" /\ outbox = <<>>
  /\ registry' = [i \in Ids |-> NoTask]
  /\ loop' = "draining"
  /\ UNCHANGED <<clientVars, greeted, spawning, outbox, taskVars, capVars, unary, writer, wireVars>>

\* After the loop: abort_all, then the loop's own Responder is dropped.
AbortAll ==
  /\ loop = "closing" /\ outbox = <<>>
  /\ aborted' = [t \in Tasks |-> aborted[t] \/ \E i \in Ids : registry[i] = t]
  /\ registry' = [i \in Ids |-> NoTask]
  /\ loop' = "draining"
  /\ UNCHANGED <<clientVars, greeted, spawning, outbox, st, tid, cid, capVars, unary,
                 writer, wireVars>>

\* serve returns when the writer task has.
Close ==
  /\ loop = "draining" /\ writer = "stopped"
  /\ loop' = "closed"
  /\ UNCHANGED <<clientVars, greeted, spawning, outbox, registry, taskVars, capVars, unary,
                 writer, wireVars>>

----------------------------------------------------------------------------
(* A stream task: the block spawn_stream spawns, with the body of          *)
(* watch_network, watch_routes, watch_sockets or start_capture.            *)

\* An abort takes effect: the poll under way returns Pending, or the runtime
\* finds the task parked.  Until then the task may go on.
Drop(t) ==
  /\ Live(t) /\ aborted[t]
  /\ st' = [st EXCEPT ![t] = "cancelled"]
  /\ UNCHANGED <<clientVars, loopVars, registry, aborted, tid, cid, capVars, unary, writer,
                 wireVars>>

\* start_capture takes a capture id, then opens the packet socket or fails.
OpenCapture(t, opens) ==
  /\ st[t] = "open"
  /\ nextCapture' = nextCapture + 1
  /\ cid' = [cid EXCEPT ![t] = nextCapture]
  /\ captures' = IF opens THEN captures \cup {t} ELSE captures
  /\ st' = [st EXCEPT ![t] = IF opens THEN "body" ELSE "ending"]
  /\ UNCHANGED <<clientVars, loopVars, registry, aborted, tid, unary, writer, wireVars>>

\* Where the body goes when it is over: a capture unregisters first.
AfterBody(t) == IF t \in captures THEN "finish" ELSE "ending"

\* One item.  A failed send means the client is gone and ends the body.
SendItem(t) ==
  /\ st[t] = "body"
  /\ items[tid[t]] < MaxItems
  /\ Send(Frame("item", tid[t]))
  /\ st' = [st EXCEPT ![t] = IF writer = "stopped" THEN AfterBody(t) ELSE @]
  /\ UNCHANGED <<client, loopVars, registry, aborted, tid, cid, capVars, unary, writer>>

\* The body ends by itself: a limit or a deadline was reached, or it failed.
FinishBody(t) ==
  /\ st[t] = "body"
  /\ st' = [st EXCEPT ![t] = AfterBody(t)]
  /\ UNCHANGED <<clientVars, loopVars, registry, aborted, tid, cid, capVars, unary,
                 writer, wireVars>>

\* Mutant: a finished capture announces the end of its stream itself.
FinishCaptureEnds(t) ==
  /\ st[t] = "finish"
  /\ Send(Frame("end", tid[t]))
  /\ captures' = captures \ {t}
  /\ st' = [st EXCEPT ![t] = "ending"]
  /\ UNCHANGED <<client, loopVars, registry, aborted, tid, cid, nextCapture, unary, writer>>

\* Daemon::finish_capture.
FinishCapture(t) ==
  /\ st[t] = "finish"
  /\ captures' = captures \ {t}
  /\ st' = [st EXCEPT ![t] = "ending"]
  /\ UNCHANGED <<clientVars, loopVars, registry, aborted, tid, cid, nextCapture, unary,
                 writer, wireVars>>

\* Responder::end_stream at the end of the spawned block.
EndStream(t) ==
  /\ st[t] = "ending"
  /\ Send(Frame("end", tid[t]))
  /\ st' = [st EXCEPT ![t] = "removing"]
  /\ UNCHANGED <<client, loopVars, registry, aborted, tid, cid, capVars, unary, writer>>

\* registry.remove(id): by id, whoever holds the slot.
RemoveSelf(t) ==
  /\ st[t] = "removing"
  /\ registry' = [registry EXCEPT ![tid[t]] = NoTask]
  /\ st' = [st EXCEPT ![t] = "done"]
  /\ UNCHANGED <<clientVars, loopVars, aborted, tid, cid, capVars, unary, writer, wireVars>>

----------------------------------------------------------------------------
(* Unary tasks, the writer task, and the client's end of the socket.       *)

UnaryReply ==
  /\ unary > 0
  /\ Send(Frame("reply", 0))
  /\ unary' = unary - 1
  /\ UNCHANGED <<client, loopVars, registry, taskVars, capVars, writer>>

WriterWrite ==
  /\ writer = "up" /\ queued > 0 /\ client # "gone"
  /\ queued' = queued - 1
  /\ UNCHANGED <<clientVars, loopVars, registry, taskVars, capVars, unary, writer, items, ends,
                 errs>>

\* A write to a closed socket fails and the writer task stops.
WriterFail ==
  /\ writer = "up" /\ queued > 0 /\ client = "gone"
  /\ writer' = "stopped"
  /\ queued' = 0
  /\ UNCHANGED <<clientVars, loopVars, registry, taskVars, capVars, unary, items, ends, errs>>

\* The channel is closed once every Responder is dropped: the read loop's,
\* the stream tasks' and the unary tasks'.
Senders == {t \in Tasks : Live(t)}

WriterDone ==
  /\ writer = "up" /\ queued = 0
  /\ loop = "draining" /\ Senders = {} /\ unary = 0
  /\ writer' = "stopped"
  /\ UNCHANGED <<clientVars, loopVars, registry, taskVars, capVars, unary, wireVars>>

\* DaemonClient::shutdown closes the write half; dropping the client closes both.
ClientLeaves ==
  /\ client # "gone"
  /\ client' \in {"half", "gone"} \ {client}
  /\ UNCHANGED <<call, loopVars, registry, taskVars, capVars, unary, writer, wireVars>>

----------------------------------------------------------------------------
LoopStep ==
  \/ ReadHello \/ ReadRejected \/ ReadUnary \/ ReadMalformed \/ ReadEof
  \/ Insert \/ LoopSend \/ AbortAll \/ Close
  \/ \E i \in Ids : ReadUngreetedStream(i) \/ ReadCancel(i) \/ ReadStopCapture(i)
  \/ \E i \in Ids, t \in Tasks : ReadStream(i, t, "body") \/ ReadStream(i, t, "open")

TaskStep(t) ==
  \/ Drop(t)
  \/ OpenCapture(t, TRUE) \/ OpenCapture(t, FALSE)
  \/ SendItem(t) \/ FinishBody(t) \/ FinishCapture(t) \/ EndStream(t) \/ RemoveSelf(t)

WriterStep == WriterWrite \/ WriterFail \/ WriterDone

Next ==
  \/ LoopStep
  \/ \E t \in Tasks : TaskStep(t)
  \/ UnaryReply
  \/ WriterStep
  \/ ClientLeaves

Spec == Init /\ [][Next]_vars

\* The runtime polls woken tasks and drops aborted ones, a poll returns, the
\* read loop runs on, and the kernel delivers to a client that keeps reading
\* (client.rs, read_loop) or fails the write.  Channel permits are granted
\* in FIFO order, hence strong fairness where a step competes for one.
\* Nothing is assumed of the client's requests or of how long a body lasts.
Fairness ==
  /\ WF_vars(Insert) /\ SF_vars(LoopSend) /\ WF_vars(ReadEof) /\ WF_vars(AbortAll)
  /\ WF_vars(Close) /\ SF_vars(UnaryReply) /\ WF_vars(WriterStep)
  /\ \A t \in Tasks :
       /\ WF_vars(Drop(t))
       /\ WF_vars(FinishCapture(t)) /\ SF_vars(EndStream(t)) /\ WF_vars(RemoveSelf(t))

FairSpec == Spec /\ Fairness

----------------------------------------------------------------------------
(* Properties.                                                             *)

\* Every variable has its type.
TypeOK ==
  /\ client \in {"open", "half", "gone"}
  /\ call \in [Ids -> {"unused", "inflight", "complete"}]
  /\ greeted \in BOOLEAN
  /\ loop \in {"read", "closing", "draining", "closed"}
  /\ spawning \in Tasks \cup {NoTask}
  /\ outbox \in Seq(Frames)
  /\ registry \in [Ids -> Tasks \cup {NoTask}]
  /\ st \in [Tasks -> LiveStates \cup {"none", "done", "cancelled"}]
  /\ aborted \in [Tasks -> BOOLEAN]
  /\ tid \in [Tasks -> Ids \cup {0}]
  /\ cid \in [Tasks -> Nat]
  /\ captures \in SUBSET Tasks
  /\ nextCapture \in Nat
  /\ unary \in Nat
  /\ queued \in 0..WRITE_QUEUE_DEPTH
  /\ writer \in {"up", "stopped"}
  /\ items \in [Ids -> Nat]
  /\ ends \in [Ids -> Nat]
  /\ errs \in [Ids -> Nat]

\* StreamRegistry::insert keeps at most MAX_STREAMS entries.
RegistryWithinLimit == Cardinality(Registered) <= MAX_STREAMS

\* No stream task is out of reach: a task that still runs and that nobody has
\* aborted is the one in the registry under its id, or the read loop is about
\* to put it there.  Cancel and abort_all therefore reach every stream.
NoOrphan ==
  \A t \in Tasks : Live(t) /\ ~aborted[t] => registry[tid[t]] = t \/ spawning = t

\* When the read loop takes the next frame, a call without a registry entry is
\* already over on the wire: a Cancel answered with was_active = false never
\* leaves its target without a StreamEnd or an Error.
UnregisteredMeansOver ==
  loop = "read" /\ spawning = NoTask /\ outbox = <<>> /\ writer = "up" =>
    \A i \in Ids : i \notin Registered => call[i] # "inflight"

\* Once the client has closed its side, serve returns: abort_all reaches every
\* stream, so every Responder is dropped and the writer task can finish.
TeardownCompletes == (client # "open") ~> (loop = "closed")

\* A stream that was aborted or whose body is over gets a StreamEnd (or, if it
\* was refused, an Error), unless the session itself is coming down.
OverIsReported ==
  \A t \in Tasks :
    (Live(t) /\ (aborted[t] \/ st[t] = "ending")) ~>
      (\/ st[t] # "none" /\ call[tid[t]] = "complete"
       \/ loop # "read" \/ client # "open")

\* The contract of service.proto's call model, checked where the client does
\* not cancel and stays below the stream limit.
Contract == INSTANCE StreamContract
              WITH Ids <- Ids, call <- call, items <- items, ends <- ends, errs <- errs
ContractSpec == Contract!Spec

----------------------------------------------------------------------------
(* What comments and the protocol file say, and the code does not do.      *)

\* session.rs, end_stream: "Every streaming call ends with exactly one of these".
AtMostOneStreamEnd == \A i \in Ids : ends[i] <= 1

\* service.proto: StreamEnd is "the last frame of any streaming call".
NothingAfterStreamEnd == [][\A i \in Ids : ends[i] > 0 => items'[i] = items[i]]_vars

\* session.rs, MAX_STREAMS: a "cap on concurrent streaming calls": a call is
\* refused only while that many others are running.
RefusedOnlyAtLimit ==
  spawning # NoTask /\ Cardinality(Registered) >= MAX_STREAMS =>
    Cardinality(Senders \ {spawning}) >= MAX_STREAMS

\* service.proto: a stream_end finishes a streaming call; none is sent for an
\* id that no call ever had.
StreamEndOnlyForCalls == \A i \in Ids : ends[i] > 0 => call[i] # "unused"
=============================================================================

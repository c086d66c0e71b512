-------------------------------- MODULE App ----------------------------------
(***************************************************************************)
(* The app's wiring of its screens to the daemon (slint-app/src/app.rs).   *)
(*                                                                         *)
(* Callbacks run on the UI thread and return at once; what they have to    *)
(* ask the daemon runs in tasks of a multi-threaded runtime.  A task       *)
(* changes the UI only by posting a closure to the event loop, which       *)
(* applies closures in the order they were posted, between callbacks.  The *)
(* tasks and the callbacks share the client, the capture and the id of the *)
(* socket watch through mutexes.                                           *)
(*                                                                         *)
(* Stream ids are numbered per connection, from 1.  The rows of a screen   *)
(* are reduced to the task they came from.                                 *)
(***************************************************************************)
EXTENDS Integers, SequencesExt, FiniteSetsExt, TLC

CONSTANTS
    Uses,        \* what a user may do: `can' the callbacks, and
                 \* `tasks', a bound on the tasks they spawn
    MaxClients,  \* bound: connections made
    MaxItems,    \* bound: frames of one stream
    MAX_STREAMS, \* the daemon's limit on the streams of a connection
    TIMELINE_CAPACITY, CAPTURE_UI_LIMIT,
    Installed,   \* the installed apps, in the order of the list
    None

VARIABLES
    use,         \* the use made of the app in this behaviour
    client,      \* AppState.client: a connection, or 0
    made,        \* connections made so far
    up,          \* connections that are up
    ids,         \* stream ids handed out on each connection
    tasks,       \* the tasks spawned
    queue,       \* closures posted to the event loop
    ui,          \* the properties of the window
    socket_watch,\* AppState.socket_watch: a stream id, or None
    capture,     \* AppState.capture
    filtered,    \* AppState.filtered: the apps a row index refers to
    overlap      \* some capture was started before the last one's task was over

vars == <<use, client, made, up, ids, tasks, queue, ui, socket_watch, capture,
          filtered, overlap>>

-----------------------------------------------------------------------------
Streams == {"diagnose", "socket watch", "timeline", "capture"}

\* A task on a connection.  `id' is its stream's, `live' whether the daemon
\* still serves it, `refused' whether it answered with an Error
\* frame alone, `items' the frames received.
Task(kind, gen, id) ==
    [kind |-> kind, gen |-> gen, id |-> id, pc |-> "spawned", live |-> FALSE,
     refused |-> FALSE, items |-> 0]

Spawned(new) == Len(tasks) + Len(new) <= use.tasks /\ tasks' = tasks \o new

Step(t, fields) == tasks' = [tasks EXCEPT ![t] = fields @@ tasks[t]]

Post(kind, t) == queue' = Append(queue, [kind |-> kind, task |-> t])

Show(fields) == ui' = fields @@ ui

EmptyCapture == [header |-> None, packets |-> {}, stream_id |-> None]

shared == <<socket_watch, capture, filtered, overlap>>

Init ==
    /\ use \in Uses
    /\ client = 0 /\ made = 0 /\ up = {} /\ ids = [g \in 1..MaxClients |-> 0]
    /\ tasks = <<>> /\ queue = <<>> /\ socket_watch = None
    /\ capture = EmptyCapture /\ overlap = FALSE
    /\ filtered = <<>>
    /\ ui = [connecting |-> FALSE, connected |-> FALSE, running |-> FALSE, rows |-> <<>>,
             watching |-> FALSE, capturing |-> FALSE, packets |-> <<>>, events |-> <<>>,
             apps |-> <<>>, query |-> Range(Installed), detail |-> None]

-----------------------------------------------------------------------------
(* Callbacks.  A button is there only while connected, and Connect and      *)
(* Disconnect are enabled only while not connecting.                        *)

connect ==
    /\ ~ui.connecting /\ ~ui.connected
    /\ Show([connecting |-> TRUE])
    /\ Spawned(<<Task("connect", 0, 0)>>)
    /\ UNCHANGED <<use, client, made, up, ids, queue, shared>>

disconnect ==
    /\ "disconnect" \in use.can
    /\ ~ui.connecting /\ ui.connected
    /\ IF client = 0 THEN UNCHANGED <<client, tasks>>
       ELSE client' = 0 /\ Spawned(<<Task("shutdown", client, 0)>>)
    /\ Show([connected |-> FALSE, events |-> <<>>])
    /\ UNCHANGED <<use, made, up, ids, queue, shared>>

refresh ==
    /\ "refresh" \in use.can /\ ui.connected /\ client # 0
    /\ Spawned(<<Task("refresh", client, 0)>>)
    /\ UNCHANGED <<use, client, made, up, ids, queue, ui, shared>>

\* Mutant: the screen is emptied but not marked as running.
DiagnoseNotRunning ==
    /\ "diagnose" \in use.can /\ ui.connected /\ client # 0 /\ ~ui.running
    /\ Show([running |-> FALSE, rows |-> <<>>])
    /\ Spawned(<<Task("diagnose", client, 0)>>)
    /\ UNCHANGED <<use, client, made, up, ids, queue, shared>>

diagnose ==
    /\ "diagnose" \in use.can /\ ui.connected /\ client # 0 /\ ~ui.running
    /\ Show([running |-> TRUE, rows |-> <<>>])
    /\ Spawned(<<Task("diagnose", client, 0)>>)
    /\ UNCHANGED <<use, client, made, up, ids, queue, shared>>

\* Whatever is running is cancelled either way, on the connection there is now.
toggle_socket_watch ==
    /\ "socket watch" \in use.can /\ ui.connected /\ client # 0
    /\ Show([watching |-> ~ui.watching])
    /\ Spawned((IF socket_watch = None THEN <<>> ELSE <<Task("cancel", client, socket_watch)>>)
               \o (IF ui.watching THEN <<>> ELSE <<Task("socket watch", client, 0)>>))
    /\ socket_watch' = None
    /\ UNCHANGED <<use, client, made, up, ids, queue, capture, filtered, overlap>>

CaptureTasks == {t \in DOMAIN tasks : tasks[t].kind = "capture"}


start_capture ==
    /\ "capture" \in use.can /\ ui.connected /\ client # 0 /\ ~ui.capturing
    /\ capture' = EmptyCapture
    /\ Show([capturing |-> TRUE, packets |-> <<>>])
    /\ Spawned(<<Task("capture", client, 0)>>)
    /\ overlap' = (overlap \/ \E t \in CaptureTasks : tasks[t].pc # "done")
    /\ UNCHANGED <<use, client, made, up, ids, queue, socket_watch, filtered>>

stop_capture ==
    /\ "capture" \in use.can /\ ui.connected /\ ui.capturing
    /\ Show([capturing |-> FALSE])
    /\ Spawned(IF client = 0 \/ capture.stream_id = None THEN <<>>
               ELSE <<Task("cancel", client, capture.stream_id)>>)
    /\ UNCHANGED <<use, client, made, up, ids, queue, shared>>

\* The captures a file written now has its header and its packets from: none
\* without packets or without a header.  Saving changes nothing else.
write_pcap == IF capture.packets = {} \/ capture.header = None THEN {}
              ELSE {capture.header} \cup capture.packets

clear_events ==
    /\ "timeline" \in use.can /\ ui.connected /\ ui.events # <<>>
    /\ Show([events |-> <<>>])
    /\ UNCHANGED <<use, client, made, up, ids, tasks, queue, shared>>

\* A query is the set of apps it matches.
apply_filter(query) == SelectSeq(Installed, LAMBDA a : a \in query)

filter_changed ==
    /\ "apps" \in use.can /\ ui.connected
    /\ \E query \in SUBSET Range(Installed) :
          /\ Show([query |-> query, apps |-> apply_filter(query)])
          /\ filtered' = apply_filter(query)
    /\ UNCHANGED <<use, client, made, up, ids, tasks, queue, socket_watch, capture, overlap>>

\* The row names an app by its index in the filtered list.
select_app ==
    /\ "apps" \in use.can /\ ui.connected /\ client # 0
    /\ \E index \in DOMAIN ui.apps \cap DOMAIN filtered :
          Spawned(<<Task("select", client, filtered[index])>>)
    /\ UNCHANGED <<use, client, made, up, ids, queue, ui, shared>>

clear_app ==
    /\ "apps" \in use.can /\ ui.connected /\ ui.detail # None
    /\ Show([detail |-> None])
    /\ UNCHANGED <<use, client, made, up, ids, tasks, queue, shared>>

Callback == \/ connect \/ disconnect \/ refresh \/ diagnose \/ toggle_socket_watch
            \/ start_capture \/ stop_capture \/ clear_events
            \/ filter_changed \/ select_app \/ clear_app

-----------------------------------------------------------------------------
(* Tasks.                                                                   *)

\* The daemon is started and reached, or not; start_timeline takes whatever
\* client there is by then.
Connected(t) ==
    /\ tasks[t].kind = "connect" /\ tasks[t].pc = "spawned"
    /\ \/ /\ made < MaxClients
          /\ made' = made + 1 /\ up' = up \cup {made + 1} /\ client' = made + 1
          /\ Post("connected", t)
          /\ tasks' = [tasks EXCEPT ![t].pc = "timeline"]
       \/ /\ Post("connect failed", t)
          /\ tasks' = [tasks EXCEPT ![t].pc = "done"]
          /\ UNCHANGED <<made, up, client>>
    /\ UNCHANGED <<use, ids, ui, shared>>

start_timeline(t) ==
    /\ tasks[t].kind = "connect" /\ tasks[t].pc = "timeline"
    /\ tasks' = [tasks EXCEPT ![t].pc = "done"]
                \o (IF client = 0 \/ "timeline" \notin use.can THEN <<>> ELSE <<Task("timeline", client, 0)>>)
    /\ UNCHANGED <<use, client, made, up, ids, queue, ui, shared>>

\* DaemonClient::unary: an answer or an error, and never nothing.
Answered(t) ==
    /\ tasks[t].kind \in {"refresh", "select"} /\ tasks[t].pc = "spawned"
    /\ \/ Post("failed", t)
       \/ tasks[t].gen \in up /\ Post("answered", t)
    /\ Step(t, [pc |-> "done"])
    /\ UNCHANGED <<use, client, made, up, ids, ui, shared>>

\* DaemonClient::cancel: the daemon ends the stream with this id.
Cancelled(t) ==
    /\ tasks[t].kind = "cancel" /\ tasks[t].pc = "spawned"
    /\ tasks' = [u \in DOMAIN tasks |->
                    IF u = t THEN [tasks[u] EXCEPT !.pc = "done"]
                    ELSE IF tasks[u].kind \in Streams /\ tasks[u].gen = tasks[t].gen /\ tasks[u].id = tasks[t].id
                    THEN [tasks[u] EXCEPT !.live = FALSE] ELSE tasks[u]]
    /\ UNCHANGED <<use, client, made, up, ids, queue, ui, shared>>

ShutDown(t) ==
    /\ tasks[t].kind = "shutdown" /\ tasks[t].pc = "spawned"
    /\ up' = up \ {tasks[t].gen}
    /\ Step(t, [pc |-> "done"])
    /\ UNCHANGED <<use, client, made, ids, queue, ui, shared>>

\* DaemonClient::stream: an id and a receiver, or an error to show.  A stream
\* past the daemon's limit is refused with an Error frame, which the client does
\* not take for an end.
Open(t) ==
    LET gen == tasks[t].gen
        refused == Cardinality({u \in DOMAIN tasks : tasks[u].gen = gen /\ tasks[u].live}) >= MAX_STREAMS
    IN /\ tasks[t].kind \in Streams /\ tasks[t].pc = "spawned"
       /\ IF gen \in up
          THEN /\ ids' = [ids EXCEPT ![gen] = @ + 1]
               /\ Step(t, [pc |-> "opened", id |-> ids[gen] + 1, live |-> ~refused, refused |-> refused])
               /\ UNCHANGED queue
          ELSE /\ Step(t, [pc |-> "done"])
               /\ IF tasks[t].kind = "timeline" THEN UNCHANGED queue ELSE Post("stream failed", t)
               /\ UNCHANGED ids
       /\ UNCHANGED <<use, client, made, up, ui, shared>>

\* The id is stored where the callbacks look for it.
StoreId(t) ==
    /\ tasks[t].pc = "opened"
    /\ Step(t, [pc |-> "receiving"])
    /\ socket_watch' = IF tasks[t].kind = "socket watch" THEN tasks[t].id ELSE socket_watch
    /\ capture' = IF tasks[t].kind = "capture" THEN [capture EXCEPT !.stream_id = tasks[t].id] ELSE capture
    /\ UNCHANGED <<use, client, made, up, ids, queue, ui, filtered, overlap>>

\* One frame.  A capture starts with the file header, which changes only a line
\* of text on the screen.
Receive(t) ==
    LET first == tasks[t].items = 0
    IN /\ tasks[t].pc = "receiving" /\ ~tasks[t].refused /\ tasks[t].items < MaxItems
       /\ Step(t, [items |-> tasks[t].items + 1])
       /\ CASE tasks[t].kind = "diagnose" -> Post("check", t) /\ UNCHANGED capture
            [] tasks[t].kind = "capture" ->
                  /\ IF first THEN UNCHANGED queue ELSE Post("packet", t)
                  /\ capture' = IF first THEN [capture EXCEPT !.header = t]
                                ELSE [capture EXCEPT !.packets = @ \cup {t}]
            [] OTHER -> Post("event", t) /\ UNCHANGED capture
       /\ UNCHANGED <<use, client, made, up, ids, ui, socket_watch, filtered, overlap>>

\* The last frame of a run that was not cancelled.
ReceiveLast(t) ==
    /\ tasks[t].pc = "receiving" /\ tasks[t].kind \in {"diagnose", "capture"} /\ tasks[t].live
    /\ tasks[t].items > 0
    /\ Step(t, [live |-> FALSE, items |-> MaxItems])
    /\ Post(IF tasks[t].kind = "diagnose" THEN "response" ELSE "finished", t)
    /\ UNCHANGED <<use, client, made, up, ids, ui, shared>>



\* The receiver is closed: what is to be restored is restored either way.
Closed(t) ==
    /\ tasks[t].pc = "receiving"
    /\ ~(tasks[t].live \/ tasks[t].refused) \/ tasks[t].gen \notin up
    /\ Step(t, [pc |-> "done"])
    /\ socket_watch' = IF tasks[t].kind = "socket watch" THEN None ELSE socket_watch
    /\ IF tasks[t].kind \in {"socket watch", "capture"} THEN Post("over", t) ELSE UNCHANGED queue
    /\ UNCHANGED <<use, client, made, up, ids, ui, capture, filtered, overlap>>

TaskStep(t) == \/ Connected(t) \/ start_timeline(t) \/ Answered(t) \/ Cancelled(t) \/ ShutDown(t)
               \/ Open(t) \/ StoreId(t) \/ Receive(t) \/ ReceiveLast(t) \/ Closed(t)

\* The daemon ends a stream by itself: a limit, the deadline, a failure.
StreamEnds(t) ==
    /\ tasks[t].live
    /\ tasks' = [tasks EXCEPT ![t].live = FALSE]
    /\ UNCHANGED <<use, client, made, up, ids, queue, ui, shared>>

\* The connection is lost; nobody tells the window.
ConnectionLost ==
    /\ "loss" \in use.can /\ up # {}
    /\ \E g \in up : up' = up \ {g}
    /\ UNCHANGED <<use, client, made, ids, tasks, queue, ui, shared>>

-----------------------------------------------------------------------------
(* Closures.                                                                *)

push_check(rows, t) == IF t \in Range(rows) THEN rows ELSE Append(rows, t)

\* Newest first, bounded.
push_event(rows, t) == <<t>> \o SubSeq(rows, 1, Min({Len(rows), TIMELINE_CAPACITY - 1}))

\* Newest last, bounded.
push_packet(rows, t) ==
    LET all == Append(rows, t)
    IN IF Len(all) > CAPTURE_UI_LIMIT THEN SubSeq(all, Len(all) - CAPTURE_UI_LIMIT + 1, Len(all)) ELSE all

\* What a closure sets.
Applied(c) ==
    LET kind == tasks[c.task].kind
    IN CASE c.kind = "connected"      -> [connected |-> TRUE, apps |-> apply_filter(ui.query)]
         [] c.kind = "connect failed" -> [connecting |-> FALSE]
         [] c.kind = "answered"       -> IF kind = "refresh" THEN [connecting |-> FALSE]
                                         ELSE [detail |-> tasks[c.task].id]
         [] c.kind = "failed"         -> [connecting |-> ui.connecting /\ kind # "refresh"]
         [] c.kind = "check"          -> [rows |-> push_check(ui.rows, c.task)]
         [] c.kind = "response"       -> [running |-> FALSE, rows |-> <<c.task>>]
         [] c.kind = "event"          -> [events |-> push_event(ui.events, c.task)]
         [] c.kind = "packet"         -> [packets |-> push_packet(ui.packets, c.task)]
         [] c.kind = "finished"       -> [capturing |-> FALSE]
         [] c.kind \in {"over", "stream failed"} ->
               CASE kind = "diagnose"     -> [running |-> FALSE, rows |-> <<>>]
                 [] kind = "socket watch" -> [watching |-> FALSE]
                 [] kind = "capture"      -> [capturing |-> FALSE]


\* The event loop takes the next closure.  The one that follows a connection
\* also lists the apps and invokes the refresh callback.
Apply ==
    /\ queue # <<>>
    /\ queue' = Tail(queue)
    /\ Show(Applied(Head(queue)))
    /\ filtered' = IF Head(queue).kind = "connected" THEN apply_filter(ui.query) ELSE filtered
    /\ IF Head(queue).kind = "connected" /\ client # 0
       THEN tasks' = Append(tasks, Task("refresh", client, 0)) ELSE UNCHANGED tasks
    /\ UNCHANGED <<use, client, made, up, ids, socket_watch, capture, overlap>>

-----------------------------------------------------------------------------
Next == \/ Callback \/ Apply \/ ConnectionLost
        \/ \E t \in DOMAIN tasks : TaskStep(t) \/ StreamEnds(t)

\* The event loop takes its closures, the runtime runs its tasks, and a capture
\* has a deadline.  Users and failures owe nothing.  Each of these steps uses up
\* something bounded, so it is enough that the machinery as a whole goes on.
Machinery == \/ Apply
             \/ \E t \in DOMAIN tasks : TaskStep(t)
             \/ \E t \in CaptureTasks : StreamEnds(t)

Spec == Init /\ [][Next]_vars /\ WF_vars(Machinery)

-----------------------------------------------------------------------------
(* Properties.                                                             *)

TypeOK ==
    /\ client \in 0..made /\ made \in 0..MaxClients /\ up \subseteq 1..made
    /\ \A t \in DOMAIN tasks : tasks[t].pc \in {"spawned", "timeline", "opened", "receiving", "done"}
    /\ Len(ui.events) <= TIMELINE_CAPACITY /\ Len(ui.packets) <= CAPTURE_UI_LIMIT
    /\ \A i \in DOMAIN queue : queue[i].task \in DOMAIN tasks

\* The checks on the screen are those of the run started last: the Diagnose
\* button comes back only with a closure posted after every check of its run, so
\* a late check never lands among the rows of the next run.
RowsOfOneRun ==
    \A i \in DOMAIN ui.rows :
        \A t \in DOMAIN tasks : tasks[t].kind = "diagnose" => t <= ui.rows[i]





-----------------------------------------------------------------------------
(* Statements of the repository that the code does not keep.               *)

Settled ==
    /\ queue = <<>>
    /\ \A t \in DOMAIN tasks : tasks[t].pc = "done" \/ (tasks[t].pc = "receiving" /\ tasks[t].live)

\* "Turning the toggle off stops it": no watch is served once all is settled and
\* the chip is off.
OffStopsTheWatch ==
    Settled /\ ~ui.watching =>
        ~\E t \in DOMAIN tasks : tasks[t].kind = "socket watch" /\ tasks[t].live /\ tasks[t].gen \in up

\* "Stream id, so Stop can cancel the daemon side": no capture is served once
\* all is settled and the button says Start.
StopStopsTheCapture ==
    Settled /\ ~ui.capturing =>
        ~\E t \in CaptureTasks : tasks[t].live /\ tasks[t].gen \in up

\* SavedIsOneCapture without its condition.
SavedIsOneCaptureAlways == Cardinality(write_pcap) <= 1

\* The Diagnose button comes back.
DiagnoseRestored == ui.running ~> ~ui.running

\* A cancel meant for one screen's stream never ends another screen's.
CancelsItsOwn ==
    [][ \A t \in DOMAIN tasks : Cancelled(t) =>
          \A u \in DOMAIN tasks : tasks[u].live /\ ~tasks'[u].live => tasks[u].kind # "timeline" ]_vars
=============================================================================

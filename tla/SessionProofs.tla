--------------------------- MODULE SessionProofs ---------------------------
(***************************************************************************)
(* TLAPS proofs about Session, for every set of tasks, finite set of ids,  *)
(* queue depth and stream limit.                                           *)
(***************************************************************************)
EXTENDS Session, TLAPS, FiniteSetTheorems

----------------------------------------------------------------------------
(* Type correctness.                                                       *)

\* Counting a frame keeps a history a function from ids to numbers.
LEMMA BumpType ==
  ASSUME NEW f, f \in [Ids -> Nat], NEW k, NEW fr
  PROVE  Bump(f, k, fr) \in [Ids -> Nat]
BY DEF Bump

\* Responder::send keeps the channel and the histories well typed.
LEMMA SendType ==
  ASSUME TypeOK, NEW fr \in Frames, Send(fr)
  PROVE  /\ queued' \in 0..WRITE_QUEUE_DEPTH
         /\ items' \in [Ids -> Nat]
         /\ ends' \in [Ids -> Nat]
         /\ errs' \in [Ids -> Nat]
         /\ call' \in [Ids -> {"unused", "inflight", "complete"}]
<1> USE SessionAssumption DEF TypeOK
<1>1. CASE writer = "stopped"
  BY <1>1 DEF Send, wireVars
<1>2. CASE writer # "stopped"
  <2>1. queued' \in 0..WRITE_QUEUE_DEPTH
    BY <1>2 DEF Send
  <2>2. items' \in [Ids -> Nat] /\ ends' \in [Ids -> Nat] /\ errs' \in [Ids -> Nat]
    <3>1. /\ items' = Bump(items, "item", fr)
          /\ ends' = Bump(ends, "end", fr)
          /\ errs' = Bump(errs, "error", fr)
      BY <1>2 DEF Send
    <3> QED BY <3>1, BumpType
  <2>3. call' \in [Ids -> {"unused", "inflight", "complete"}]
    BY <1>2 DEF Send
  <2> QED BY <2>1, <2>2, <2>3
<1> QED BY <1>1, <1>2

\* The frames the session sends are frames.
LEMMA FrameType ==
  ASSUME NEW k \in Kinds, NEW i \in Ids \cup {0}
  PROVE  Frame(k, i) \in Frames
BY DEF Frame, Frames

\* A step of the read loop keeps every variable in its type.
LEMMA LoopType == TypeOK /\ LoopStep => TypeOK'
<1> SUFFICES ASSUME TypeOK, LoopStep PROVE TypeOK'
  OBVIOUS
<1> USE SessionAssumption DEF TypeOK
<1>f. \A k \in Kinds, i \in Ids \cup {0} : Frame(k, i) \in Frames
  BY FrameType
<1>k. "end" \in Kinds /\ "error" \in Kinds /\ "reply" \in Kinds /\ "item" \in Kinds
  BY DEF Kinds
<1>1. CASE ReadHello
  BY <1>1, <1>f, <1>k DEF ReadHello, Reading, clientVars, taskVars, capVars, wireVars
<1>2. CASE ReadRejected
  BY <1>2, <1>f, <1>k DEF ReadRejected, Reading, clientVars, taskVars, capVars, wireVars
<1>3. CASE ReadUnary
  BY <1>3 DEF ReadUnary, Reading, clientVars, loopVars, taskVars, capVars, wireVars
<1>4. CASE ReadMalformed
  BY <1>4, <1>f, <1>k DEF ReadMalformed, Reading, clientVars, taskVars, capVars, wireVars
<1>5. CASE ReadEof
  BY <1>5 DEF ReadEof, clientVars, taskVars, capVars, wireVars
<1>6. CASE Insert
  <2>1. tid[spawning] \in Ids \cup {0}
    BY <1>6 DEF Insert
  <2>2. Frame("error", tid[spawning]) \in Frames
    BY <1>f, <1>k, <2>1
  <2>a. outbox' = outbox \/ outbox' = <<Frame("error", tid[spawning])>>
    BY <1>6 DEF Insert
  <2>b. \/ aborted' = [aborted EXCEPT ![spawning] = TRUE]
        \/ aborted' = [t \in Tasks |-> aborted[t] \/ t = registry[tid[spawning]]]
    BY <1>6 DEF Insert
  <2>3. outbox' \in Seq(Frames)
    <3> DEFINE fr == Frame("error", tid[spawning])
    <3>1. fr \in Frames
      BY <2>2
    <3> HIDE DEF fr
    <3>2. <<fr>> \in Seq(Frames)
      BY <3>1
    <3> QED BY <2>a, <3>2 DEF fr
  <2>4. registry' \in [Ids -> Tasks \cup {NoTask}]
    BY <1>6 DEF Insert
  <2>5. aborted' \in [Tasks -> BOOLEAN]
    BY <2>b
  <2> QED BY <1>6, <2>3, <2>4, <2>5 DEF Insert, clientVars, capVars, wireVars
<1>7. CASE LoopSend
  <2>1. Head(outbox) \in Frames /\ Tail(outbox) \in Seq(Frames)
    BY <1>7 DEF LoopSend
  <2> QED BY <1>7, <2>1, SendType DEF LoopSend, taskVars, capVars
<1>8. CASE AbortAll
  BY <1>8 DEF AbortAll, clientVars, capVars, wireVars
<1>9. CASE Close
  BY <1>9 DEF Close, clientVars, taskVars, capVars, wireVars
<1>10. ASSUME NEW i \in Ids, ReadUngreetedStream(i) PROVE TypeOK'
  BY <1>10, <1>f, <1>k DEF ReadUngreetedStream, Reading, taskVars, capVars, wireVars
<1>11. ASSUME NEW i \in Ids, ReadCancel(i) PROVE TypeOK'
  <2>1. registry' \in [Ids -> Tasks \cup {NoTask}] /\ aborted' \in [Tasks -> BOOLEAN]
    BY <1>11 DEF ReadCancel, Cancelled, Registered
  <2>2. outbox' \in Seq(Frames)
    BY <1>11, <1>f, <1>k DEF ReadCancel
  <2> QED BY <1>11, <2>1, <2>2 DEF ReadCancel, Reading, clientVars, capVars, wireVars
<1>12. ASSUME NEW i \in Ids, ReadStopCapture(i) PROVE TypeOK'
  <2>1. registry' \in [Ids -> Tasks \cup {NoTask}] /\ aborted' \in [Tasks -> BOOLEAN]
    BY <1>12 DEF ReadStopCapture, Cancelled, Registered
  <2>2. outbox' \in Seq(Frames)
    BY <1>12, <1>f, <1>k DEF ReadStopCapture
  <2> QED BY <1>12, <2>1, <2>2 DEF ReadStopCapture, Reading, clientVars, capVars, wireVars
<1>13. ASSUME NEW i \in Ids, NEW t \in Tasks, NEW s \in {"body", "open"}, ReadStream(i, t, s)
       PROVE  TypeOK'
  BY <1>13 DEF ReadStream, Reading, capVars, wireVars, LiveStates
<1> QED
  BY <1>1, <1>2, <1>3, <1>4, <1>5, <1>6, <1>7, <1>8, <1>9, <1>10, <1>11, <1>12, <1>13 DEF LoopStep

\* A task that has left "none" serves a call: its id is one of Ids.
LEMMA TaskType ==
  ASSUME TypeOK, \A u \in Tasks : Live(u) => tid[u] \in Ids, NEW t \in Tasks, TaskStep(t)
  PROVE  TypeOK'
<1> USE SessionAssumption DEF TypeOK, LiveStates
<1>k. "item" \in Kinds /\ "end" \in Kinds
  BY DEF Kinds
<1>1. CASE Drop(t)
  BY <1>1 DEF Drop, clientVars, loopVars, capVars, wireVars
<1>2. ASSUME NEW b \in BOOLEAN, OpenCapture(t, b) PROVE TypeOK'
  BY <1>2 DEF OpenCapture, clientVars, loopVars, wireVars
<1>3. CASE SendItem(t)
  <2>1. tid[t] \in Ids
    BY <1>3 DEF SendItem, Live
  <2>2. Frame("item", tid[t]) \in Frames
    BY <2>1, <1>k, FrameType
  <2>3. st' \in [Tasks -> LiveStates \cup {"none", "done", "cancelled"}]
    BY <1>3 DEF SendItem, AfterBody
  <2>4. Send(Frame("item", tid[t]))
    BY <1>3 DEF SendItem
  <2>5. /\ queued' \in 0..WRITE_QUEUE_DEPTH
        /\ items' \in [Ids -> Nat] /\ ends' \in [Ids -> Nat] /\ errs' \in [Ids -> Nat]
        /\ call' \in [Ids -> {"unused", "inflight", "complete"}]
    BY <2>2, <2>4, SendType
  <2> QED BY <1>3, <2>3, <2>5 DEF SendItem, loopVars, capVars
<1>4. CASE FinishBody(t)
  BY <1>4 DEF FinishBody, AfterBody, clientVars, loopVars, capVars, wireVars
<1>5. CASE FinishCapture(t)
  BY <1>5 DEF FinishCapture, clientVars, loopVars, wireVars
<1>6. CASE EndStream(t)
  <2>1. tid[t] \in Ids
    BY <1>6 DEF EndStream, Live
  <2>2. Frame("end", tid[t]) \in Frames
    BY <2>1, <1>k, FrameType
  <2>4. Send(Frame("end", tid[t]))
    BY <1>6 DEF EndStream
  <2>5. /\ queued' \in 0..WRITE_QUEUE_DEPTH
        /\ items' \in [Ids -> Nat] /\ ends' \in [Ids -> Nat] /\ errs' \in [Ids -> Nat]
        /\ call' \in [Ids -> {"unused", "inflight", "complete"}]
    BY <2>2, <2>4, SendType
  <2> QED BY <1>6, <2>5 DEF EndStream, loopVars, capVars
<1>7. CASE RemoveSelf(t)
  BY <1>7 DEF RemoveSelf, clientVars, loopVars, capVars, wireVars
<1> QED BY <1>1, <1>2, <1>3, <1>4, <1>5, <1>6, <1>7 DEF TaskStep

\* Unary tasks, the writer and the client keep every variable in its type.
LEMMA OtherType ==
  ASSUME TypeOK, UnaryReply \/ WriterStep \/ ClientLeaves \/ UNCHANGED vars
  PROVE  TypeOK'
<1> USE SessionAssumption DEF TypeOK
<1>1. CASE UnaryReply
  <2>1. Frame("reply", 0) \in Frames
    BY FrameType DEF Kinds
  <2>2. Send(Frame("reply", 0))
    BY <1>1 DEF UnaryReply
  <2>3. /\ queued' \in 0..WRITE_QUEUE_DEPTH
        /\ items' \in [Ids -> Nat] /\ ends' \in [Ids -> Nat] /\ errs' \in [Ids -> Nat]
        /\ call' \in [Ids -> {"unused", "inflight", "complete"}]
    BY <2>1, <2>2, SendType
  <2> QED BY <1>1, <2>3 DEF UnaryReply, loopVars, taskVars, capVars
<1>2. CASE WriterWrite
  BY <1>2 DEF WriterWrite, clientVars, loopVars, taskVars, capVars
<1>3. CASE WriterFail
  BY <1>3 DEF WriterFail, clientVars, loopVars, taskVars, capVars
<1>4. CASE WriterDone
  BY <1>4 DEF WriterDone, clientVars, loopVars, taskVars, capVars, wireVars
<1>5. CASE ClientLeaves
  BY <1>5 DEF ClientLeaves, loopVars, taskVars, capVars, wireVars
<1>6. CASE UNCHANGED vars
  BY <1>6 DEF vars, clientVars, loopVars, taskVars, capVars, wireVars
<1> QED BY <1>1, <1>2, <1>3, <1>4, <1>5, <1>6 DEF WriterStep

\* A task that was spawned serves a call.
TaskIds == \A t \in Tasks : st[t] # "none" => tid[t] \in Ids

\* A task is given its id when it is spawned and keeps it.
LEMMA TaskIdsStep == TypeOK /\ TaskIds /\ [Next]_vars => TaskIds'
<1> SUFFICES ASSUME TypeOK, TaskIds, [Next]_vars PROVE TaskIds'
  OBVIOUS
<1> USE DEF TypeOK, TaskIds
<1>1. ASSUME NEW i \in Ids, NEW t \in Tasks, NEW s, ReadStream(i, t, s) PROVE TaskIds'
  BY <1>1 DEF ReadStream
<1>2. ASSUME NEW t \in Tasks, TaskStep(t) PROVE TaskIds'
  BY <1>2 DEF TaskStep, Live, LiveStates, Drop, OpenCapture, SendItem, FinishBody, FinishCapture,
      EndStream, RemoveSelf
<1>3. ASSUME UNCHANGED <<st, tid>> PROVE TaskIds'
  BY <1>3
<1>4. ASSUME NEW i \in Ids, ReadUngreetedStream(i) \/ ReadCancel(i) \/ ReadStopCapture(i)
      PROVE  UNCHANGED <<st, tid>>
  BY <1>4 DEF ReadUngreetedStream, ReadCancel, ReadStopCapture, taskVars
<1>5. ASSUME \/ ReadHello \/ ReadRejected \/ ReadUnary \/ ReadMalformed \/ ReadEof
             \/ Insert \/ LoopSend \/ AbortAll \/ Close
      PROVE  UNCHANGED <<st, tid>>
  BY <1>5 DEF ReadHello, ReadRejected, ReadUnary, ReadMalformed, ReadEof, Insert, LoopSend,
      AbortAll, Close, taskVars
<1>6. ASSUME UnaryReply \/ WriterStep \/ ClientLeaves \/ UNCHANGED vars
      PROVE  UNCHANGED <<st, tid>>
  BY <1>6 DEF UnaryReply, WriterStep, WriterWrite, WriterFail, WriterDone, ClientLeaves, taskVars,
      vars
<1> QED BY <1>1, <1>2, <1>3, <1>4, <1>5, <1>6 DEF Next, LoopStep

\* Every step keeps the types.
LEMMA TypeStep == TypeOK /\ TaskIds /\ [Next]_vars => TypeOK'
<1> SUFFICES ASSUME TypeOK, TaskIds, [Next]_vars PROVE TypeOK'
  OBVIOUS
<1>1. \A u \in Tasks : Live(u) => tid[u] \in Ids
  BY DEF TaskIds, Live, LiveStates
<1>2. CASE LoopStep
  BY <1>2, LoopType
<1>3. CASE \E t \in Tasks : TaskStep(t)
  BY <1>1, <1>3, TaskType
<1>4. CASE UnaryReply \/ WriterStep \/ ClientLeaves \/ UNCHANGED vars
  BY <1>4, OtherType
<1> QED BY <1>2, <1>3, <1>4 DEF Next

\* The initial state is well typed.
LEMMA TypeInit == Init => TypeOK /\ TaskIds
<1> SUFFICES ASSUME Init PROVE TypeOK /\ TaskIds
  OBVIOUS
<1>1. outbox \in Seq(Frames)
  BY DEF Init
<1>a. queued \in 0..WRITE_QUEUE_DEPTH /\ unary \in Nat /\ nextCapture \in Nat
  BY SessionAssumption DEF Init
<1>b. /\ registry \in [Ids -> Tasks \cup {NoTask}] /\ tid \in [Tasks -> Ids \cup {0}]
      /\ cid \in [Tasks -> Nat] /\ captures \in SUBSET Tasks
      /\ items \in [Ids -> Nat] /\ ends \in [Ids -> Nat] /\ errs \in [Ids -> Nat]
  BY DEF Init
<1>c. st \in [Tasks -> LiveStates \cup {"none", "done", "cancelled"}]
  BY DEF Init
<1>d. aborted \in [Tasks -> BOOLEAN] /\ call \in [Ids -> {"unused", "inflight", "complete"}]
  BY DEF Init
<1>2. TypeOK
  BY <1>1, <1>a, <1>b, <1>c, <1>d DEF Init, TypeOK
<1> QED BY <1>2 DEF Init, TaskIds

\* Type correctness of the session: every reachable state of the read loop, the
\* tasks, the registry and the channel is well typed, and the channel never
\* holds more than WRITE_QUEUE_DEPTH frames.
THEOREM TypeCorrect == Spec => []TypeOK
BY TypeInit, TypeStep, TaskIdsStep, PTL DEF Spec

----------------------------------------------------------------------------
(* The stream limit.                                                       *)

\* Only Insert adds a registry entry, and it adds at most one.
LEMMA RegisteredStep ==
  ASSUME TypeOK, [Next]_vars, ~Insert
  PROVE  Registered' \subseteq Registered
<1> USE DEF TypeOK, Registered
<1>1. ASSUME UNCHANGED registry PROVE Registered' \subseteq Registered
  BY <1>1
<1>2. CASE AbortAll
  BY <1>2 DEF AbortAll
<1>3. ASSUME NEW i \in Ids, ReadCancel(i) \/ ReadStopCapture(i)
      PROVE  Registered' \subseteq Registered
  BY <1>3 DEF ReadCancel, ReadStopCapture, Cancelled
<1>4. ASSUME NEW t \in Tasks, RemoveSelf(t) PROVE Registered' \subseteq Registered
  BY <1>4 DEF RemoveSelf
<1>5. ASSUME \/ ReadHello \/ ReadRejected \/ ReadUnary \/ ReadMalformed \/ ReadEof
             \/ LoopSend \/ Close \/ UnaryReply \/ WriterStep \/ ClientLeaves
             \/ UNCHANGED vars
      PROVE  UNCHANGED registry
  BY <1>5 DEF ReadHello, ReadRejected, ReadUnary, ReadMalformed, ReadEof, LoopSend, Close,
      UnaryReply, WriterStep, WriterWrite, WriterFail, WriterDone, ClientLeaves, vars
<1>6. ASSUME NEW i \in Ids, ReadUngreetedStream(i) PROVE UNCHANGED registry
  BY <1>6 DEF ReadUngreetedStream
<1>8. ASSUME NEW i \in Ids, NEW t \in Tasks, NEW s, ReadStream(i, t, s) PROVE UNCHANGED registry
  BY <1>8 DEF ReadStream
<1>7. ASSUME NEW t \in Tasks, TaskStep(t), ~RemoveSelf(t) PROVE UNCHANGED registry
  BY <1>7 DEF TaskStep, Drop, OpenCapture, SendItem, FinishBody, FinishCapture, EndStream
<1> HIDE DEF TypeOK, Registered
<1> QED BY <1>1, <1>2, <1>3, <1>4, <1>5, <1>6, <1>7, <1>8 DEF Next, LoopStep

\* StreamRegistry::insert never lets the registry grow past MAX_STREAMS, whatever
\* the order in which tasks end, are cancelled and are registered.
THEOREM LimitHolds == Spec => []RegistryWithinLimit
<1> USE SessionAssumption
<1>1. Init => RegistryWithinLimit
  <2> SUFFICES ASSUME Init PROVE RegistryWithinLimit
    OBVIOUS
  <2>1. Registered = {}
    BY DEF Init, Registered
  <2> QED BY <2>1, FS_EmptySet DEF RegistryWithinLimit
<1>2. TypeOK /\ RegistryWithinLimit /\ [Next]_vars => RegistryWithinLimit'
  <2> SUFFICES ASSUME TypeOK, RegistryWithinLimit, [Next]_vars PROVE RegistryWithinLimit'
    OBVIOUS
  <2>1. IsFiniteSet(Registered) /\ IsFiniteSet(Registered')
    BY FS_Subset DEF Registered
  <2>2. Cardinality(Registered) \in Nat /\ Cardinality(Registered') \in Nat
    BY <2>1, FS_CardinalityType
  <2>3. CASE ~Insert
    <3>1. Registered' \subseteq Registered
      BY <2>3, RegisteredStep
    <3>2. Cardinality(Registered') <= Cardinality(Registered)
      BY <2>1, <3>1, FS_Subset
    <3> QED BY <2>2, <3>2 DEF RegistryWithinLimit
  <2>4. CASE Insert /\ Cardinality(Registered) >= MAX_STREAMS
    <3>1. Registered' = Registered
      BY <2>4 DEF Insert, Registered
    <3> QED BY <3>1 DEF RegistryWithinLimit
  <2>5. CASE Insert /\ ~(Cardinality(Registered) >= MAX_STREAMS)
    <3>1. Registered' \subseteq Registered \cup {tid[spawning]}
      BY <2>5 DEF Insert, Registered, TypeOK
    <3>a. /\ IsFiniteSet(Registered \cup {tid[spawning]})
          /\ \/ Cardinality(Registered \cup {tid[spawning]}) = Cardinality(Registered)
             \/ Cardinality(Registered \cup {tid[spawning]}) = Cardinality(Registered) + 1
      BY <2>1, FS_AddElement, Zenon
    <3>2. /\ IsFiniteSet(Registered \cup {tid[spawning]})
          /\ Cardinality(Registered \cup {tid[spawning]}) <= Cardinality(Registered) + 1
      BY <2>2, <3>a
    <3>3. Cardinality(Registered') <= Cardinality(Registered \cup {tid[spawning]})
      BY <3>1, <3>2, FS_Subset
    <3>4. Cardinality(Registered \cup {tid[spawning]}) \in Nat
      BY <3>2, FS_CardinalityType
    <3> QED BY <2>2, <2>5, <3>2, <3>3, <3>4 DEF RegistryWithinLimit
  <2> QED BY <2>3, <2>4, <2>5
<1> QED BY <1>1, <1>2, TypeCorrect, PTL DEF Spec

----------------------------------------------------------------------------
(* Every running stream can be reached, for a client that never reuses an  *)
(* id (client.rs takes ids from a counter).                                *)

\* The id of a spawned task has been used, and by no other task.
OwnIds ==
  /\ \A t \in Tasks : st[t] # "none" => call[tid[t]] # "unused"
  /\ \A t, u \in Tasks : st[t] # "none" /\ st[u] # "none" /\ tid[t] = tid[u] => t = u

\* A registry entry holds a task of its own id.
RegistryNames == \A i \in Registered : st[registry[i]] # "none" /\ tid[registry[i]] = i

\* While a task is between spawn and insert the loop does nothing else, and the
\* slot of its id is empty.
SpawningFresh ==
  spawning # NoTask =>
    /\ loop = "read" /\ outbox = <<>>
    /\ st[spawning] # "none" /\ tid[spawning] \notin Registered

ReachInv == TypeOK /\ TaskIds /\ OwnIds /\ RegistryNames /\ SpawningFresh /\ NoOrphan

\* The read loop has told, or is about to tell, the client about every call that
\* is in flight and has no registry entry.
Owed ==
  writer = "up" /\ loop = "read" =>
    \A i \in Ids : call[i] = "inflight" =>
      \/ i \in Registered
      \/ spawning # NoTask /\ tid[spawning] = i
      \/ \E n \in DOMAIN outbox : outbox[n].kind \in {"end", "error"} /\ outbox[n].id = i

\* A task removes its entry only after its StreamEnd is on the channel.
RemovingIsOver ==
  writer = "up" => \A t \in Tasks : st[t] = "removing" => call[tid[t]] # "inflight"

OverInv == ReachInv /\ Owed /\ RemovingIsOver

\* What a send does to the calls: only a terminal frame changes one, the one it
\* names, from inflight to complete.
LEMMA SendCall ==
  ASSUME TypeOK, NEW fr \in Frames, Send(fr)
  PROVE  /\ \A i \in Ids : call'[i] # call[i] => call[i] = "inflight" /\ call'[i] = "complete"
         /\ writer = "up" /\ fr.kind \in {"end", "error"} /\ fr.id \in Ids =>
              call'[fr.id] # "inflight"
<1>1. CASE writer = "stopped"
  <2>1. call' = call
    BY <1>1 DEF Send
  <2> QED BY <1>1, <2>1
<1>2. CASE writer # "stopped"
  <2>1. call \in [Ids -> {"unused", "inflight", "complete"}]
    BY DEF TypeOK
  <2>2. CASE fr.kind \in {"end", "error"} /\ fr.id \in Ids /\ call[fr.id] = "inflight"
    <3>1. call' = [call EXCEPT ![fr.id] = "complete"]
      BY <1>2, <2>2 DEF Send
    <3> QED BY <2>1, <2>2, <3>1
  <2>3. CASE ~(fr.kind \in {"end", "error"} /\ fr.id \in Ids /\ call[fr.id] = "inflight")
    <3>1. call' = call
      BY <1>2, <2>3 DEF Send
    <3> QED BY <2>3, <3>1
  <2> QED BY <2>2, <2>3
<1> QED BY <1>1, <1>2

\* The part of ReachInv that is not type correctness.
Reach == OwnIds /\ RegistryNames /\ SpawningFresh /\ NoOrphan

\* No call becomes unused again.
NoUnuse == \A i \in Ids : call'[i] = "unused" => call[i] = "unused"

\* Steps that touch neither the tasks nor the registry.
LEMMA ReachQuiet ==
  ASSUME ReachInv, NoUnuse, UNCHANGED <<st, tid, aborted, registry, spawning>>,
         spawning = NoTask \/ UNCHANGED <<loop, outbox>>
  PROVE  Reach'
<1>1. OwnIds'
  BY DEF ReachInv, OwnIds, NoUnuse, TaskIds
<1>2. RegistryNames' /\ NoOrphan'
  BY DEF ReachInv, RegistryNames, NoOrphan, Registered, Live
<1>3. SpawningFresh'
  BY DEF ReachInv, SpawningFresh, Registered
<1> QED BY <1>1, <1>2, <1>3 DEF Reach

\* Steps of one task's own control flow, up to the removal of its entry.
LEMMA ReachTask ==
  ASSUME ReachInv, NoUnuse, NEW t \in Tasks, NEW x, Live(t), x # "none",
         st' = [st EXCEPT ![t] = x], UNCHANGED <<tid, aborted, registry, loopVars>>
  PROVE  Reach'
<1> USE DEF ReachInv, TypeOK
<1>1. \A u \in Tasks : (st'[u] # "none") <=> (st[u] # "none")
  BY DEF Live, LiveStates
<1>2. OwnIds'
  BY <1>1 DEF OwnIds, NoUnuse, TaskIds
<1>3. RegistryNames'
  BY <1>1, SessionAssumption DEF RegistryNames, Registered
<1>4. SpawningFresh'
  BY <1>1, SessionAssumption DEF SpawningFresh, Registered, loopVars
<1>5. NoOrphan'
  BY DEF NoOrphan, Live, loopVars
<1> QED BY <1>2, <1>3, <1>4, <1>5 DEF Reach

\* StreamRegistry::cancel aborts exactly the task whose entry it takes.
LEMMA ReachCancelled ==
  ASSUME ReachInv, NEW i \in Ids, Cancelled(i), spawning = NoTask,
         UNCHANGED <<st, tid, spawning, call>>
  PROVE  Reach'
<1> USE SessionAssumption DEF ReachInv, TypeOK
<1>1. CASE i \in Registered
  <2>1. /\ registry' = [registry EXCEPT ![i] = NoTask]
        /\ aborted' = [aborted EXCEPT ![registry[i]] = TRUE]
        /\ registry[i] \in Tasks
    BY <1>1 DEF Cancelled, Registered
  <2>2. OwnIds' /\ SpawningFresh'
    BY DEF OwnIds, SpawningFresh
  <2>3. RegistryNames'
    BY <2>1 DEF RegistryNames, Registered
  <2>4. NoOrphan'
    BY <2>1 DEF NoOrphan, Live
  <2> QED BY <2>2, <2>3, <2>4 DEF Reach
<1>2. CASE i \notin Registered
  <2>1. UNCHANGED <<registry, aborted>>
    BY <1>2 DEF Cancelled
  <2> QED BY <2>1 DEF Reach, OwnIds, SpawningFresh, RegistryNames, Registered, NoOrphan, Live
<1> QED BY <1>1, <1>2

\* StreamRegistry::insert, accepting or refusing.
LEMMA ReachInsert == ReachInv /\ Insert => Reach'
<1> SUFFICES ASSUME ReachInv, Insert PROVE Reach'
  OBVIOUS
<1> USE SessionAssumption DEF ReachInv, TypeOK
<1>1. /\ spawning \in Tasks /\ st[spawning] # "none" /\ tid[spawning] \in Ids
      /\ registry[tid[spawning]] = NoTask
  BY DEF Insert, SpawningFresh, TaskIds, Registered
<1>2. UNCHANGED <<st, tid, call>> /\ spawning' = NoTask
  BY DEF Insert, clientVars
<1>3. OwnIds' /\ SpawningFresh'
  BY <1>2 DEF OwnIds, SpawningFresh
<1>4. CASE Cardinality(Registered) >= MAX_STREAMS
  <2>1. registry' = registry /\ aborted' = [aborted EXCEPT ![spawning] = TRUE]
    BY <1>4 DEF Insert
  <2>2. RegistryNames'
    BY <1>2, <2>1 DEF RegistryNames, Registered
  <2>3. NoOrphan'
    BY <1>1, <1>2, <2>1 DEF NoOrphan, Live
  <2> QED BY <1>3, <2>2, <2>3 DEF Reach
<1>5. CASE ~(Cardinality(Registered) >= MAX_STREAMS)
  <2>1. /\ registry' = [registry EXCEPT ![tid[spawning]] = spawning]
        /\ aborted' = [t \in Tasks |-> aborted[t] \/ t = registry[tid[spawning]]]
    BY <1>5 DEF Insert
  <2>2. \A t \in Tasks : aborted'[t] = aborted[t]
    BY <1>1, <2>1
  <2>3. RegistryNames'
    BY <1>1, <1>2, <2>1 DEF RegistryNames, Registered
  <2>4. NoOrphan'
    <3> SUFFICES ASSUME NEW t \in Tasks, Live(t)', ~aborted'[t] PROVE registry'[tid'[t]] = t
      BY DEF NoOrphan
    <3>1. Live(t) /\ ~aborted[t] /\ st[t] # "none"
      BY <1>2, <2>2 DEF Live, LiveStates
    <3>2. registry[tid[t]] = t \/ spawning = t
      BY <3>1 DEF NoOrphan
    <3>3. t # spawning => tid[t] # tid[spawning]
      BY <1>1, <3>1 DEF OwnIds
    <3>4. tid[t] \in Ids
      BY <3>1 DEF TaskIds
    <3> QED BY <1>1, <1>2, <2>1, <3>2, <3>3, <3>4
  <2> QED BY <1>3, <2>3, <2>4 DEF Reach
<1> QED BY <1>4, <1>5

\* abort_all aborts every registered task, and between them those are all.
LEMMA ReachAbortAll == ReachInv /\ AbortAll => Reach'
<1> SUFFICES ASSUME ReachInv, AbortAll PROVE Reach'
  OBVIOUS
<1> USE SessionAssumption DEF ReachInv, TypeOK
<1>1. UNCHANGED <<st, tid, call, spawning>> /\ spawning = NoTask
  BY DEF AbortAll, SpawningFresh, clientVars
<1>2. OwnIds' /\ SpawningFresh'
  BY <1>1 DEF OwnIds, SpawningFresh
<1>3. Registered' = {}
  BY DEF AbortAll, Registered
<1>4. RegistryNames'
  BY <1>3 DEF RegistryNames
<1>5. NoOrphan'
  <2> SUFFICES ASSUME NEW t \in Tasks, Live(t)' PROVE aborted'[t]
    BY DEF NoOrphan
  <2>1. Live(t) /\ st[t] # "none"
    BY <1>1 DEF Live, LiveStates
  <2>2. aborted[t] \/ registry[tid[t]] = t
    BY <1>1, <2>1 DEF NoOrphan
  <2>3. tid[t] \in Ids
    BY <2>1 DEF TaskIds
  <2>4. aborted'[t] = (aborted[t] \/ \E i \in Ids : registry[i] = t)
    BY DEF AbortAll
  <2> QED BY <2>2, <2>3, <2>4
<1> QED BY <1>2, <1>4, <1>5 DEF Reach

\* spawn_stream gives the new task an id no task had.
LEMMA ReachReadStream ==
  ASSUME IdReuse = "never", ReachInv, NEW i \in Ids, NEW t \in Tasks, NEW x \in {"body", "open"},
         ReadStream(i, t, x)
  PROVE  Reach'
<1> USE SessionAssumption DEF ReachInv, TypeOK
<1>1. /\ call[i] = "unused" /\ call' = [call EXCEPT ![i] = "inflight"]
      /\ spawning = NoTask /\ spawning' = t /\ st[t] = "none"
      /\ st' = [st EXCEPT ![t] = x] /\ tid' = [tid EXCEPT ![t] = i]
      /\ loop = "read" /\ outbox = <<>>
      /\ UNCHANGED <<loop, outbox, registry, aborted>>
  BY DEF ReadStream, FreeId, Reading
<1>2. \A u \in Tasks : st[u] # "none" => tid[u] # i /\ tid[u] \in Ids /\ u # t
  BY <1>1 DEF OwnIds, TaskIds
<1>3. i \notin Registered
  BY <1>1, <1>2 DEF RegistryNames, Registered
<1>4. OwnIds'
  BY <1>1, <1>2 DEF OwnIds
<1>5. RegistryNames'
  BY <1>1, <1>2 DEF RegistryNames, Registered
<1>6. SpawningFresh'
  BY <1>1, <1>3 DEF SpawningFresh, Registered
<1>7. NoOrphan'
  <2> SUFFICES ASSUME NEW u \in Tasks, Live(u)', ~aborted'[u], u # t PROVE registry'[tid'[u]] = u
    BY <1>1 DEF NoOrphan
  <2> QED BY <1>1 DEF NoOrphan, Live
<1> QED BY <1>4, <1>5, <1>6, <1>7 DEF Reach

\* registry.remove(id) takes out the finished task's own entry and no other.
LEMMA ReachRemoveSelf ==
  ASSUME ReachInv, NEW t \in Tasks, RemoveSelf(t)
  PROVE  Reach'
<1> USE SessionAssumption DEF ReachInv, TypeOK
<1>1. /\ st[t] = "removing" /\ st' = [st EXCEPT ![t] = "done"]
      /\ registry' = [registry EXCEPT ![tid[t]] = NoTask]
      /\ UNCHANGED <<call, spawning, loop, outbox, aborted, tid>>
      /\ tid[t] \in Ids
  BY DEF RemoveSelf, clientVars, loopVars, TaskIds
<1>2. \A u \in Tasks : (st'[u] # "none") <=> (st[u] # "none")
  BY <1>1
<1>3. OwnIds'
  BY <1>1, <1>2 DEF OwnIds
<1>4. RegistryNames'
  BY <1>1, <1>2 DEF RegistryNames, Registered
<1>5. SpawningFresh'
  BY <1>1, <1>2 DEF SpawningFresh, Registered
<1>6. NoOrphan'
  <2> SUFFICES ASSUME NEW u \in Tasks, Live(u)', ~aborted'[u]
               PROVE  registry'[tid'[u]] = u \/ spawning' = u
    BY DEF NoOrphan
  <2>1. u # t /\ Live(u) /\ st[u] # "none"
    BY <1>1 DEF Live, LiveStates
  <2>2. tid[u] # tid[t] /\ tid[u] \in Ids
    BY <1>1, <2>1 DEF OwnIds, TaskIds
  <2> QED BY <1>1, <2>1, <2>2 DEF NoOrphan
<1> QED BY <1>3, <1>4, <1>5, <1>6 DEF Reach

\* The frames a task or the loop sends leave every used call used.
LEMMA SendNoUnuse ==
  ASSUME TypeOK, NEW fr \in Frames, Send(fr)
  PROVE  NoUnuse
BY SendCall DEF NoUnuse

\* Every step keeps running tasks within reach of the registry.
LEMMA ReachStep ==
  ASSUME IdReuse = "never", ReachInv, [Next]_vars
  PROVE  Reach'
<1>t. TypeOK /\ TaskIds
  BY DEF ReachInv
<1>k. \A k \in {"item", "end", "reply"}, i \in Ids \cup {0} : Frame(k, i) \in Frames
  BY FrameType DEF Kinds
<1>1. CASE ReadHello \/ ReadRejected \/ ReadMalformed \/ ReadEof
  <2>1. /\ spawning = NoTask
        /\ UNCHANGED <<st, tid, aborted, registry, spawning, call>>
    BY <1>1 DEF ReadHello, ReadRejected, ReadMalformed, ReadEof, Reading, taskVars, clientVars
  <2> QED BY <2>1, ReachQuiet DEF NoUnuse
<1>2. CASE ReadUnary \/ WriterStep \/ ClientLeaves \/ UNCHANGED vars
  <2>1. UNCHANGED <<st, tid, aborted, registry, spawning, call, loop, outbox>>
    BY <1>2 DEF ReadUnary, WriterStep, WriterWrite, WriterFail, WriterDone, ClientLeaves, vars,
        taskVars, clientVars, loopVars
  <2> QED BY <2>1, ReachQuiet DEF NoUnuse
<1>3. CASE Close
  <2>1. spawning = NoTask /\ UNCHANGED <<st, tid, aborted, registry, spawning, call>>
    BY <1>3 DEF Close, ReachInv, SpawningFresh, taskVars, clientVars
  <2> QED BY <2>1, ReachQuiet DEF NoUnuse
<1>4. CASE LoopSend
  <2>1. spawning = NoTask /\ UNCHANGED <<st, tid, aborted, registry, spawning>>
    BY <1>4 DEF LoopSend, ReachInv, SpawningFresh, taskVars
  <2>2. Head(outbox) \in Frames /\ Send(Head(outbox))
    BY <1>4, <1>t DEF LoopSend, TypeOK
  <2> QED BY <1>t, <2>1, <2>2, SendNoUnuse, ReachQuiet
<1>5. CASE UnaryReply
  <2>1. UNCHANGED <<st, tid, aborted, registry, spawning, loop, outbox>>
    BY <1>5 DEF UnaryReply, taskVars, loopVars
  <2>2. Frame("reply", 0) \in Frames /\ Send(Frame("reply", 0))
    BY <1>5, <1>k DEF UnaryReply
  <2> QED BY <1>t, <2>1, <2>2, SendNoUnuse, ReachQuiet
<1>6. ASSUME NEW i \in Ids, ReadUngreetedStream(i) PROVE Reach'
  <2>1. spawning = NoTask /\ UNCHANGED <<st, tid, aborted, registry, spawning>>
    BY <1>6 DEF ReadUngreetedStream, Reading, taskVars
  <2>2. NoUnuse
    BY <1>6, <1>t DEF ReadUngreetedStream, NoUnuse, TypeOK
  <2> QED BY <2>1, <2>2, ReachQuiet
<1>7. ASSUME NEW i \in Ids, ReadCancel(i) \/ ReadStopCapture(i) PROVE Reach'
  <2>1. Cancelled(i) /\ spawning = NoTask /\ UNCHANGED <<st, tid, spawning, call>>
    BY <1>7 DEF ReadCancel, ReadStopCapture, Reading, clientVars
  <2> QED BY <2>1, ReachCancelled
<1>8. ASSUME NEW t \in Tasks, TaskStep(t), ~RemoveSelf(t) PROVE Reach'
  <2>1. CASE Drop(t) \/ OpenCapture(t, TRUE) \/ OpenCapture(t, FALSE)
             \/ FinishBody(t) \/ FinishCapture(t)
    <3>1. PICK x \in {"cancelled", "body", "ending", "finish"} : st' = [st EXCEPT ![t] = x]
      BY <2>1 DEF Drop, OpenCapture, FinishBody, FinishCapture, AfterBody
    <3>2. Live(t) /\ UNCHANGED <<call, tid, aborted, registry, loopVars>>
      BY <2>1 DEF Drop, OpenCapture, FinishBody, FinishCapture, Live, LiveStates, clientVars
    <3> QED BY <3>1, <3>2, ReachTask DEF NoUnuse
  <2>2. CASE SendItem(t)
    <3>1. PICK x \in {"body", "ending", "finish"} : st' = [st EXCEPT ![t] = x]
      BY <2>2, <1>t DEF SendItem, AfterBody, TypeOK
    <3>2. Live(t) /\ UNCHANGED <<tid, aborted, registry, loopVars>>
      BY <2>2 DEF SendItem, Live, LiveStates
    <3>3. Frame("item", tid[t]) \in Frames /\ Send(Frame("item", tid[t]))
      BY <1>t, <1>k, <2>2 DEF SendItem, TypeOK
    <3> QED BY <1>t, <3>1, <3>2, <3>3, SendNoUnuse, ReachTask
  <2>3. CASE EndStream(t)
    <3>1. Live(t) /\ UNCHANGED <<tid, aborted, registry, loopVars>>
      BY <2>3 DEF EndStream, Live, LiveStates
    <3>2. Frame("end", tid[t]) \in Frames /\ Send(Frame("end", tid[t]))
      BY <1>t, <1>k, <2>3 DEF EndStream, TypeOK
    <3>3. st' = [st EXCEPT ![t] = "removing"]
      BY <2>3 DEF EndStream
    <3> QED BY <1>t, <3>1, <3>2, <3>3, SendNoUnuse, ReachTask
  <2> QED BY <1>8, <2>1, <2>2, <2>3 DEF TaskStep
<1> QED
  BY <1>1, <1>2, <1>3, <1>4, <1>5, <1>6, <1>7, <1>8, ReachInsert, ReachAbortAll, ReachReadStream,
     ReachRemoveSelf DEF Next, LoopStep

\* Nothing runs initially, so nothing is out of reach.
LEMMA ReachInit == Init => ReachInv
<1> SUFFICES ASSUME Init PROVE ReachInv
  OBVIOUS
<1>1. TypeOK /\ TaskIds
  BY TypeInit
<1>2. OwnIds /\ RegistryNames /\ SpawningFresh /\ NoOrphan
  BY DEF Init, OwnIds, RegistryNames, SpawningFresh, NoOrphan, Registered, Live, LiveStates
<1> QED BY <1>1, <1>2 DEF ReachInv

\* ReachInv is inductive.
LEMMA ReachInvStep ==
  ASSUME IdReuse = "never"
  PROVE  ReachInv /\ [Next]_vars => ReachInv'
BY ReachStep, TypeStep, TaskIdsStep DEF ReachInv, Reach

\* For a client that never reuses an id, every stream task that still runs and has
\* not been aborted is in the registry or about to be inserted, so Cancel and the
\* teardown of the session reach it.
THEOREM NoOrphanHolds ==
  ASSUME IdReuse = "never"
  PROVE  Spec => []NoOrphan
<1>1. ReachInv => NoOrphan
  BY DEF ReachInv
<1> QED BY <1>1, ReachInit, ReachInvStep, PTL DEF Spec

----------------------------------------------------------------------------
(* A call without a registry entry is over, for the same clients.          *)

\* The writer never comes back, and no step returns to the read loop.
LEMMA OneWay ==
  ASSUME TypeOK, [Next]_vars
  PROVE  /\ writer' = "up" => writer = "up"
         /\ loop' = "read" => loop = "read"
<1>1. CASE LoopStep
  BY <1>1 DEF LoopStep, ReadHello, ReadRejected, ReadUnary, ReadMalformed, ReadEof, Insert, LoopSend,
      AbortAll, Close, ReadUngreetedStream, ReadCancel, ReadStopCapture, ReadStream, loopVars
<1>2. ASSUME NEW t \in Tasks, TaskStep(t) PROVE UNCHANGED <<writer, loop>>
  BY <1>2 DEF TaskStep, Drop, OpenCapture, SendItem, FinishBody, FinishCapture, EndStream,
      RemoveSelf, loopVars
<1>3. CASE UnaryReply \/ WriterStep \/ ClientLeaves \/ UNCHANGED vars
  BY <1>3 DEF UnaryReply, WriterStep, WriterWrite, WriterFail, WriterDone, ClientLeaves, loopVars,
      vars
<1> QED BY <1>1, <1>2, <1>3 DEF Next

\* No call comes into flight.
NoStart == \A i \in Ids : call'[i] = "inflight" => call[i] = "inflight"

\* Sending a frame starts no call.
LEMMA SendNoStart ==
  ASSUME TypeOK, NEW fr \in Frames, Send(fr)
  PROVE  NoStart
BY SendCall DEF NoStart

\* Steps that start no call and leave the registry and the outbox alone.
LEMMA OwedQuiet ==
  ASSUME OverInv, NoStart, [Next]_vars, UNCHANGED <<registry, spawning, outbox, tid>>
  PROVE  Owed'
<1>1. (writer' = "up" => writer = "up") /\ (loop' = "read" => loop = "read")
  BY OneWay DEF OverInv, ReachInv
<1> QED BY <1>1 DEF OverInv, Owed, NoStart, Registered

\* The steps of the read loop that answer a frame.
LEMMA OwedLoop ==
  ASSUME IdReuse = "never", OverInv, LoopStep
  PROVE  Owed'
<1> USE SessionAssumption DEF OverInv, ReachInv, TypeOK
<1>n. [Next]_vars
  BY DEF Next
<1>r. ASSUME Reading, writer = "up" PROVE \A i \in Ids : call[i] = "inflight" => i \in Registered
  BY <1>r DEF Reading, Owed
<1>1. CASE ReadHello \/ ReadRejected
  BY <1>1, <1>r DEF ReadHello, ReadRejected, Reading, clientVars, Registered, Owed
<1>2. CASE ReadMalformed \/ ReadEof \/ AbortAll \/ Close
  BY <1>2 DEF ReadMalformed, ReadEof, AbortAll, Close, Owed
<1>3. CASE ReadUnary
  BY <1>3, <1>n, OwedQuiet DEF ReadUnary, clientVars, loopVars, taskVars, NoStart
<1>4. CASE Insert
  <2>1. spawning \in Tasks /\ tid[spawning] \in Ids
    BY <1>4 DEF Insert, SpawningFresh, TaskIds
  <2>2. UNCHANGED <<call, tid, loop, writer>> /\ spawning' = NoTask /\ outbox = <<>>
    BY <1>4 DEF Insert, clientVars, SpawningFresh
  <2>3. CASE Cardinality(Registered) >= MAX_STREAMS
    <3>1. registry' = registry /\ outbox' = <<Frame("error", tid[spawning])>>
      BY <1>4, <2>3 DEF Insert
    <3>2. outbox'[1].kind = "error" /\ outbox'[1].id = tid[spawning] /\ 1 \in DOMAIN outbox'
      BY <3>1 DEF Frame
    <3> QED BY <2>2, <3>1, <3>2 DEF Owed, Registered
  <2>4. CASE ~(Cardinality(Registered) >= MAX_STREAMS)
    <3>1. registry' = [registry EXCEPT ![tid[spawning]] = spawning]
      BY <1>4, <2>4 DEF Insert
    <3> QED BY <2>1, <2>2, <3>1 DEF Owed, Registered
  <2> QED BY <2>3, <2>4
<1>5. CASE LoopSend
  <2>1. /\ spawning = NoTask /\ outbox # <<>> /\ outbox' = Tail(outbox) /\ Send(Head(outbox))
        /\ Head(outbox) \in Frames /\ Head(outbox) = outbox[1]
        /\ UNCHANGED <<registry, spawning, loop, writer>>
    BY <1>5 DEF LoopSend, SpawningFresh
  <2> SUFFICES ASSUME writer = "up", loop = "read", NEW i \in Ids, call'[i] = "inflight",
                      i \notin Registered
               PROVE  \E n \in DOMAIN outbox' : /\ outbox'[n].kind \in {"end", "error"}
                                               /\ outbox'[n].id = i
    BY <2>1 DEF Owed, Registered
  <2> DEFINE fr == Head(outbox)
  <2>a. fr \in Frames /\ Send(fr) /\ fr = outbox[1]
    BY <2>1
  <2>b. TypeOK
    OBVIOUS
  <2> HIDE DEF fr, TypeOK
  <2>c. /\ \A j \in Ids : call'[j] # call[j] => call[j] = "inflight" /\ call'[j] = "complete"
        /\ writer = "up" /\ fr.kind \in {"end", "error"} /\ fr.id \in Ids =>
              call'[fr.id] # "inflight"
    BY <2>a, <2>b, SendCall
  <2>2. call[i] = "inflight" /\ ~(outbox[1].kind \in {"end", "error"} /\ outbox[1].id = i)
    BY <2>a, <2>c
  <2>3. PICK n \in DOMAIN outbox : outbox[n].kind \in {"end", "error"} /\ outbox[n].id = i
    BY <2>1, <2>2 DEF Owed
  <2>4. n - 1 \in DOMAIN outbox' /\ outbox'[n - 1] = outbox[n]
    <3>1. outbox \in Seq(Frames)
      BY <2>b DEF TypeOK
    <3>2. n \in 2..Len(outbox)
      BY <2>2, <2>3, <3>1
    <3>3. Len(Tail(outbox)) = Len(outbox) - 1 /\ Tail(outbox)[n - 1] = outbox[n]
      BY <2>1, <3>1, <3>2
    <3> QED BY <2>1, <3>1, <3>2, <3>3
  <2> QED BY <2>3, <2>4
<1>6. ASSUME NEW i \in Ids, ReadUngreetedStream(i) PROVE Owed'
  <2>1. /\ outbox' = <<Frame("error", i)>> /\ UNCHANGED <<registry, writer, loop, spawning>>
        /\ Reading /\ call' = [call EXCEPT ![i] = "inflight"]
    BY <1>6 DEF ReadUngreetedStream
  <2>2. outbox'[1].kind = "error" /\ outbox'[1].id = i /\ 1 \in DOMAIN outbox'
    BY <2>1 DEF Frame
  <2> QED BY <1>r, <2>1, <2>2 DEF Owed, Registered
<1>7. ASSUME NEW c \in Ids, ReadCancel(c) \/ ReadStopCapture(c) PROVE Owed'
  <2>1. Reading /\ Cancelled(c) /\ UNCHANGED <<writer, loop, spawning, call>>
    BY <1>7 DEF ReadCancel, ReadStopCapture, clientVars
  <2>2. CASE c \in Registered
    <3>1. outbox' = <<Frame("end", c), Frame("reply", 0)>>
      BY <1>7, <2>2 DEF ReadCancel, ReadStopCapture
    <3>2. outbox'[1].kind = "end" /\ outbox'[1].id = c /\ 1 \in DOMAIN outbox'
      BY <3>1 DEF Frame
    <3>3. registry' = [registry EXCEPT ![c] = NoTask]
      BY <2>1, <2>2 DEF Cancelled
    <3>4. \A i \in Ids : i # c /\ i \in Registered => i \in Registered'
      BY <3>3 DEF Registered
    <3>5. ASSUME writer = "up", NEW i \in Ids, call[i] = "inflight" PROVE i = c \/ i \in Registered'
      BY <1>r, <2>1, <3>4, <3>5
    <3> QED BY <2>1, <3>2, <3>5 DEF Owed
  <2>3. CASE c \notin Registered
    BY <1>r, <2>1, <2>3 DEF Cancelled, Owed, Registered
  <2> QED BY <2>2, <2>3
<1>8. ASSUME NEW i \in Ids, NEW t \in Tasks, NEW x, ReadStream(i, t, x) PROVE Owed'
  <2>1. /\ Reading /\ spawning' = t /\ tid' = [tid EXCEPT ![t] = i]
        /\ call' = [call EXCEPT ![i] = "inflight"]
        /\ UNCHANGED <<registry, writer, loop>>
    BY <1>8 DEF ReadStream
  <2> QED BY <1>r, <2>1 DEF Owed, Registered
<1> QED BY <1>1, <1>2, <1>3, <1>4, <1>5, <1>6, <1>7, <1>8 DEF LoopStep

\* What a task's own steps do to calls, and the StreamEnd before the removal.
LEMMA TaskCalls ==
  ASSUME OverInv, NEW t \in Tasks, TaskStep(t)
  PROVE  NoStart /\ RemovingIsOver' /\ UNCHANGED <<spawning, outbox, tid, writer, loop>>
<1>t. TypeOK /\ TaskIds /\ RemovingIsOver
  BY DEF OverInv, ReachInv
<1>k. \A k \in {"item", "end"}, i \in Ids \cup {0} : Frame(k, i) \in Frames
  BY FrameType DEF Kinds
<1>1. CASE Drop(t) \/ OpenCapture(t, TRUE) \/ OpenCapture(t, FALSE) \/ FinishBody(t)
           \/ FinishCapture(t) \/ RemoveSelf(t)
  <2>1. UNCHANGED <<call, spawning, outbox, tid, writer, loop>>
    BY <1>1 DEF Drop, OpenCapture, FinishBody, FinishCapture, RemoveSelf, clientVars, loopVars
  <2>2. PICK x \in {"cancelled", "body", "ending", "finish", "done"} : st' = [st EXCEPT ![t] = x]
    BY <1>1 DEF Drop, OpenCapture, FinishBody, FinishCapture, RemoveSelf, AfterBody
  <2> QED BY <1>t, <2>1, <2>2 DEF NoStart, RemovingIsOver, TypeOK
<1>2. CASE SendItem(t)
  <2>1. UNCHANGED <<spawning, outbox, tid, writer, loop>>
    BY <1>2 DEF SendItem, loopVars
  <2>2. PICK x \in {"body", "ending", "finish"} : st' = [st EXCEPT ![t] = x]
    BY <1>2, <1>t DEF SendItem, AfterBody, TypeOK
  <2>3. Frame("item", tid[t]) \in Frames /\ Send(Frame("item", tid[t]))
    BY <1>t, <1>k, <1>2 DEF SendItem, TypeOK
  <2>4. NoStart
    BY <1>t, <2>3, SendNoStart
  <2> QED BY <1>t, <2>1, <2>2, <2>4 DEF NoStart, RemovingIsOver, TypeOK, TaskIds
<1>3. CASE EndStream(t)
  <2>1. UNCHANGED <<spawning, outbox, tid, writer, loop>> /\ st[t] = "ending"
        /\ st' = [st EXCEPT ![t] = "removing"]
    BY <1>3 DEF EndStream, loopVars
  <2>2. tid[t] \in Ids
    BY <1>t, <2>1 DEF TaskIds
  <2>3. Frame("end", tid[t]) \in Frames /\ Send(Frame("end", tid[t]))
    BY <1>k, <1>3, <2>2 DEF EndStream
  <2>4. NoStart
    BY <1>t, <2>3, SendNoStart
  <2>5. Frame("end", tid[t]).kind = "end" /\ Frame("end", tid[t]).id = tid[t]
    BY DEF Frame
  <2>6. writer = "up" => call'[tid[t]] # "inflight"
    BY <1>t, <2>2, <2>3, <2>5, SendCall
  <2> QED BY <1>t, <2>1, <2>2, <2>4, <2>6 DEF NoStart, RemovingIsOver, TypeOK, TaskIds
<1> QED BY <1>1, <1>2, <1>3 DEF TaskStep

\* The steps of one task keep every unregistered call accounted for.
LEMMA OwedTask ==
  ASSUME OverInv, NEW t \in Tasks, TaskStep(t)
  PROVE  Owed'
<1>1. NoStart /\ UNCHANGED <<spawning, outbox, tid, writer, loop>>
  BY TaskCalls
<1>2. CASE UNCHANGED registry
  BY <1>1, <1>2 DEF OverInv, Owed, NoStart, Registered
<1>3. CASE RemoveSelf(t)
  <2>1. /\ st[t] = "removing" /\ registry' = [registry EXCEPT ![tid[t]] = NoTask]
        /\ UNCHANGED call
    BY <1>3 DEF RemoveSelf, clientVars
  <2>2. writer = "up" => call[tid[t]] # "inflight"
    BY <2>1 DEF OverInv, RemovingIsOver
  <2>3. registry \in [Ids -> Tasks \cup {NoTask}]
    BY DEF OverInv, ReachInv, TypeOK
  <2> QED BY <1>1, <2>1, <2>2, <2>3 DEF OverInv, Owed, Registered
<1>4. TaskStep(t) /\ ~RemoveSelf(t) => UNCHANGED registry
  BY DEF TaskStep, Drop, OpenCapture, SendItem, FinishBody, FinishCapture, EndStream
<1> QED BY <1>2, <1>3, <1>4

\* The read loop starts calls only under ids no task has.
LEMMA RemovingLoop ==
  ASSUME IdReuse = "never", OverInv, LoopStep
  PROVE  RemovingIsOver'
<1>t. TypeOK /\ TaskIds /\ OwnIds /\ RemovingIsOver /\ SpawningFresh
  BY DEF OverInv, ReachInv
<1>w. writer' = writer
  BY DEF LoopStep, ReadHello, ReadRejected, ReadUnary, ReadMalformed, ReadEof, Insert, LoopSend,
      AbortAll, Close, ReadUngreetedStream, ReadCancel, ReadStopCapture, ReadStream
<1>1. ASSUME UNCHANGED <<st, tid, call>> PROVE RemovingIsOver'
  BY <1>1, <1>t, <1>w DEF RemovingIsOver
<1>2. CASE ReadHello \/ ReadRejected \/ ReadUnary \/ ReadMalformed \/ ReadEof \/ Insert
           \/ AbortAll \/ Close
  BY <1>1, <1>2 DEF ReadHello, ReadRejected, ReadUnary, ReadMalformed, ReadEof, Insert, AbortAll,
      Close, taskVars, clientVars
<1>3. CASE LoopSend
  <2>1. Head(outbox) \in Frames /\ Send(Head(outbox)) /\ UNCHANGED <<st, tid>>
    BY <1>3, <1>t DEF LoopSend, TypeOK, taskVars
  <2>2. NoStart
    BY <1>t, <2>1, SendNoStart
  <2> QED BY <1>t, <1>w, <2>1, <2>2 DEF RemovingIsOver, NoStart, TaskIds
<1>4. ASSUME NEW i \in Ids, ReadCancel(i) \/ ReadStopCapture(i) PROVE RemovingIsOver'
  BY <1>1, <1>4 DEF ReadCancel, ReadStopCapture, clientVars
<1>5. ASSUME NEW i \in Ids, ReadUngreetedStream(i) PROVE RemovingIsOver'
  <2>1. call[i] = "unused" /\ call' = [call EXCEPT ![i] = "inflight"] /\ UNCHANGED <<st, tid>>
    BY <1>5 DEF ReadUngreetedStream, FreeId, taskVars
  <2> QED BY <1>t, <1>w, <2>1 DEF RemovingIsOver, OwnIds, TaskIds, TypeOK
<1>6. ASSUME NEW i \in Ids, NEW t \in Tasks, NEW x \in {"body", "open"}, ReadStream(i, t, x)
      PROVE  RemovingIsOver'
  <2>1. /\ call[i] = "unused" /\ call' = [call EXCEPT ![i] = "inflight"]
        /\ st' = [st EXCEPT ![t] = x] /\ tid' = [tid EXCEPT ![t] = i] /\ st[t] = "none"
    BY <1>6 DEF ReadStream, FreeId
  <2> QED BY <1>t, <1>w, <2>1 DEF RemovingIsOver, OwnIds, TaskIds, TypeOK
<1> QED BY <1>2, <1>3, <1>4, <1>5, <1>6 DEF LoopStep

\* OverInv is inductive.
LEMMA OverStep ==
  ASSUME IdReuse = "never"
  PROVE  OverInv /\ [Next]_vars => OverInv'
<1> SUFFICES ASSUME OverInv, [Next]_vars PROVE Owed' /\ RemovingIsOver'
  BY ReachInvStep DEF OverInv
<1>t. TypeOK /\ TaskIds /\ RemovingIsOver
  BY DEF OverInv, ReachInv
<1>1. CASE LoopStep
  BY <1>1, OwedLoop, RemovingLoop
<1>2. CASE \E t \in Tasks : TaskStep(t)
  BY <1>2, OwedTask, TaskCalls
<1>3. CASE UnaryReply \/ WriterStep \/ ClientLeaves \/ UNCHANGED vars
  <2>1. UNCHANGED <<registry, spawning, outbox, st, tid, loop>>
    BY <1>3 DEF UnaryReply, WriterStep, WriterWrite, WriterFail, WriterDone, ClientLeaves, vars,
        taskVars, loopVars
  <2>2. NoStart
    <3>1. CASE UnaryReply
      <4>1. Frame("reply", 0) \in Frames /\ Send(Frame("reply", 0))
        BY <3>1, FrameType DEF UnaryReply, Kinds
      <4> QED BY <1>t, <4>1, SendNoStart
    <3>2. CASE WriterStep \/ ClientLeaves \/ UNCHANGED vars
      BY <3>2 DEF WriterStep, WriterWrite, WriterFail, WriterDone, ClientLeaves, vars, clientVars,
          NoStart
    <3> QED BY <1>3, <3>1, <3>2
  <2>3. writer' = "up" => writer = "up"
    BY <1>t, OneWay
  <2> QED BY <1>t, <2>1, <2>2, <2>3, OwedQuiet DEF RemovingIsOver, NoStart, TaskIds
<1> QED BY <1>1, <1>2, <1>3 DEF Next

\* For a client that never reuses an id, a Cancel that finds no registry entry is
\* about a call that has already been finished on the wire.
THEOREM UnregisteredMeansOverHolds ==
  ASSUME IdReuse = "never"
  PROVE  Spec => []UnregisteredMeansOver
<1>1. Init => OverInv
  BY ReachInit DEF Init, OverInv, Owed, RemovingIsOver
<1>2. OverInv => UnregisteredMeansOver
  BY DEF OverInv, Owed, UnregisteredMeansOver
<1> QED BY <1>1, <1>2, OverStep, PTL DEF Spec
=============================================================================

------------------------------ MODULE Listener ------------------------------
(***************************************************************************)
(* The filesystem socket of the daemon (daemon/src/ipc/listener.rs): bind  *)
(* with remove_stale_socket, and cleanup.  Several daemon processes share  *)
(* one path.  The path holds the socket of at most one process; a process  *)
(* that was killed leaves its socket behind.                               *)
(*                                                                         *)
(* Every system call is a step of its own: nothing locks the path between  *)
(* path.exists(), connect, remove_file, bind and the exit's remove_file.   *)
(***************************************************************************)
EXTENDS Naturals, FiniteSets

CONSTANTS
  Daemons,        \* daemon processes
  Nobody,         \* the path does not exist
  Overlap,        \* two daemons may be starting, or stopping, at the same time
  MaxStarts       \* bound: starts per daemon

VARIABLES
  path,           \* whose socket the path names: a process's last bind, or Nobody
  pc,             \* where each process is in bind
  starts          \* starts so far

vars == <<path, pc, starts>>

Starting == {"exists", "connect", "remove", "bind"}
Stopping == {"cleanup", "unlink"}
Listening(d) == pc[d] = "listening" \/ pc[d] \in Stopping

Init ==
  /\ path = Nobody
  /\ pc = [d \in Daemons |-> "down"]
  /\ starts = [d \in Daemons |-> 0]

\* Without Overlap one process at a time is between start and listening, or
\* between the loop's end and exit.
MayMove(d) == Overlap \/ \A e \in Daemons \ {d} : pc[e] \notin Starting \cup Stopping

Start(d) ==
  /\ pc[d] \in {"down", "refused"} /\ starts[d] < MaxStarts /\ MayMove(d)
  /\ pc' = [pc EXCEPT ![d] = "exists"]
  /\ starts' = [starts EXCEPT ![d] = @ + 1]
  /\ UNCHANGED path

\* remove_stale_socket: path.exists()
CheckExists(d) ==
  /\ pc[d] = "exists"
  /\ pc' = [pc EXCEPT ![d] = IF path = Nobody THEN "bind" ELSE "connect"]
  /\ UNCHANGED <<path, starts>>

\* Mutant: any existing socket is taken for stale.
ConnectNever(d) ==
  /\ pc[d] = "connect"
  /\ pc' = [pc EXCEPT ![d] = "remove"]
  /\ UNCHANGED <<path, starts>>

\* UnixStream::connect(path): bail if somebody listens, else the socket is stale.
ConnectProbe(d) ==
  /\ pc[d] = "connect"
  /\ pc' = [pc EXCEPT ![d] = IF path # Nobody /\ Listening(path) THEN "refused" ELSE "remove"]
  /\ UNCHANGED <<path, starts>>

\* Mutant: the stale socket is reported and left in place.
RemoveNothing(d) ==
  /\ pc[d] = "remove"
  /\ pc' = [pc EXCEPT ![d] = "bind"]
  /\ UNCHANGED <<path, starts>>

\* std::fs::remove_file: an error if the path is gone by now.
RemoveStale(d) ==
  /\ pc[d] = "remove"
  /\ path' = Nobody
  /\ pc' = [pc EXCEPT ![d] = IF path = Nobody THEN "refused" ELSE "bind"]
  /\ UNCHANGED starts

\* StdUnixListener::bind fails with EADDRINUSE if the path exists.
Bind(d) ==
  /\ pc[d] = "bind"
  /\ path' = IF path = Nobody THEN d ELSE path
  /\ pc' = [pc EXCEPT ![d] = IF path = Nobody THEN "listening" ELSE "refused"]
  /\ UNCHANGED starts

\* The accept loop ends.
LeaveLoop(d) ==
  /\ pc[d] = "listening" /\ MayMove(d)
  /\ pc' = [pc EXCEPT ![d] = "cleanup"]
  /\ UNCHANGED <<path, starts>>

\* cleanup: path.exists()
CleanupCheck(d) ==
  /\ pc[d] = "cleanup"
  /\ pc' = [pc EXCEPT ![d] = IF path = Nobody THEN "down" ELSE "unlink"]
  /\ UNCHANGED <<path, starts>>

\* cleanup: remove_file, whoever's socket it is; then the process exits.
CleanupUnlink(d) ==
  /\ pc[d] = "unlink"
  /\ path' = Nobody
  /\ pc' = [pc EXCEPT ![d] = "down"]
  /\ UNCHANGED starts

\* SIGKILL, or a crash: no cleanup.
Kill(d) ==
  /\ pc[d] \notin {"down", "refused"}
  /\ pc' = [pc EXCEPT ![d] = "down"]
  /\ UNCHANGED <<path, starts>>

Step(d) ==
  \/ CheckExists(d) \/ ConnectProbe(d) \/ RemoveStale(d) \/ Bind(d)
  \/ CleanupCheck(d) \/ CleanupUnlink(d)

Next == \E d \in Daemons : Start(d) \/ Step(d) \/ LeaveLoop(d) \/ Kill(d)

Spec == Init /\ [][Next]_vars

----------------------------------------------------------------------------
\* The places a process can be in; the path names a process or nothing.
TypeOK ==
  /\ path \in Daemons \cup {Nobody}
  /\ pc \in [Daemons -> {"down", "refused", "listening"} \cup Starting \cup Stopping]
  /\ starts \in [Daemons -> 0 .. MaxStarts]
=============================================================================

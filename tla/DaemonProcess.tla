--------------------------- MODULE DaemonProcess ----------------------------
(***************************************************************************)
(* The life of a daemon process, from bind to exit (daemon/src/main.rs,    *)
(* run): Listener's daemons share the path, and one of them, Self, runs    *)
(* Lifecycle's accept loop while it listens.  Clients reach Self through   *)
(* the path.  When the process goes, by itself or killed, the kernel       *)
(* resets what it was serving and what was queued, and a client may try    *)
(* again; a new start begins with a new loop.                              *)
(***************************************************************************)
EXTENDS Naturals, FiniteSets

CONSTANTS Clients, Peer, Policy, ExitWhenIdle, None,
          Daemons, Nobody, Overlap, MaxStarts,
          Self            \* the daemon whose loop is followed

ASSUME ProcessAssumption ==
  /\ IsFiniteSet(Clients) /\ ExitWhenIdle \in BOOLEAN
  /\ Self \in Daemons /\ Nobody \notin Daemons
  /\ Overlap \in BOOLEAN /\ MaxStarts \in Nat

VARIABLES loop, armed, live, permit, conn, reason, path, pc, starts

Loop == INSTANCE Lifecycle
Sock == INSTANCE Listener

loopVars == <<loop, armed, live, permit, conn, reason>>
sockVars == <<path, pc, starts>>
vars == <<loopVars, sockVars>>

Init ==
  /\ Sock!Init
  /\ loop = "exited" /\ reason = "none"
  /\ armed = FALSE /\ live = 0 /\ permit = FALSE
  /\ conn = [c \in Clients |-> "none"]

\* Another daemon's step, or a step of Self before it listens.
Elsewhere ==
  /\ \E d \in Daemons : 
       \/ Sock!Start(d) \/ Sock!CheckExists(d) \/ Sock!ConnectProbe(d) \/ Sock!RemoveStale(d)
       \/ d # Self /\ (Sock!Bind(d) \/ Sock!LeaveLoop(d) \/ Sock!CleanupCheck(d)
                        \/ Sock!CleanupUnlink(d) \/ Sock!Kill(d))
  /\ UNCHANGED loopVars

\* Self has bound the path, and enters the loop.
Enter ==
  /\ Sock!Bind(Self)
  /\ IF pc'[Self] = "listening"
     THEN /\ loop' = "arm" /\ reason' = "none"
          /\ armed' = FALSE /\ live' = 0 /\ permit' = FALSE
          /\ UNCHANGED conn
     ELSE UNCHANGED loopVars

Serve ==
  /\ pc[Self] = "listening"
  /\ \/ Loop!Arm \/ Loop!Notified
     \/ \E c \in Clients :
          \/ path = Self /\ Loop!Connect(c)
          \/ Loop!AcceptFails(c) \/ Loop!Refuse(c) \/ Loop!Accept(c) \/ Loop!SessionTask(c)
  /\ UNCHANGED sockVars

Leave == (Loop!IdleFires \/ Loop!CtrlC) /\ Sock!LeaveLoop(Self)

\* The process is gone once its cleanup is over, or at once if it is killed.
Reset ==
  /\ loop' = "exited" /\ live' = 0 /\ permit' = FALSE /\ armed' = FALSE
  /\ conn' = [c \in Clients |-> IF conn[c] \in {"refused", "ended"} THEN conn[c] ELSE "none"]

Exit ==
  /\ Sock!CleanupCheck(Self) \/ Sock!CleanupUnlink(Self)
  /\ IF pc'[Self] = "down" THEN Reset /\ UNCHANGED reason ELSE UNCHANGED loopVars

Killed == Sock!Kill(Self) /\ Reset /\ reason' = "killed"

Next == Elsewhere \/ Enter \/ Serve \/ Leave \/ Exit \/ Killed

\* Processes run, the loop and the session tasks run, and timers fire.  Nobody
\* has to start, stop or kill a daemon.
Fairness ==
  /\ \A d \in Daemons : WF_vars(Elsewhere /\ pc[d] \in Sock!Starting \cup Sock!Stopping /\ pc'[d] # pc[d])
  /\ WF_vars(Enter) /\ WF_vars(Exit) /\ WF_vars(Loop!IdleFires /\ Leave)
  /\ WF_vars(Loop!Arm /\ Serve) /\ WF_vars(Loop!Notified /\ Serve)
  /\ \A c \in Clients : WF_vars(Loop!SessionTask(c) /\ Serve)

Spec == Init /\ [][Next]_vars /\ Fairness

----------------------------------------------------------------------------
(* Properties.                                                             *)

\* The components' variables have their types; the loop runs only while Self
\* listens.
TypeOK == Loop!TypeOK /\ Sock!TypeOK /\ (loop # "exited" <=> pc[Self] = "listening")

\* live_sessions counts the session tasks that have not reached fetch_sub, also
\* after a restart.
LiveIsExact ==
  pc[Self] = "listening" => live = Cardinality(Loop!In("serving") \cup Loop!In("returned"))

\* The daemon never exits for idleness under a client it is serving, however the
\* loop's read of the counter interleaves with sessions that start and end.
NoExitWhileServing == reason = "idle" => Loop!In("serving") = {}

\* Once every connection attempt is over, a daemon with an idle timeout exits: no
\* wakeup is lost between the decrement and the loop's next pass.
IdleExit ==
  (ExitWhenIdle /\ \A c \in Clients : conn[c] \in {"none", "refused", "ended"})
    ~> (loop = "exited" \/ \E c \in Clients : conn[c] \in {"pending", "serving"})

\* remove_stale_socket: "Only remove it if nothing is actually listening, so two
\* daemons cannot silently steal the address from each other."  A daemon that is
\* serving owns the path clients connect to, until it unlinks it itself.
Reachable == \A d \in Daemons : pc[d] = "listening" => path = d

\* A socket left by a killed daemon does not keep the next one from starting: a
\* start fails only while another daemon is serving on the path.
RefusedByALiveDaemon ==
  [][\A d \in Daemons :
       (pc[d] # "refused" /\ pc'[d] = "refused")
         => \E e \in Daemons \ {d} : pc[e] = "listening"]_vars

----------------------------------------------------------------------------
(* Statements of the repository that the code does not keep.               *)

\* "No client has been connected for the whole timeout": none is queued on the
\* listener when the idle timer ends the loop.
IdleMeansAlone == [][reason' = "idle" /\ reason # "idle" => Loop!In("pending") = {}]_vars
=============================================================================

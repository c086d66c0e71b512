----------------------------- MODULE Lifecycle -----------------------------
(***************************************************************************)
(* How long the daemon lives (daemon/src/main.rs, run): the accept loop,   *)
(* the count of sessions being served, and the idle timer that is armed    *)
(* only while the count is zero.                                           *)
(*                                                                         *)
(* The loop and the session tasks run in parallel.  A session task ends in *)
(* two separate steps, the decrement and the notification, and the         *)
(* notification is a tokio Notify: one stored permit, however many         *)
(* sessions ended since the loop last looked.  Leaving the loop ends the   *)
(* process and every task in it.                                           *)
(***************************************************************************)
EXTENDS Naturals, FiniteSets

CONSTANTS
  Clients,        \* connection attempts
  Peer,           \* each one's uid and cmdline
  Policy,         \* allowed_uids and expect_package
  ExitWhenIdle,   \* --exit-when-idle was given
  None            \* no cmdline could be read; no package is expected

VARIABLES
  loop,           \* "arm" (top of the loop), "wait" (in select!), "exited"
  armed,          \* idle_timeout.is_some() for this pass
  live,           \* live_sessions
  permit,         \* session_ended holds a permit
  conn,           \* where each connection attempt is
  reason          \* why the loop, or the process, was left

vars == <<loop, armed, live, permit, conn, reason>>

ConnStates ==
  {"none", "pending", "refused", "serving", "returned", "uncounted", "ended"}

uid_allowed(uid) == uid = 0 \/ uid \in Policy.allowed_uids

\* A cmdline that cannot be read does not refuse a peer its uid lets in.
authorize(peer) ==
  /\ uid_allowed(peer.uid)
  /\ Policy.expect_package # None => peer.cmdline \in {None, Policy.expect_package}

In(s) == {c \in Clients : conn[c] = s}

Init ==
  /\ loop = "arm" /\ armed = FALSE
  /\ live = 0 /\ permit = FALSE
  /\ conn = [c \in Clients |-> "none"]
  /\ reason = "none"

\* A client calls connect(2); the kernel queues it on the listener.
Connect(c) ==
  /\ loop # "exited" /\ conn[c] = "none"
  /\ conn' = [conn EXCEPT ![c] = "pending"]
  /\ UNCHANGED <<loop, armed, live, permit, reason>>

\* Mutant: the timer is armed on every pass.
ArmAlways ==
  /\ loop = "arm"
  /\ armed' = ExitWhenIdle
  /\ loop' = "wait"
  /\ UNCHANGED <<live, permit, conn, reason>>

\* Top of the loop: the timer is armed for this pass only if nothing is live.
Arm ==
  /\ loop = "arm"
  /\ armed' = (ExitWhenIdle /\ live = 0)
  /\ loop' = "wait"
  /\ UNCHANGED <<live, permit, conn, reason>>

\* The sleep of this pass runs out.
IdleFires ==
  /\ loop = "wait" /\ armed
  /\ loop' = "exited" /\ reason' = "idle"
  /\ UNCHANGED <<armed, live, permit, conn>>

\* session_ended.notified() consumes the permit and starts a new pass.
Notified ==
  /\ loop = "wait" /\ permit
  /\ permit' = FALSE
  /\ loop' = "arm"
  /\ UNCHANGED <<armed, live, conn, reason>>

\* accept failed: continue, with the attempt still queued or lost.
AcceptFails(c) ==
  /\ loop = "wait" /\ conn[c] = "pending"
  /\ \E s \in {"pending", "refused"} : conn' = [conn EXCEPT ![c] = s]
  /\ loop' = "arm"
  /\ UNCHANGED <<armed, live, permit, reason>>

\* authorize refused the peer, or SO_PEERCRED failed: continue.
Refuse(c) ==
  /\ loop = "wait" /\ conn[c] = "pending"
  /\ conn' = [conn EXCEPT ![c] = "refused"]
  /\ loop' = "arm"
  /\ UNCHANGED <<armed, live, permit, reason>>

\* An authorized peer: counted first, then its session task is spawned.
Accept(c) ==
  /\ loop = "wait" /\ conn[c] = "pending" /\ authorize(Peer[c])
  /\ live' = live + 1
  /\ conn' = [conn EXCEPT ![c] = "serving"]
  /\ loop' = "arm"
  /\ UNCHANGED <<armed, permit, reason>>

\* session::serve returns, with or without an error.
ServeReturns(c) ==
  /\ loop # "exited" /\ conn[c] = "serving"
  /\ conn' = [conn EXCEPT ![c] = "returned"]
  /\ UNCHANGED <<loop, armed, live, permit, reason>>

\* live.fetch_sub
Uncount(c) ==
  /\ loop # "exited" /\ conn[c] = "returned"
  /\ live' = live - 1
  /\ conn' = [conn EXCEPT ![c] = "uncounted"]
  /\ UNCHANGED <<loop, armed, permit, reason>>

\* Mutant: the session task does not wake the loop.
NotifyNobody(c) ==
  /\ loop # "exited" /\ conn[c] = "uncounted"
  /\ conn' = [conn EXCEPT ![c] = "ended"]
  /\ UNCHANGED <<loop, armed, live, permit, reason>>

\* ended.notify_one
NotifyEnded(c) ==
  /\ loop # "exited" /\ conn[c] = "uncounted"
  /\ permit' = TRUE
  /\ conn' = [conn EXCEPT ![c] = "ended"]
  /\ UNCHANGED <<loop, armed, live, reason>>

CtrlC ==
  /\ loop = "wait"
  /\ loop' = "exited" /\ reason' = "signal"
  /\ UNCHANGED <<armed, live, permit, conn>>

SessionTask(c) == ServeReturns(c) \/ Uncount(c) \/ NotifyEnded(c)

Next ==
  \/ Arm \/ IdleFires \/ Notified \/ CtrlC
  \/ \E c \in Clients : 
       Connect(c) \/ AcceptFails(c) \/ Refuse(c) \/ Accept(c) \/ SessionTask(c)

Spec == Init /\ [][Next]_vars

----------------------------------------------------------------------------
\* The values the loop's variables take; live_sessions, an AtomicUsize, never
\* wraps below zero.
TypeOK ==
  /\ loop \in {"arm", "wait", "exited"}
  /\ armed \in BOOLEAN
  /\ live \in Nat
  /\ permit \in BOOLEAN
  /\ conn \in [Clients -> ConnStates]
  /\ reason \in {"none", "idle", "signal", "killed"}
=============================================================================

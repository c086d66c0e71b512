-------------------------- MODULE MCDaemonProcess ---------------------------
(* Three daemons on one path, and three clients of the first: root, the       *)
(* allowed app, and an app of another uid.                                  *)
EXTENDS DaemonProcess, TLC

CONSTANTS c1, c2, c3, d1, d2, d3

MCClients == {c1, c2, c3}
MCDaemons == {d1, d2, d3}
MCPeer == c1 :> [uid |-> 0, cmdline |-> None] @@ c2 :> [uid |-> 7, cmdline |-> "netdiag"]
          @@ c3 :> [uid |-> 8, cmdline |-> "other"]
MCPolicy == [allowed_uids |-> {7}, expect_package |-> "netdiag"]
=============================================================================

---------------------------- MODULE MCEventBus -----------------------------
(* Instances of EventBus for TLC. *)
EXTENDS EventBus, TLC

CONSTANTS n1, r1, p1

OneNetwork == {n1}
OneRoutes  == {r1}
OnePusher  == {p1}
=============================================================================

----------------------------- MODULE MCCapture -----------------------------
(* Instances of Capture for TLC. *)
EXTENDS Capture, TLC

\* Short and long packets.
TwoLengths == {1, 3}
=============================================================================

----------------------------- MODULE MCSession -----------------------------
(* Instances of Session for TLC. *)
EXTENDS Session, TLC

CONSTANTS t1, t2

TwoTasks   == {t1, t2}
TwoIds     == {1, 2}

\* Tasks are interchangeable: nothing orders or names them.
TaskSymmetry == Permutations(Tasks)
=============================================================================

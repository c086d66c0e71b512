--------------------------- MODULE MCWatchState ----------------------------
(* Instances of WatchState for TLC. *)
EXTENDS WatchState, TLC

CONSTANTS k1

A(f, l, n) == [fam |-> f, local |-> l, n |-> n]

\* Two global addresses per family; with and without a link-local one.
GlobalAddrs == {A("v4", FALSE, 1), A("v4", FALSE, 2), A("v6", FALSE, 1), A("v6", FALSE, 2)}
MixedAddrs  == {A("v6", FALSE, 1), A("v6", TRUE, 2)}
OneNeighbor == {k1}

\* An address the interface had before the daemon was started.
OnePresent  == {<<1, A("v6", FALSE, 1)>>}
=============================================================================

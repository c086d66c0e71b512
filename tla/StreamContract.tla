--------------------------- MODULE StreamContract ---------------------------
(***************************************************************************)
(* The call model of proto/netdiag/v1/service.proto for streaming calls,   *)
(* as a client sees it: a call is started, yields any number of items, and *)
(* is finished by exactly one stream_end or by an error, after which no    *)
(* frame carries its id until the id is used again.                        *)
(***************************************************************************)
EXTENDS Naturals

CONSTANT Ids

VARIABLES call, items, ends, errs

contractVars == <<call, items, ends, errs>>

Init ==
  /\ call = [i \in Ids |-> "unused"]
  /\ items = [i \in Ids |-> 0]
  /\ ends = [i \in Ids |-> 0]
  /\ errs = [i \in Ids |-> 0]

Start(i) ==
  /\ call[i] # "inflight"
  /\ call' = [call EXCEPT ![i] = "inflight"]
  /\ UNCHANGED <<items, ends, errs>>

Item(i) ==
  /\ call[i] = "inflight"
  /\ items' = [items EXCEPT ![i] = @ + 1]
  /\ UNCHANGED <<call, ends, errs>>

End(i) ==
  /\ call[i] = "inflight"
  /\ call' = [call EXCEPT ![i] = "complete"]
  /\ ends' = [ends EXCEPT ![i] = @ + 1]
  /\ UNCHANGED <<items, errs>>

Error(i) ==
  /\ call[i] = "inflight"
  /\ call' = [call EXCEPT ![i] = "complete"]
  /\ errs' = [errs EXCEPT ![i] = @ + 1]
  /\ UNCHANGED <<items, ends>>

Next == \E i \in Ids : Start(i) \/ Item(i) \/ End(i) \/ Error(i)

Spec == Init /\ [][Next]_contractVars
=============================================================================

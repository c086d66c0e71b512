--------------------------- MODULE MCSocketWatch -----------------------------
(* Two TCP sockets and a UDP socket of two apps, a limit of two rows.       *)
EXTENDS SocketWatch

MCKind == [id \in Ids |->
    CASE id = 1 -> [protocol |-> "tcp", family |-> "v4", uid |-> 10]
      [] id = 2 -> [protocol |-> "tcp", family |-> "v6", uid |-> 11]
      [] id = 3 -> [protocol |-> "udp", family |-> "v4", uid |-> 10]]

Everything == [protocols |-> <<>>, families |-> <<>>, states |-> {}, uids |-> {}]

MCFilters == {Everything, [Everything EXCEPT !.states = {"SynSent"}, !.families = <<"v4", "any">>],
              [Everything EXCEPT !.uids = {10}, !.protocols = <<"tcp", "udp">>]}
=============================================================================

----------------------------- MODULE WatchState -----------------------------
(***************************************************************************)
(* How the monitor turns kernel notifications into transitions             *)
(* (daemon/src/watch.rs, translate and StateCache): whether an interface   *)
(* has a global address of a family, its MTU, and whether a neighbour is   *)
(* usable.                                                                 *)
(*                                                                         *)
(* One step is one notification, handled whole: the kernel's state changes *)
(* and translate runs on the message.  told is what the timeline's events  *)
(* have said so far; it is compared with the kernel's own state.           *)
(***************************************************************************)
EXTENDS Naturals, FiniteSets

CONSTANTS
  Links,       \* interface indices
  Addrs,       \* addresses, as records [fam, local, n]: family, link-local or not, a number
  Mtus,        \* MTUs, positive
  Neighbors,   \* neighbours (interface and address)
  Present      \* addresses that were there before the daemon started

Families == {"v4", "v6"}

ASSUME WatchStateAssumption ==
  /\ \A a \in Addrs : a.fam \in Families /\ a.local \in BOOLEAN
  /\ Mtus \subseteq Nat \ {0}
  /\ Present \subseteq Links \X Addrs

Usable   == {"Reachable", "Stale", "Delay", "Probe", "Permanent", "Noarp"}
Unusable == {"Incomplete", "Failed", "None"}
NeighStates == Usable \cup Unusable
Usability(s) == IF s = "gone" THEN "gone" ELSE IF s \in Usable THEN "usable" ELSE "unusable"

VARIABLES
  up,          \* kernel: interfaces that exist
  addrs,       \* kernel: <<interface, address>> pairs
  mtu,         \* kernel: MTU of each interface
  neigh,       \* kernel: state of each neighbour, "gone" if there is no entry
  addresses,   \* StateCache: <<interface, family and number>>; the scope is not kept
  has_global,  \* StateCache: <<interface, family>> pairs, has_global_v4 and has_global_v6
  if_mtu,      \* StateCache: 0 if unknown
  neighbor_states, \* StateCache: "Unspecified" if there is no entry
  told         \* what the events said: families, the last MTU change, neighbours

kernelVars == <<up, addrs, mtu, neigh>>
cacheVars  == <<addresses, has_global, if_mtu, neighbor_states>>
vars == <<kernelVars, cacheVars, told>>

Text(a) == [fam |-> a.fam, n |-> a.n]

HasGlobal(i, f) == \E a \in Addrs : <<i, a>> \in addrs /\ a.fam = f /\ ~a.local

\* StateCache::default: nothing is dumped first.
Init ==
  /\ up = {p[1] : p \in Present}
  /\ addrs = Present
  /\ mtu \in [Links -> Mtus]
  /\ neigh = [k \in Neighbors |-> "gone"]
  /\ addresses = {} /\ has_global = {}
  /\ if_mtu = [i \in Links |-> 0]
  /\ neighbor_states = [k \in Neighbors |-> "Unspecified"]
  /\ told = [fams |-> {p \in Links \X Families : HasGlobal(p[1], p[2])},
             mtu |-> <<>>,
             neigh |-> [k \in Neighbors |-> "gone"]]

----------------------------------------------------------------------------
(* link_event.                                                             *)

\* mtu_changed and previous_mtu, set if the message has an MTU and another is known.
MtuChange(i, m) == IF m = 0 \/ if_mtu[i] \in {0, m} THEN <<>> ELSE <<i, if_mtu[i], m>>

\* RTM_NEWLINK: the interface appears, or its flags or MTU change.  m = 0 is a
\* message without an MTU, about an interface that exists.
NewLink(i, m) ==
  /\ m = 0 => i \in up
  /\ up' = up \cup {i}
  /\ mtu' = [mtu EXCEPT ![i] = IF m = 0 THEN @ ELSE m]
  /\ if_mtu' = [if_mtu EXCEPT ![i] = IF m = 0 THEN @ ELSE m]
  /\ told' = [told EXCEPT !.mtu = MtuChange(i, m)]
  /\ UNCHANGED <<addrs, neigh, addresses, has_global, neighbor_states>>

\* RTM_DELLINK.  The kernel has removed the addresses before.
DelLink(i) ==
  /\ i \in up /\ \A a \in Addrs : <<i, a>> \notin addrs
  /\ up' = up \ {i}
  /\ if_mtu' = [if_mtu EXCEPT ![i] = 0]
  /\ has_global' = {p \in has_global : p[1] # i}
  /\ addresses' = {p \in addresses : p[1] # i}
  /\ told' = [told EXCEPT !.fams = {p \in @ : p[1] # i}]
  /\ UNCHANGED <<addrs, mtu, neigh, neighbor_states>>

----------------------------------------------------------------------------
(* address_event.                                                          *)

\* gained and lost, from what the cache had and has.
Tell(had, has, p) ==
  told' = [told EXCEPT !.fams =
             IF ~had /\ has THEN @ \cup {p} ELSE IF had /\ ~has THEN @ \ {p} ELSE @]

\* RTM_NEWADDR: a new address, or new lifetimes for an old one.
NewAddress(i, a) ==
  /\ i \in up
  /\ addrs' = addrs \cup {<<i, a>>}
  /\ addresses' = addresses \cup {<<i, Text(a)>>}
  /\ LET p   == <<i, a.fam>>
         had == p \in has_global
     IN /\ has_global' = IF a.local THEN has_global ELSE has_global \cup {p}
        /\ Tell(had, IF a.local THEN had ELSE TRUE, p)
  /\ UNCHANGED <<up, mtu, neigh, if_mtu, neighbor_states>>

\* Mutant: the removed address is taken to be the only one.
DelAddressOnly(i, a) ==
  /\ <<i, a>> \in addrs
  /\ addrs' = addrs \ {<<i, a>>}
  /\ addresses' = addresses \ {<<i, Text(a)>>}
  /\ LET p   == <<i, a.fam>>
         had == p \in has_global
     IN /\ has_global' = IF a.local THEN has_global ELSE has_global \ {p}
        /\ Tell(had, a.local /\ had, p)
  /\ UNCHANGED <<up, mtu, neigh, if_mtu, neighbor_states>>

\* RTM_DELADDR.  any_left looks for an address of the family, of any scope.
DelAddress(i, a) ==
  /\ <<i, a>> \in addrs
  /\ addrs' = addrs \ {<<i, a>>}
  /\ addresses' = addresses \ {<<i, Text(a)>>}
  /\ LET p        == <<i, a.fam>>
         had      == p \in has_global
         any_left == \E q \in addresses' : q[1] = i /\ q[2].fam = a.fam
     IN /\ has_global' = IF a.local \/ any_left THEN has_global ELSE has_global \ {p}
        /\ Tell(had, IF a.local THEN had ELSE any_left, p)
  /\ UNCHANGED <<up, mtu, neigh, if_mtu, neighbor_states>>

----------------------------------------------------------------------------
(* neighbor_event.                                                         *)

\* Mutant: the state is remembered only when it is reported.
NewNeighbourForgets(k, s) ==
  /\ neigh' = [neigh EXCEPT ![k] = s]
  /\ LET previous == neighbor_states[k]
         silent   == (previous \in Usable) = (s \in Usable)
     IN /\ neighbor_states' = [neighbor_states EXCEPT ![k] = IF silent THEN @ ELSE s]
        /\ told' = [told EXCEPT !.neigh[k] = IF silent THEN @ ELSE Usability(s)]
  /\ UNCHANGED <<up, addrs, mtu, addresses, has_global, if_mtu>>

\* RTM_NEWNEIGH: reported if usability changes or nothing was known.
NewNeighbour(k, s) ==
  /\ neigh' = [neigh EXCEPT ![k] = s]
  /\ neighbor_states' = [neighbor_states EXCEPT ![k] = s]
  /\ LET previous == neighbor_states[k]
         silent   == (previous \in Usable) = (s \in Usable) /\ previous # "Unspecified"
     IN told' = [told EXCEPT !.neigh[k] = IF silent THEN @ ELSE Usability(s)]
  /\ UNCHANGED <<up, addrs, mtu, addresses, has_global, if_mtu>>

\* RTM_DELNEIGH.
DelNeighbour(k) ==
  /\ neigh[k] # "gone"
  /\ neigh' = [neigh EXCEPT ![k] = "gone"]
  /\ neighbor_states' = [neighbor_states EXCEPT ![k] = "Unspecified"]
  /\ told' = [told EXCEPT !.neigh[k] = "gone"]
  /\ UNCHANGED <<up, addrs, mtu, addresses, has_global, if_mtu>>

Next ==
  \/ \E i \in Links : DelLink(i)
  \/ \E i \in Links, m \in Mtus \cup {0} : NewLink(i, m)
  \/ \E i \in Links, a \in Addrs : NewAddress(i, a) \/ DelAddress(i, a)
  \/ \E k \in Neighbors, s \in NeighStates : NewNeighbour(k, s)
  \/ \E k \in Neighbors : DelNeighbour(k)

Spec == Init /\ [][Next]_vars

----------------------------------------------------------------------------
\* The cache holds what its fields are declared for; an interface that is gone
\* leaves nothing in it.
TypeOK ==
  /\ addresses \subseteq Links \X {Text(a) : a \in Addrs}
  /\ has_global \subseteq Links \X Families
  /\ neighbor_states \in [Neighbors -> NeighStates \cup {"Unspecified"}]
  /\ \A i \in Links \ up :
       /\ if_mtu[i] = 0
       /\ \A p \in addresses : p[1] # i
       /\ \A p \in has_global : p[1] # i

\* Whoever follows the gained and lost events knows at all times which families
\* each interface has a global address of: lost comes with the removal of the
\* last one, exactly once, and no sooner.
FamiliesTold == told.fams = {p \in Links \X Families : HasGlobal(p[1], p[2])}

\* Whoever follows the neighbour events knows which neighbours are usable, though
\* most changes of state are not reported.
NeighboursTold == told.neigh = [k \in Neighbors |-> Usability(neigh[k])]

=============================================================================

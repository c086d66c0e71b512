----------------------------- MODULE Inspection ------------------------------
(***************************************************************************)
(* The two answers the daemon gives about an app: a diagnosis run for its  *)
(* uid, and then GetAppNetworkState for the same uid                       *)
(* (daemon/src/daemon.rs, get_app_network_state).  They read the kernel    *)
(* separately and interpret it with separate code.                         *)
(***************************************************************************)
EXTENDS Diagnosis, Correlate

VARIABLE app     \* the answer about the app, or None

-----------------------------------------------------------------------------
InspectionInit == Init /\ app = None

\* The interfaces are dumped first; everything else is read after them.  An app
\* without a uid is refused.
get_app_network_state ==
    /\ rq.app_query # "none" /\ app = None /\ phase = "done"
    /\ rq.uid # 0
    /\ \E map \in UidOwnerMaps :
          app' = app_network_state(rq.uid, rq.android, rq.app_query = "without lookups",
                                   kernel[1].ifaces, kernel[2], map)
    /\ UNCHANGED vars

InspectionNext == (Next /\ UNCHANGED app) \/ get_app_network_state

InspectionSpec ==
    /\ InspectionInit /\ [][InspectionNext]_<<vars, app>>
    /\ WF_vars(Engine /\ UNCHANGED app)
    /\ WF_vars(Forward /\ UNCHANGED app) /\ WF_vars(ForwarderEnds /\ UNCHANGED app)

-----------------------------------------------------------------------------
(* Properties.                                                             *)

\* The rule that decides where the kernel sends the app's traffic is among the
\* rules the answer lists as matching, inverted ranges included, whenever it is
\* one that says something about the app.
MatchingRulesExplain ==
    app # None =>
        \A f \in Families :
            LET r == Deciding(kernel[2], rq.uid, 0, f)
            IN r # None /\ (r.has_uid_range \/ r.has_fwmark) => r \in app.matching_rules


\* The diagnosis and the answer about the app agree on whether its traffic
\* enters the VPN, when the diagnosis is made for its uid and pinned to no
\* network: check_vpn and assess_vpn are two readings of the same lookups.
VpnVerdictsAgree ==
    /\ app # None /\ rq.app_query = "full" /\ st # None
    /\ rq.has_as_uid /\ resolve_net_id(rq) = 0
    => /\ (StatusOf("vpn.routing") = "skip") = ~app.vpn.vpn_present
       /\ app.vpn.vpn_present =>
             evidence(CheckIndex(checks), "vpn.routing", "egress_is_vpn") = Bool(app.vpn.app_uses_vpn)

-----------------------------------------------------------------------------
(* Statements of the repository that the code does not keep.               *)

\* The same as ExclusionIsReal, inverted ranges included.
ExclusionIsRealInverted ==
    app # None /\ app.vpn.bypass.why = "outside the VPN's ranges" =>
        ~\E r \in kernel[2].rules :
            /\ r.has_uid_range /\ Selects(r, rq.uid, 0)
            /\ r.table \in vpn_tables(kernel[1].ifaces, kernel[2].routes)

\* correlate.rs: "A non-inverted rule naming this uid and pointing somewhere
\* other than the VPN's table also constitutes a bypass."
BypassLeavesTheVpn ==
    app # None /\ app.vpn.bypass.why = "a rule sends it elsewhere" =>
        app.vpn.bypass.rule.table \notin vpn_tables(kernel[1].ifaces, kernel[2].routes)

\* diag.proto, app_bypasses_vpn (which the code sets to the negation of
\* app_uses_vpn): "True when a uid rule explicitly excludes this app from the
\* VPN".
BypassIsExplicit ==
    app # None /\ app.vpn.vpn_present /\ ~app.vpn.app_uses_vpn =>
        app.vpn.bypass.why # "the lookup"

\* A reason for not being in the VPN is given only of an app that is not.
ReasonMeansOutside ==
    app # None /\ app.vpn.bypass.why # "" => ~app.vpn.app_uses_vpn
=============================================================================

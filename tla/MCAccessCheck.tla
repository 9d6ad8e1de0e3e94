---------------------------- MODULE MCAccessCheck ----------------------------
(* Two small components checked in one run: the verdict of checkACL, and the   *)
(* client of a VPN under an app that waits for it. A behaviour is one of       *)
(* AccessCheck or VpnClient; the variables of the other stay as they are       *)
(* initially.                                                                  *)
EXTENDS AccessCheck

CONSTANTS Calls, MaxVpnOps  \* VpnClient

VARIABLES component, \* the one that moves
          redis, memory, oper, aliased, exec, vpn_call, listener, service, link, started,
          listening, refresh, enforced, wanted, vpn_ops, breaks, failures

Vpn == INSTANCE VpnClient WITH
    call <- vpn_call, writer <- listener, kernel <- enforced, ops <- vpn_ops,
    Strict <- TRUE, MaxOps <- MaxVpnOps, MaxBreaks <- 1, MaxFailures <- 1

vpnVars == <<redis, memory, oper, aliased, exec, vpn_call, listener, service, link, started,
             listening, refresh, enforced, wanted, vpn_ops, breaks, failures>>
allVars == <<component, vars, vpnVars>>

\* The rule the app may create is of a group.
SomeRules == {[level |-> "sub", does |-> "block", hi |-> FALSE, group |-> g] : g \in Groups}

\* Where the rules do not move there are none.
VerdictInit == /\ component \in {"rules", "vpn"} /\ Vpn!Init
               /\ IF component = "rules" THEN Init
                  ELSE /\ saved = {} /\ kernel = {} /\ ended = {} /\ timer = {} /\ ever = {}
                       /\ events = <<>> /\ cache = <<>> /\ writer = Nothing /\ call = NoCall
                       /\ ops = 0

InVpn == component = "vpn" /\ UNCHANGED <<component, vars>>
RulesNext == component = "rules" /\ Next /\ UNCHANGED <<component, vpnVars>>
VpnNext == InVpn /\ Vpn!Next
VerdictNext == RulesNext \/ VpnNext

\* The fairness of VpnClient.
VpnFair ==
    /\ WF_allVars(InVpn /\ Vpn!ExecPolicy) /\ WF_allVars(InVpn /\ Vpn!LinkUp)
    /\ WF_allVars(InVpn /\ Vpn!Refresh) /\ WF_allVars(InVpn /\ Vpn!CheckConnectivity)
    /\ \A c \in Calls : WF_allVars(InVpn /\ Vpn!Work(c))
    /\ \A l \in Vpn!Listeners : WF_allVars(InVpn /\ Vpn!Listen(l))
VerdictSpec == VerdictInit /\ [][VerdictNext]_allVars /\ VpnFair
-----------------------------------------------------------------------------
(* VpnClient: while the app wants the client, a lost link is made again.      *)
Reconnects == Vpn!Reconnects
=============================================================================

---------------------------- MODULE MCDisableAll -----------------------------
(* Two policies of the system that PolicyManager.execute starts and does not   *)
(* wait for, checked in one run: the pause of all policies and the client of a *)
(* VPN. A behaviour is one of DisableAll or VpnClient; the variables of the    *)
(* other stay as they are initially.                                           *)
EXTENDS DisableAll, TLC

CONSTANTS Calls, Strict, MaxVpnOps, MaxBreaks, MaxFailures  \* VpnClient

ASSUME StrictAssumption == Strict \in BOOLEAN

VARIABLES component, \* the one that moves
          stored, memory, oper, aliased, exec, call, writer, service, link, started, listening,
          refresh, enforced, wanted, vpn_ops, breaks, failures

Vpn == INSTANCE VpnClient WITH
    redis <- stored, kernel <- enforced, ops <- vpn_ops, Patient <- TRUE, MaxOps <- MaxVpnOps

vpnVars == <<stored, memory, oper, aliased, exec, call, writer, service, link, started, listening,
             refresh, enforced, wanted, vpn_ops, breaks, failures>>
allVars == <<component, vars, vpnVars>>

\* The part that does not move has one initial state.
PoliciesInit == /\ component \in {"pause", "vpn"}
                /\ Init /\ Vpn!Init
                /\ component = "vpn" => enabled = [r \in Rules |-> TRUE]

PoliciesNext == \/ component = "pause" /\ Next /\ UNCHANGED <<component, vpnVars>>
                \/ component = "vpn" /\ Vpn!Next /\ UNCHANGED <<component, vars>>

PoliciesSpec == PoliciesInit /\ [][PoliciesNext]_allVars

\* Tasks, timeouts and calls are interchangeable.
Symmetry == Permutations(Tasks) \cup Permutations(Timers) \cup Permutations(Calls)
-----------------------------------------------------------------------------
(* VpnClient: a strict VPN drops what goes past the tunnel exactly while the  *)
(* client is wanted.                                                          *)
StrictFollowsState == Vpn!StrictFollowsState
=============================================================================

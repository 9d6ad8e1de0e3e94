------------------------------ MODULE MCDevices -------------------------------
(* Discovery, which writes the records of devices, and the hosts in memory,    *)
(* which follow those records, checked in one run. A behaviour is one of       *)
(* DeviceHook or HostManager; the variables of the other stay as they are      *)
(* initially. The hosts are two devices with one call of getHosts at a time,   *)
(* or one device with calls that overlap.                                      *)
EXTENDS HostManager, TLC

CONSTANTS m1, m2, i1, i2, Handlers, MaxChanges,
          MaxEvents  \* bound: moves, deletions and rejected commands together of one device
                     \* alone; of two devices there is one of these

ASSUME ChangesAssumption == MaxChanges \in Nat

VARIABLES component, \* the one that moves: "hook", "hosts", or "host" with m1 alone
          hook_at, macs, ip4, pc, event, hook_deleting, changes

Hook == INSTANCE DeviceHook WITH at <- hook_at, deleting <- hook_deleting, Absent <- "absent"

hookVars == <<hook_at, macs, ip4, pc, event, hook_deleting, changes>>
allVars == <<component, vars, hookVars>>

\* Devices and addresses are interchangeable: the other places a device may begin
\* at are these with other names.
Places == {(m1 :> i1) @@ (m2 :> i2), (m1 :> i1) @@ (m2 :> None), (m1 :> None) @@ (m2 :> None)}

\* The part that does not move has one initial state.
DevicesInit ==
    /\ component \in {"hosts", "host", "hook"}
    /\ Init /\ Hook!Init
    /\ component # "hook" => hook_at = (m1 :> None) @@ (m2 :> None)
    /\ component = "host" => at[m2] = None
    /\ component = "hook" => at = (m1 :> None) @@ (m2 :> None)

InHosts == component # "hook" /\ UNCHANGED <<component, hookVars>>
InHook == component = "hook" /\ UNCHANGED <<component, vars>>

OneMore == moves + deletes + failures < IF component = "host" THEN MaxEvents ELSE 1
HostsMove(m) == InHosts /\ OneMore /\ (component = "hosts" \/ m # m2) /\ Move(m)
HostsFade(m) == InHosts /\ Fade(m)
HostsSight(m) == InHosts /\ Sight(m)
HostsGetHost(m) == InHosts /\ GetHost(m)
HostsSubscribe(h) == InHosts /\ Subscribe(h)
HostsSubscribeFails(h) == InHosts /\ OneMore /\ SubscribeFails(h)
OneCall == CHOOSE s \in Sweeps : TRUE
HostsSweepStart(s) == InHosts /\ (component = "host" \/ s = OneCall) /\ SweepStart(s)
HostsSweepRead(s) == InHosts /\ SweepRead(s)
HostsSweepHost(s, m) == InHosts /\ SweepHost(s, m)
HostsSweepEnd(s) == InHosts /\ SweepEnd(s)
HostsDelete(m) == InHosts /\ OneMore /\ Delete(m)
HostsDeleteKeys(m) == InHosts /\ DeleteKeys(m)
HostsDeleteFails(m) == InHosts /\ OneMore /\ DeleteFails(m)
HostsDeleteInstance(m) == InHosts /\ DeleteInstance(m)
HookNext == InHook /\ Hook!Next

DevicesNext ==
    \/ \E m \in Devices : \/ HostsMove(m) \/ HostsFade(m) \/ HostsSight(m) \/ HostsGetHost(m)
                          \/ HostsDelete(m) \/ HostsDeleteKeys(m) \/ HostsDeleteFails(m)
                          \/ HostsDeleteInstance(m)
    \/ \E h \in Objects : HostsSubscribe(h) \/ HostsSubscribeFails(h)
    \/ \E s \in Sweeps : HostsSweepStart(s) \/ HostsSweepRead(s) \/ HostsSweepEnd(s)
    \/ \E s \in Sweeps, m \in Devices : HostsSweepHost(s, m)
    \/ HookNext

\* The fairness of the two modules. A conjunct here stands for one of each: in
\* a behaviour only one of its disjuncts is ever enabled.
DevicesFair ==
    /\ \A m \in Devices :
         /\ SF_allVars(\/ InHosts /\ Sight(m)
                       \/ InHook /\ \E h \in Handlers : Hook!See(h, m))
         /\ WF_allVars(\/ InHosts /\ DeleteStep(m)
                       \/ InHook /\ (Hook!DeleteIPv4(m) \/ Hook!DeleteMac(m)))
         /\ WF_allVars(InHosts /\ GetHost(m))
    /\ WF_allVars(InHosts /\ \E h \in Objects : Subscribe(h) \/ SubscribeFails(h))
    /\ WF_allVars(InHosts /\ \E s \in Sweeps : HostsSweepStart(s))
    /\ \A x \in Sweeps : WF_allVars((InHosts /\ SweepStep(x)) \/ (InHook /\ Hook!Handle(x)))
DevicesSpec == DevicesInit /\ [][DevicesNext]_allVars /\ DevicesFair
-----------------------------------------------------------------------------
(* The variables of both modules have their types.                            *)
TypesOK == TypeOK /\ Hook!TypeOK

(* DeviceHook: once the devices stay where they are, their records agree with *)
(* it, whatever late handlers, takeovers, deletions and restarts left behind. *)
RecordsSettle == Hook!RecordsSettle
=============================================================================

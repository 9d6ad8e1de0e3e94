------------------------------ MODULE DeviceHook -------------------------------
(* Discovery (hook/DeviceHook.js, net2/HostTool.js): a sighting is a mac with  *)
(* the address it was seen at; its handler compares it with the host:mac and   *)
(* host:ip4 records of redis and writes both, one command at a time, while     *)
(* handlers of other sightings, and the deletion of a host, do the same.       *)
(* Names, ip6, alarms and spoofing are abstracted; a record is the address of  *)
(* a mac, or the mac of an address.                                            *)
EXTENDS Naturals

CONSTANTS
  Devices,     \* mac addresses
  Addrs,       \* ip4 addresses
  None,        \* no address in the record, no record of an address, away
  Absent,      \* no record of a mac
  Starts,      \* where the devices may be to begin with
  Handlers,    \* sightings that are handled at one time
  MaxChanges   \* bound: moves of a device, host:delete of the app and restarts of FireMain

VARIABLES
  at,          \* where each device is
  macs,        \* redis host:mac:*: device -> address
  ip4,         \* redis host:ip4:*: address -> device
  pc,          \* handler -> its next command
  event,       \* handler -> its sighting: mac, ip, the event emitted, oldMac
  deleting,    \* device -> next command of its deletion
  changes

vars == <<at, macs, ip4, pc, event, deleting, changes>>

NoEvent == [mac |-> None, ip |-> None, type |-> "none", oldMac |-> None]

TypeOK ==
  /\ at \in [Devices -> Addrs \cup {None}]
  /\ macs \in [Devices -> Addrs \cup {None, Absent}]
  /\ ip4 \in [Addrs -> Devices \cup {None}]
  /\ pc \in [Handlers -> {"idle", "exists", "entry", "load", "hget", "del", "hmset", "vendor", "mac",
                          "dup", "hdel"}]
  /\ event \in [Handlers -> [mac : Devices \cup {None}, ip : Addrs \cup {None},
                             type : {"none", "new", "moved", "taken", "regular"},
                             oldMac : Devices \cup {None}]]
  /\ deleting \in [Devices -> {"no", "ip", "mac"}]
  /\ changes \in 0 .. MaxChanges

Init ==
  /\ at \in Starts
  /\ macs = [m \in Devices |-> Absent]
  /\ ip4 = [i \in Addrs |-> None]
  /\ pc = [h \in Handlers |-> "idle"]
  /\ event = [h \in Handlers |-> NoEvent]
  /\ deleting = [m \in Devices |-> "no"]
  /\ changes = 0

Change ==
  /\ changes < MaxChanges
  /\ changes' = changes + 1

Free(i) == i = None \/ \A m \in Devices : at[m] # i

(* The device takes another address, leaves, or comes back. *)
Move(m) ==
  /\ Change
  /\ \E i \in (Addrs \cup {None}) \ {at[m]} : Free(i) /\ at' = [at EXCEPT ![m] = i]
  /\ UNCHANGED <<macs, ip4, pc, event, deleting>>

Goto(h, step) == pc' = [pc EXCEPT ![h] = step]

Done(h) ==
  /\ Goto(h, "idle")
  /\ event' = [event EXCEPT ![h] = NoEvent]

Emit(h, type, old, step) ==
  /\ event' = [event EXCEPT ![h].type = type, ![h].oldMac = old]
  /\ Goto(h, step)

----------------------------------------------------------------------------
(* processDeviceUpdate                                                         *)

(* DeviceUpdate of a sensor: nmap, dhcp, bonjour. *)
See(h, m) ==
  /\ pc[h] = "idle"
  /\ at[m] # None
  /\ event' = [event EXCEPT ![h] = [NoEvent EXCEPT !.mac = m, !.ip = at[m]]]
  /\ Goto(h, "exists")
  /\ UNCHANGED <<at, macs, ip4, deleting, changes>>

MacExists(h) ==
  /\ pc[h] = "exists"
  /\ IF macs[event[h].mac] = Absent
     THEN Emit(h, "new", None, "hget")
     ELSE Goto(h, "entry") /\ UNCHANGED event
  /\ UNCHANGED <<at, macs, ip4, deleting, changes>>

GetIPv4Entry(h) ==
  /\ pc[h] = "entry"
  /\ LET owner == ip4[event[h].ip]
     IN \/ owner = event[h].mac /\ Emit(h, "regular", None, "load")
        \/ owner = None /\ Emit(h, "moved", None, "load")
        \/ owner \notin {None, event[h].mac} /\ Emit(h, "taken", owner, "load")
  /\ UNCHANGED <<at, macs, ip4, deleting, changes>>

----------------------------------------------------------------------------
(* The handlers of the events.                                                 *)

(* getMACEntry: a record that is gone by now ends the handler with an error. *)
Load(h) ==
  /\ pc[h] = "load"
  /\ IF macs[event[h].mac] = Absent
     THEN Done(h)
     ELSE Goto(h, "hget") /\ UNCHANGED event
  /\ UNCHANGED <<at, macs, ip4, deleting, changes>>

(* updateIPv4Host: hget, del when the address was another's, hmset. *)
HgetMac(h) ==
  /\ pc[h] = "hget"
  /\ Goto(h, IF ip4[event[h].ip] = event[h].mac THEN "hmset" ELSE "del")
  /\ UNCHANGED <<at, macs, ip4, event, deleting, changes>>

DelIPv4(h) ==
  /\ pc[h] = "del"
  /\ ip4' = [ip4 EXCEPT ![event[h].ip] = None]
  /\ Goto(h, "hmset")
  /\ UNCHANGED <<at, macs, event, deleting, changes>>

UpdateIPv4(h) ==
  /\ pc[h] = "hmset"
  /\ ip4' = [ip4 EXCEPT ![event[h].ip] = event[h].mac]
  /\ Goto(h, IF event[h].type = "new" THEN "vendor" ELSE "mac")
  /\ UNCHANGED <<at, macs, event, deleting, changes>>

(* NewDeviceFound asks the cloud for the vendor before it writes the mac. *)
GetVendor(h) ==
  /\ pc[h] = "vendor"
  /\ Goto(h, "mac")
  /\ UNCHANGED <<at, macs, ip4, event, deleting, changes>>

UpdateMACKey_changesOnly(h) ==
  /\ pc[h] = "mac"
  /\ macs' = IF event[h].type = "regular" THEN macs
             ELSE [macs EXCEPT ![event[h].mac] = event[h].ip]
  /\ IF event[h].type = "taken" THEN Goto(h, "dup") /\ UNCHANGED event ELSE Done(h)
  /\ UNCHANGED <<at, ip4, deleting, changes>>

UpdateMACKey(h) ==
  /\ pc[h] = "mac"
  /\ macs' = [macs EXCEPT ![event[h].mac] = event[h].ip]
  /\ IF event[h].type = "taken" THEN Goto(h, "dup") /\ UNCHANGED event ELSE Done(h)
  /\ UNCHANGED <<at, ip4, deleting, changes>>

(* removeDupIPv4FromMacEntry: the record of the old owner is read ... *)
ReadOldOwner(h) ==
  /\ pc[h] = "dup"
  /\ IF macs[event[h].oldMac] = event[h].ip
     THEN Goto(h, "hdel") /\ UNCHANGED event
     ELSE Done(h)
  /\ UNCHANGED <<at, macs, ip4, deleting, changes>>

(* ... and loses its address, whatever it is by now. *)
RemoveDupIPv4(h) ==
  /\ pc[h] = "hdel"
  /\ macs' = [macs EXCEPT ![event[h].oldMac] = IF @ = Absent THEN Absent ELSE None]
  /\ Done(h)
  /\ UNCHANGED <<at, ip4, deleting, changes>>

----------------------------------------------------------------------------
(* host:delete: Host drops the record of the address, then the one of the mac. *)

Delete(m) ==
  /\ Change
  /\ macs[m] # Absent
  /\ deleting[m] = "no"
  /\ deleting' = [deleting EXCEPT ![m] = "ip"]
  /\ UNCHANGED <<at, macs, ip4, pc, event>>

DeleteIPv4(m) ==
  /\ deleting[m] = "ip"
  /\ ip4' = [i \in Addrs |-> IF i = macs[m] THEN None ELSE ip4[i]]
  /\ deleting' = [deleting EXCEPT ![m] = "mac"]
  /\ UNCHANGED <<at, macs, pc, event, changes>>

DeleteMac(m) ==
  /\ deleting[m] = "mac"
  /\ macs' = [macs EXCEPT ![m] = Absent]
  /\ deleting' = [deleting EXCEPT ![m] = "no"]
  /\ UNCHANGED <<at, ip4, pc, event, changes>>

Crash ==
  /\ Change
  /\ pc' = [h \in Handlers |-> "idle"]
  /\ event' = [h \in Handlers |-> NoEvent]
  /\ deleting' = [m \in Devices |-> "no"]
  /\ UNCHANGED <<at, macs, ip4>>

----------------------------------------------------------------------------
Handle(h) ==
  \/ MacExists(h)
  \/ GetIPv4Entry(h)
  \/ Load(h)
  \/ HgetMac(h)
  \/ DelIPv4(h)
  \/ UpdateIPv4(h)
  \/ GetVendor(h)
  \/ UpdateMACKey(h)
  \/ ReadOldOwner(h)
  \/ RemoveDupIPv4(h)

Next ==
  \/ \E h \in Handlers, m \in Devices : See(h, m)
  \/ \E h \in Handlers : Handle(h)
  \/ \E m \in Devices : Move(m) \/ Delete(m) \/ DeleteIPv4(m) \/ DeleteMac(m)
  \/ Crash

(* A handler goes on, and a device that is there is seen again and again: nmap *)
(* scans the network every few minutes.                                        *)
Fairness ==
  /\ \A m \in Devices : SF_vars(\E h \in Handlers : See(h, m))
  /\ \A h \in Handlers : WF_vars(Handle(h))
  /\ \A m \in Devices : WF_vars(DeleteIPv4(m) \/ DeleteMac(m))

Spec == Init /\ [][Next]_vars /\ Fairness

----------------------------------------------------------------------------
(* A handler of the device removed the record of its address to write it anew. *)
Rewriting(m) == \E h \in Handlers : pc[h] = "hmset" /\ event[h].mac = m /\ event[h].ip = at[m]

(* Once devices stay where they are, their two records agree with it for good, *)
(* whatever late handlers, a takeover of an address that read the record of    *)
(* its old owner too early, a deletion or a restart left behind.               *)
RecordsSettle ==
  \A m \in Devices :
    <>[](at[m] # None => macs[m] = at[m] /\ (ip4[at[m]] = m \/ Rewriting(m)))
================================================================================

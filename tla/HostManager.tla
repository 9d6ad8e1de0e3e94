------------------------------ MODULE HostManager ------------------------------
(* The devices FireMain keeps in memory (net2/HostManager.js, net2/Host.js):   *)
(* hostsdb and hosts.all, swept against the host:mac:* records of redis by     *)
(* getHosts, filled by getHost when a device was seen, and emptied by          *)
(* Device:Delete.  A Host object is <<device, n>>: the n-th one made for it.   *)
(* A record is the address it names; a record no sweep looks at (deleted, or   *)
(* not active for a week) is None.  Which of two records is the younger, ip6,  *)
(* the policies of a host and the writes of discovery (DeviceHook) are         *)
(* abstracted.                                                                 *)
EXTENDS Naturals, FiniteSets

CONSTANTS
  Devices,     \* mac addresses
  Addrs,       \* ip4 addresses
  None,        \* no address, no object
  Starts,      \* where the devices may be to begin with
  Sweeps,      \* calls of getHosts that may overlap
  MaxMoves,    \* bound: times a device changes its address, leaves or comes back
  MaxDeletes,  \* bound: host:delete of the app
  MaxFailures  \* bound: commands (ipset, redis) of a host that are rejected

ASSUME HostAssumption ==
  /\ Starts \subseteq [Devices -> Addrs \cup {None}]
  /\ {MaxMoves, MaxDeletes, MaxFailures} \subseteq Nat

VARIABLES
  at,          \* where each device is, None when it is away
  known,       \* redis host:mac:*: device -> address
  seen,        \* getHost of a sighting: the host:mac object it found before it waits, <<>> when none runs
  byMac,       \* hostsdb["host:mac:.."]: device -> n, 0 for none
  byIp,        \* hostsdb["host:ip4:.."]: address -> object
  all,         \* hosts.all
  instances,   \* Host.js instances: device -> n, 0 for none
  made,        \* how many objects were made for a device
  addrOf,      \* o.ipv4Addr of an object
  marked,      \* objects with _mark
  booting,     \* objects whose ipsets are being made
  listener,    \* the object subscribed to Device:Updated and Device:Delete of a device
  sweep,       \* call -> "idle", "keys", "each"
  todo,        \* call -> the replies still to process
  deleting,    \* device -> step of the Device:Delete handler of its Host
  orphaned,    \* devices that have met what costs their object its subscription: a rejected
               \* command, or a sweep that lists it while it is being deleted (history)
  moves, deletes, failures

db == <<byMac, byIp, all>>
hosts == <<instances, made, addrOf, booting, listener>>
deletion == <<deleting, orphaned, deletes, failures>>
vars == <<at, known, seen, db, hosts, marked, sweep, todo, moves, deletion>>

Gens == 1 .. MaxDeletes + 1
Objects == Devices \X Gens
NoReplies == [m \in Devices |-> None]

TypeOK ==
  /\ at \in [Devices -> Addrs \cup {None}]
  /\ known \in [Devices -> Addrs \cup {None}]
  /\ seen \in [Devices -> {<<>>} \cup {<<n>> : n \in {0} \cup Gens}]
  /\ byMac \in [Devices -> {0} \cup Gens]
  /\ byIp \in [Addrs -> Objects \cup {None}]
  /\ all \subseteq Objects
  /\ instances \in [Devices -> {0} \cup Gens]
  /\ made \in [Devices -> {0} \cup Gens]
  /\ addrOf \in [Objects -> Addrs \cup {None}]
  /\ marked \subseteq Objects
  /\ booting \subseteq Objects
  /\ listener \in [Devices -> {0} \cup Gens]
  /\ sweep \in [Sweeps -> {"idle", "keys", "each"}]
  /\ todo \in [Sweeps -> [Devices -> Addrs \cup {None}]]
  /\ deleting \in [Devices -> {"no", "flush", "instance"}]
  /\ moves \in 0 .. MaxMoves
  /\ deletes \in 0 .. MaxDeletes
  /\ orphaned \subseteq Devices /\ failures \in 0 .. MaxFailures

Init ==
  /\ at \in Starts
  /\ known = [m \in Devices |-> None]
  /\ seen = [m \in Devices |-> <<>>]
  /\ byMac = [m \in Devices |-> 0]
  /\ byIp = [i \in Addrs |-> None]
  /\ all = {}
  /\ instances = [m \in Devices |-> 0]
  /\ made = [m \in Devices |-> 0]
  /\ addrOf = [h \in Objects |-> None]
  /\ marked = {}
  /\ booting = {}
  /\ listener = [m \in Devices |-> 0]
  /\ sweep = [s \in Sweeps |-> "idle"]
  /\ todo = [s \in Sweeps |-> NoReplies]
  /\ deleting = [m \in Devices |-> "no"]
  /\ moves = 0
  /\ deletes = 0
  /\ orphaned = {} /\ failures = 0

Free(i) == i = None \/ \A m \in Devices : at[m] # i

(* The device takes another address, leaves, or comes back. *)
Move(m) ==
  /\ moves < MaxMoves
  /\ moves' = moves + 1
  /\ \E i \in (Addrs \cup {None}) \ {at[m]} : Free(i) /\ at' = [at EXCEPT ![m] = i]
  /\ UNCHANGED <<known, seen, db, hosts, marked, sweep, todo, deletion>>

(* A device that was away for a week is passed over by the sweeps. *)
Fade(m) ==
  /\ at[m] = None
  /\ seen[m] = <<>>
  /\ known[m] # None
  /\ known' = [known EXCEPT ![m] = None]
  /\ UNCHANGED <<at, seen, db, hosts, marked, sweep, todo, moves, deletion>>

----------------------------------------------------------------------------
(* new Host(o): one object for each device; one that exists keeps its o.       *)

ObjectFor_another(m) == made[m] + 1
ObjectFor(m) == IF instances[m] # 0 THEN instances[m] ELSE made[m] + 1

NewHost(m, i) ==
  LET h == <<m, ObjectFor(m)>>
  IN IF instances[m] # 0
     THEN UNCHANGED hosts
     ELSE /\ instances' = [instances EXCEPT ![m] = h[2]]
          /\ made' = [made EXCEPT ![m] = h[2]]
          /\ addrOf' = [addrOf EXCEPT ![h] = i]
          /\ booting' = booting \cup {h}
          /\ UNCHANGED listener

(* Host.update(o) *)
Update(h, i) ==
  /\ addrOf' = [addrOf EXCEPT ![h] = i]
  /\ UNCHANGED <<instances, made, booting, listener>>

(* The ipsets of the device exist: the object subscribes, unless one has.      *)
Subscribe(h) ==
  /\ h \in booting
  /\ booting' = booting \ {h}
  /\ listener' = [listener EXCEPT ![h[1]] = IF @ = 0 THEN h[2] ELSE @]
  /\ UNCHANGED <<at, known, seen, db, instances, made, addrOf, marked, sweep, todo, moves,
                 deletion>>

(* One of the commands that make them is rejected: the object stays, and never *)
(* subscribes.                                                                 *)
Fail(m) ==
  /\ failures < MaxFailures
  /\ failures' = failures + 1
  /\ orphaned' = orphaned \cup {m}

SubscribeFails(h) ==
  /\ h \in booting
  /\ booting' = booting \ {h}
  /\ Fail(h[1])
  /\ UNCHANGED <<at, known, seen, db, instances, made, addrOf, listener, marked, sweep, todo, moves,
                 deleting, deletes>>

----------------------------------------------------------------------------
(* Discovery writes the record of a device it saw and calls getHost.           *)

Sight(m) ==
  /\ at[m] # None
  /\ seen[m] = <<>>
  /\ known' = [known EXCEPT ![m] = at[m]]
  /\ seen' = [seen EXCEPT ![m] = <<byMac[m]>>]
  /\ UNCHANGED <<at, db, hosts, marked, sweep, todo, moves, deletion>>

(* getHostAsync after it read the record. *)
GetHost(m) ==
  /\ seen[m] # <<>>
  /\ seen' = [seen EXCEPT ![m] = <<>>]
  /\ LET o == known[m]
     IN \/ /\ o = None
           /\ UNCHANGED <<byIp, hosts>>
        \/ /\ o # None /\ seen[m] # <<0>>
           /\ Update(<<m, seen[m][1]>>, o)
           /\ UNCHANGED byIp
        \/ /\ o # None /\ seen[m] = <<0>>
           /\ NewHost(m, o)
           /\ byIp' = [byIp EXCEPT ![o] = <<m, ObjectFor(m)>>]
  /\ UNCHANGED <<at, known, byMac, all, marked, sweep, todo, moves, deletion>>

----------------------------------------------------------------------------
(* getHostsAsync                                                               *)

InDb == {<<m, byMac[m]>> : m \in {d \in Devices : byMac[d] # 0}}
          \cup {byIp[i] : i \in {a \in Addrs : byIp[a] # None}}

(* A call within 5 minutes of one that runs returns what is listed, if anything is; *)
(* nothing tells how long a call takes, so that any two may overlap.                *)
SweepStart(s) ==
  /\ sweep[s] = "idle"
  /\ sweep' = [sweep EXCEPT ![s] = "keys"]
  /\ marked' = marked \ InDb
  /\ UNCHANGED <<at, known, seen, db, hosts, todo, moves, deletion>>

SweepRead(s) ==
  /\ sweep[s] = "keys"
  /\ sweep' = [sweep EXCEPT ![s] = "each"]
  /\ todo' = [todo EXCEPT ![s] = known]
  /\ UNCHANGED <<at, known, seen, db, hosts, marked, moves, deletion>>

(* Of two devices with one address the one whose record is younger keeps it. *)
Keepers(h, j) == IF j # None /\ j[1] # h[1] THEN {h, j} ELSE {h}

(* One record: up to the first await of the callback of eachLimit. *)
SweepHost(s, m) ==
  LET o == todo[s][m]
      h == <<m, IF byMac[m] # 0 THEN byMac[m] ELSE ObjectFor(m)>>
      j == byIp[o]
      old == addrOf[h]
      left == {i \in {old} : byMac[m] # 0 /\ o # old /\ j # None /\ j[1] = m}
  IN /\ sweep[s] = "each"
     /\ o # None
     /\ todo' = [todo EXCEPT ![s][m] = None]
     /\ byMac' = [byMac EXCEPT ![m] = h[2]]
     /\ IF byMac[m] = 0
        THEN all' = all \cup {h} /\ NewHost(m, o)
        ELSE Update(h, o) /\ UNCHANGED all
     /\ marked' = marked \cup {h} \cup ({j} \ {None})
     /\ \E k \in Keepers(h, j) :
          byIp' = [i \in Addrs |-> IF i = o THEN k ELSE IF i \in left THEN None ELSE byIp[i]]
     /\ orphaned' = IF deleting[m] = "no" THEN orphaned ELSE orphaned \cup {m}
     /\ UNCHANGED <<at, known, seen, sweep, moves, deleting, deletes, failures>>

Unmarked == InDb \ marked

(* Every record is processed: what was not marked is dropped. *)
SweepEnd(s) ==
  /\ sweep[s] = "each"
  /\ todo[s] = NoReplies
  /\ sweep' = [sweep EXCEPT ![s] = "idle"]
  /\ all' = all \ Unmarked
  /\ byMac' = [m \in Devices |-> IF <<m, byMac[m]>> \in Unmarked THEN 0 ELSE byMac[m]]
  /\ byIp' = [i \in Addrs |-> IF byIp[i] \in Unmarked THEN None ELSE byIp[i]]
  /\ UNCHANGED <<at, known, seen, hosts, marked, todo, moves, deletion>>

----------------------------------------------------------------------------
(* Device:Delete                                                               *)

(* hosts.all without the deleted device *)
Without_all(m) == all
Without(m) == {h \in all : h[1] # m}

(* What HostManager drops of a deleted device; nothing when it does not have it. *)
Drop(m) ==
  IF byMac[m] = 0
  THEN UNCHANGED db
  ELSE /\ byIp' = [byIp EXCEPT ![addrOf[<<m, byMac[m]>>]] = None]
       /\ byMac' = [byMac EXCEPT ![m] = 0]
       /\ all' = Without(m)

(* The event reaches the subscribed object and HostManager in one turn. *)
Delete(m) ==
  /\ deletes < MaxDeletes
  /\ deletes' = deletes + 1
  /\ known[m] # None
  /\ deleting[m] = "no"
  /\ Drop(m)
  /\ deleting' = [deleting EXCEPT ![m] = IF listener[m] # 0 THEN "flush" ELSE "no"]
  /\ listener' = [listener EXCEPT ![m] = 0]
  /\ UNCHANGED <<at, known, seen, instances, made, addrOf, booting, marked, sweep, todo,
                 moves, orphaned, failures>>

(* flushIpsets, resetPolicies, and the keys of redis; one that is rejected ends *)
(* the handler.                                                                *)
DeleteKeys(m) ==
  /\ deleting[m] = "flush"
  /\ deleting' = [deleting EXCEPT ![m] = "instance"]
  /\ known' = [known EXCEPT ![m] = None]
  /\ UNCHANGED <<at, seen, db, hosts, marked, sweep, todo, moves, orphaned, deletes, failures>>

DeleteFails(m) ==
  /\ deleting[m] = "flush"
  /\ deleting' = [deleting EXCEPT ![m] = "no"]
  /\ Fail(m)
  /\ UNCHANGED <<at, known, seen, db, hosts, marked, sweep, todo, moves, deletes>>

DeleteInstance_kept(m) ==
  /\ deleting[m] = "instance"
  /\ deleting' = [deleting EXCEPT ![m] = "no"]
  /\ UNCHANGED <<at, known, seen, db, hosts, marked, sweep, todo, moves, orphaned, deletes, failures>>

DeleteInstance(m) ==
  /\ deleting[m] = "instance"
  /\ deleting' = [deleting EXCEPT ![m] = "no"]
  /\ instances' = [instances EXCEPT ![m] = 0]
  /\ UNCHANGED <<at, known, seen, db, made, addrOf, booting, listener, marked, sweep, todo,
                 moves, orphaned, deletes, failures>>

----------------------------------------------------------------------------
Next ==
  \/ \E m \in Devices : Move(m) \/ Fade(m) \/ Sight(m) \/ GetHost(m)
  \/ \E h \in Objects : Subscribe(h) \/ SubscribeFails(h)
  \/ \E s \in Sweeps : SweepStart(s) \/ SweepRead(s) \/ SweepEnd(s)
  \/ \E s \in Sweeps, m \in Devices : SweepHost(s, m)
  \/ \E m \in Devices : Delete(m) \/ DeleteKeys(m) \/ DeleteFails(m) \/ DeleteInstance(m)

(* Callbacks come, a device that is there is seen again and again, and getHosts *)
(* is called whenever a scan is done (HostManager.js:160).                     *)
SweepStep(s) == SweepRead(s) \/ (\E m \in Devices : SweepHost(s, m)) \/ SweepEnd(s)
DeleteStep(m) == DeleteKeys(m) \/ DeleteFails(m) \/ DeleteInstance(m)

Fairness ==
  /\ \A m \in Devices : SF_vars(Sight(m)) /\ WF_vars(GetHost(m)) /\ WF_vars(DeleteStep(m))
  /\ WF_vars(\E h \in Objects : Subscribe(h) \/ SubscribeFails(h))
  /\ WF_vars(\E s \in Sweeps : SweepStart(s)) /\ \A s \in Sweeps : WF_vars(SweepStep(s))

Spec == Init /\ [][Next]_vars /\ Fairness

----------------------------------------------------------------------------
(* The listed hosts are exactly the ones hostsdb has by mac, also while calls  *)
(* of getHosts overlap, a device is deleted, and comes back as a new object    *)
(* (HostManager.js:1191-1193).                                                 *)
ListedIsFound == all = {<<m, byMac[m]>> : m \in {d \in Devices : byMac[d] # 0}}

(* A device that stays is listed again and again, whatever overlapping sweeps  *)
(* drop, and as the object that follows its events: one that is not subscribed *)
(* never renews the address in the ipset of the device, so that no rule        *)
(* matches it (Host.js:105-107, :734). One of those in orphaned is listed too, *)
(* if as an object that follows nothing.                                       *)
Tracked(m) == byMac[m] # 0 /\ (m \in orphaned \/ listener[m] = byMac[m])
ListedIsTracked == \A m \in Devices : []<>(at[m] # None => Tracked(m))

(* An address leads, in the end, to a host that has it: the entry of a host    *)
(* under its old address goes. HostManager.js:1343 removes it only if the      *)
(* entry of the new address was already this host's.                           *)
OldAddressIsDropped ==
  \A i \in Addrs : <>[](byIp[i] # None => addrOf[byIp[i]] = i)
================================================================================

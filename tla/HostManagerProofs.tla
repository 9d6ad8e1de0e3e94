------------------------- MODULE HostManagerProofs --------------------------
(***************************************************************************)
(* Theorems about HostManager, for any devices, addresses, overlapping     *)
(* calls of getHosts, sightings, deletions and rejected commands.          *)
(*                                                                         *)
(* Two invariants: what hosts.all and hostsdb have is the same, and a      *)
(* device has had one Host object more than it was deleted, at most, though*)
(* objects are made by getHost and by every sweep (MadeOnce).              *)
(*                                                                         *)
(* And of DeviceHook, that what its handlers find is of its type: the      *)
(* handler of a sighting has one of a device at an address (Sighted).      *)
(***************************************************************************)
EXTENDS MCDevices, TLAPS

\* A device that is being deleted, or has no object, may be given another one.
Owed(m) == (IF instances[m] = 0 THEN 1 ELSE 0) + (IF deleting[m] = "no" THEN 0 ELSE 1)
MadeOnce == \A m \in Devices : made[m] + Owed(m) <= deletes + 1

HostInv == TypeOK /\ MadeOnce /\ ListedIsFound

-----------------------------------------------------------------------------
(* Operators *)

LEMMA NumbersAreNat ==
  /\ Gens \subseteq Nat \ {0} /\ MaxDeletes \in Nat /\ MaxMoves \in Nat /\ MaxFailures \in Nat
  /\ \A n \in Nat : n # 0 /\ n <= MaxDeletes + 1 => n \in Gens
BY HostAssumption DEF Gens

LEMMA CountsAreNat ==
  ASSUME TypeOK
  PROVE  deletes \in Nat /\ \A m \in Devices : made[m] \in Nat
<1>1. \A n \in {0} \cup Gens : n \in Nat
  BY NumbersAreNat
<1>2. made \in [Devices -> {0} \cup Gens] /\ deletes \in 0 .. MaxDeletes
  BY DEF TypeOK
<1>3. deletes \in Nat
  BY <1>2, NumbersAreNat
<1> QED
  BY <1>1, <1>2, <1>3

\* The object that the next new Host gives is an object, also one that is made.
LEMMA NextObject ==
  ASSUME TypeOK, MadeOnce, NEW m \in Devices
  PROVE  ObjectFor(m) \in Gens /\ <<m, ObjectFor(m)>> \in Objects
<1>1. instances[m] \in {0} \cup Gens /\ made[m] \in Nat /\ deletes \in Nat /\ deletes <= MaxDeletes
  BY CountsAreNat, NumbersAreNat DEF TypeOK
<1>2. made[m] + Owed(m) <= deletes + 1
  BY DEF MadeOnce
<1>3. ObjectFor(m) \in Gens
  <2>1. CASE instances[m] # 0
    BY <1>1, <2>1 DEF ObjectFor
  <2>2. CASE instances[m] = 0
    <3>1. Owed(m) \in {1, 2}
      BY <2>2 DEF Owed
    <3>2. made[m] + 1 <= MaxDeletes + 1 /\ made[m] + 1 \in Nat /\ made[m] + 1 # 0
      BY <1>1, <1>2, <3>1, NumbersAreNat
    <3>3. made[m] + 1 \in Gens
      BY <3>2, NumbersAreNat
    <3> QED
      BY <2>2, <3>3 DEF ObjectFor
  <2> QED
    BY <2>1, <2>2
<1> QED
  BY <1>3 DEF Objects

\* What new Host does: at most one device has one object more, and had none.
LEMMA NewHostKeeps ==
  ASSUME TypeOK, MadeOnce, NEW m \in Devices, NEW i \in Addrs, NewHost(m, i),
         UNCHANGED <<deleting, deletes>>
  PROVE  /\ instances' \in [Devices -> {0} \cup Gens] /\ made' \in [Devices -> {0} \cup Gens]
         /\ addrOf' \in [Objects -> Addrs \cup {None}] /\ booting' \subseteq Objects
         /\ listener' = listener
         /\ MadeOnce'
<1>1. CASE instances[m] # 0
  BY <1>1 DEF NewHost, hosts, TypeOK, MadeOnce, Owed
<1>2. CASE instances[m] = 0
  <2> DEFINE n == ObjectFor(m)
  <2>1. n \in Gens /\ <<m, n>> \in Objects /\ n = made[m] + 1 /\ n # 0
    BY <1>2, NextObject, NumbersAreNat DEF ObjectFor
  <2>2. /\ instances' = [instances EXCEPT ![m] = n]
        /\ made' = [made EXCEPT ![m] = n]
        /\ addrOf' = [addrOf EXCEPT ![<<m, n>>] = i]
        /\ booting' = booting \cup {<<m, n>>}
        /\ listener' = listener
    BY <1>2 DEF NewHost
  <2> HIDE DEF n
  <2>3. MadeOnce'
    <3> SUFFICES ASSUME NEW d \in Devices PROVE made'[d] + Owed(d)' <= deletes' + 1
      BY DEF MadeOnce
    <3>1. made[d] + Owed(d) <= deletes + 1 /\ made[d] \in Nat /\ deletes \in Nat
      BY CountsAreNat DEF MadeOnce
    <3>2. CASE d = m
      <4>1. made'[m] = made[m] + 1 /\ Owed(m)' = Owed(m) - 1 /\ Owed(m) \in {1, 2}
        BY <1>2, <2>1, <2>2 DEF Owed, TypeOK
      <4> QED
        BY <3>1, <3>2, <4>1
    <3>3. CASE d # m
      BY <2>2, <3>1, <3>3 DEF Owed, TypeOK
    <3> QED
      BY <3>2, <3>3
  <2> QED
    BY <2>1, <2>2, <2>3 DEF TypeOK
<1> QED
  BY <1>1, <1>2

\* Host.update changes an address.
LEMMA UpdateKeeps ==
  ASSUME TypeOK, MadeOnce, NEW h \in Objects, NEW i \in Addrs, Update(h, i),
         UNCHANGED <<deleting, deletes>>
  PROVE  /\ instances' \in [Devices -> {0} \cup Gens] /\ made' \in [Devices -> {0} \cup Gens]
         /\ addrOf' \in [Objects -> Addrs \cup {None}] /\ booting' \subseteq Objects
         /\ listener' = listener
         /\ MadeOnce'
BY DEF Update, TypeOK, MadeOnce, Owed

-----------------------------------------------------------------------------
(* Types, and how many objects there are *)

CountInv == TypeOK /\ MadeOnce

LEMMA InitCountInv == Init => CountInv
<1> SUFFICES ASSUME Init PROVE CountInv
  OBVIOUS
<1>1. MadeOnce
  BY DEF Init, MadeOnce, Owed
<1>2. 0 \in 0 .. MaxMoves /\ 0 \in 0 .. MaxDeletes /\ 0 \in 0 .. MaxFailures
  BY NumbersAreNat
<1>3. todo \in [Sweeps -> [Devices -> Addrs \cup {None}]]
  BY DEF Init, NoReplies
<1>4. at \in [Devices -> Addrs \cup {None}]
  BY HostAssumption DEF Init
<1> QED
  BY <1>1, <1>2, <1>3, <1>4 DEF Init, CountInv, TypeOK

LEMMA StepCountInv == CountInv /\ [Next]_vars => CountInv'
<1> SUFFICES ASSUME CountInv, [Next]_vars PROVE CountInv'
  OBVIOUS
<1> USE DEF deletion
<1>t. TypeOK /\ MadeOnce
  BY DEF CountInv
<1>n. deletes \in Nat /\ \A m \in Devices : made[m] \in Nat
  BY <1>t, CountsAreNat
<1>k. ASSUME UNCHANGED <<made, instances, deleting, deletes>> PROVE MadeOnce'
  BY <1>t, <1>k DEF MadeOnce, Owed
<1>1. ASSUME NEW m \in Devices, Move(m) PROVE CountInv'
  <2>1. moves' \in 0 .. MaxMoves
    BY <1>1, <1>t, NumbersAreNat DEF Move, TypeOK
  <2> QED
    BY <1>1, <1>t, <1>k, <2>1 DEF Move, CountInv, TypeOK, db, hosts
<1>2. ASSUME NEW m \in Devices, Fade(m) PROVE CountInv'
  BY <1>2, <1>t, <1>k DEF Fade, CountInv, TypeOK, db, hosts
<1>3. ASSUME NEW m \in Devices, Sight(m) PROVE CountInv'
  <2>1. at[m] \in Addrs \cup {None} /\ byMac[m] \in {0} \cup Gens
    BY <1>t DEF TypeOK
  <2>2. <<byMac[m]>> \in {<<>>} \cup {<<n>> : n \in {0} \cup Gens}
    BY <2>1
  <2> QED
    BY <1>3, <1>t, <1>k, <2>1, <2>2 DEF Sight, CountInv, TypeOK, db, hosts
<1>4. ASSUME NEW m \in Devices, GetHost(m) PROVE CountInv'
  <2> DEFINE o == known[m]
  <2>1. seen' \in [Devices -> {<<>>} \cup {<<n>> : n \in {0} \cup Gens}]
    BY <1>4, <1>t DEF GetHost, TypeOK
  <2>2. o \in Addrs \cup {None}
    BY <1>t DEF TypeOK
  <2>3. CASE o = None /\ UNCHANGED <<byIp, hosts>>
    BY <1>4, <1>t, <1>k, <2>1, <2>3 DEF GetHost, CountInv, TypeOK, hosts
  <2>4. CASE o # None /\ seen[m] # <<0>> /\ Update(<<m, seen[m][1]>>, o) /\ UNCHANGED byIp
    <3>1. PICK n \in {0} \cup Gens : seen[m] = <<n>>
      BY <1>4, <1>t DEF GetHost, TypeOK
    <3>2. n \in Gens /\ <<m, seen[m][1]>> \in Objects
      BY <2>4, <3>1 DEF Objects
    <3> QED
      BY <1>4, <1>t, <2>1, <2>2, <2>4, <3>2, UpdateKeeps DEF GetHost, CountInv, TypeOK
  <2>5. CASE o # None /\ seen[m] = <<0>> /\ NewHost(m, o)
             /\ byIp' = [byIp EXCEPT ![o] = <<m, ObjectFor(m)>>]
    <3>1. byIp' \in [Addrs -> Objects \cup {None}]
      BY <1>t, <2>5, NextObject DEF TypeOK
    <3> QED
      BY <1>4, <1>t, <2>1, <2>2, <2>5, <3>1, NewHostKeeps DEF GetHost, CountInv, TypeOK
  <2> QED
    BY <1>4, <2>3, <2>4, <2>5 DEF GetHost
<1>5. ASSUME NEW h \in Objects, Subscribe(h) PROVE CountInv'
  <2>1. h[1] \in Devices /\ h[2] \in Gens
    BY DEF Objects
  <2> QED
    BY <1>5, <1>t, <1>k, <2>1 DEF Subscribe, CountInv, TypeOK, db
<1>f. ASSUME NEW m \in Devices, Fail(m) PROVE orphaned' \subseteq Devices /\ failures' \in 0 .. MaxFailures
  BY <1>f, <1>t, NumbersAreNat DEF Fail, TypeOK
<1>b. ASSUME NEW h \in Objects, SubscribeFails(h) PROVE CountInv'
  <2>1. h[1] \in Devices
    BY DEF Objects
  <2>2. orphaned' \subseteq Devices /\ failures' \in 0 .. MaxFailures
    BY <1>b, <1>f, <2>1 DEF SubscribeFails
  <2> QED
    BY <1>b, <1>t, <1>k, <2>2 DEF SubscribeFails, CountInv, TypeOK, db
<1>6. ASSUME NEW s \in Sweeps, SweepStart(s) PROVE CountInv'
  BY <1>6, <1>t, <1>k DEF SweepStart, CountInv, TypeOK, db, hosts
<1>7. ASSUME NEW s \in Sweeps, SweepRead(s) PROVE CountInv'
  BY <1>7, <1>t, <1>k DEF SweepRead, CountInv, TypeOK, db, hosts
<1>8. ASSUME NEW s \in Sweeps, SweepEnd(s) PROVE CountInv'
  BY <1>8, <1>t, <1>k DEF SweepEnd, CountInv, TypeOK, hosts
<1>9. ASSUME NEW s \in Sweeps, NEW m \in Devices, SweepHost(s, m) PROVE CountInv'
  <2> DEFINE o == todo[s][m]
             n == IF byMac[m] # 0 THEN byMac[m] ELSE ObjectFor(m)
             h == <<m, n>>
             j == byIp[o]
             left == {i \in {addrOf[h]} : byMac[m] # 0 /\ o # addrOf[h] /\ j # None /\ j[1] = m}
  <2>1. o \in Addrs /\ j \in Objects \cup {None}
    BY <1>9, <1>t DEF SweepHost, TypeOK
  <2>2. n \in Gens /\ h \in Objects
    BY <1>t, NextObject DEF TypeOK, Objects
  <2>3. todo' \in [Sweeps -> [Devices -> Addrs \cup {None}]]
    <3>1. todo' = [todo EXCEPT ![s] = [todo[s] EXCEPT ![m] = None]]
      BY <1>9 DEF SweepHost
    <3>2. todo[s] \in [Devices -> Addrs \cup {None}]
      BY <1>t DEF TypeOK
    <3>3. [todo[s] EXCEPT ![m] = None] \in [Devices -> Addrs \cup {None}]
      BY <3>2
    <3> QED
      BY <1>t, <3>1, <3>3 DEF TypeOK
  <2>4. byMac' \in [Devices -> {0} \cup Gens]
    BY <1>9, <1>t, <2>2 DEF SweepHost, TypeOK
  <2>5. marked' = marked \cup {h} \cup ({j} \ {None})
    BY <1>9 DEF SweepHost
  <2>6. PICK k \in Keepers(h, j) :
           byIp' = [i \in Addrs |-> IF i = o THEN k ELSE IF i \in left THEN None ELSE byIp[i]]
    BY <1>9 DEF SweepHost
  <2>7. \/ byMac[m] = 0 /\ all' = all \cup {h} /\ NewHost(m, o)
        \/ byMac[m] # 0 /\ Update(h, o) /\ UNCHANGED all
    BY <1>9 DEF SweepHost
  <2>8. UNCHANGED <<at, known, seen, sweep, moves, deleting, deletes, failures>>
    BY <1>9 DEF SweepHost
  <2>o. orphaned' \subseteq Devices
    BY <1>9, <1>t DEF SweepHost, TypeOK
  <2> HIDE DEF o, n, h, j, left
  <2>9. k \in Objects
    BY <2>1, <2>2, <2>6 DEF Keepers
  <2>10. byIp' \in [Addrs -> Objects \cup {None}]
    BY <1>t, <2>6, <2>9 DEF TypeOK
  <2>11. marked' \subseteq Objects /\ all' \subseteq Objects
    BY <1>t, <2>1, <2>2, <2>5, <2>7 DEF TypeOK
  <2>12. /\ instances' \in [Devices -> {0} \cup Gens] /\ made' \in [Devices -> {0} \cup Gens]
         /\ addrOf' \in [Objects -> Addrs \cup {None}] /\ booting' \subseteq Objects
         /\ listener' = listener
         /\ MadeOnce'
    BY <1>t, <2>1, <2>2, <2>7, <2>8, NewHostKeeps, UpdateKeeps
  <2> QED
    BY <1>t, <2>3, <2>4, <2>8, <2>o, <2>10, <2>11, <2>12 DEF CountInv, TypeOK
<1>10. ASSUME NEW m \in Devices, Delete(m) PROVE CountInv'
  <2>1. deletes' = deletes + 1 /\ deletes' \in 0 .. MaxDeletes
    BY <1>10, <1>n, NumbersAreNat DEF Delete
  <2>2. /\ byIp' \in [Addrs -> Objects \cup {None}] /\ byMac' \in [Devices -> {0} \cup Gens]
        /\ all' \subseteq Objects
    BY <1>10, <1>t DEF Delete, Drop, Without, TypeOK, db
  <2>3. MadeOnce'
    <3> SUFFICES ASSUME NEW d \in Devices PROVE made'[d] + Owed(d)' <= deletes' + 1
      BY DEF MadeOnce
    <3>1. made[d] + Owed(d) <= deletes + 1 /\ made'[d] = made[d]
      BY <1>10, <1>t DEF MadeOnce, Delete
    <3>2. Owed(d) \in 0 .. 2 /\ Owed(d)' \in 0 .. 2 /\ Owed(d)' <= Owed(d) + 1
      BY <1>10, <1>t DEF Owed, Delete, TypeOK
    <3> QED
      BY <1>n, <2>1, <3>1, <3>2
  <2> QED
    BY <1>10, <1>t, <2>1, <2>2, <2>3 DEF Delete, CountInv, TypeOK
<1>11. ASSUME NEW m \in Devices, DeleteKeys(m) PROVE CountInv'
  <2>1. \A d \in Devices : Owed(d)' = Owed(d)
    BY <1>11, <1>t DEF DeleteKeys, Owed, hosts, TypeOK
  <2>2. MadeOnce'
    BY <1>11, <1>t, <2>1 DEF DeleteKeys, MadeOnce, hosts
  <2> QED
    BY <1>11, <1>t, <2>2 DEF DeleteKeys, CountInv, TypeOK, db, hosts
<1>d. ASSUME NEW m \in Devices, DeleteFails(m) PROVE CountInv'
  <2>1. \A d \in Devices : Owed(d)' <= Owed(d) /\ Owed(d) \in 0 .. 2 /\ Owed(d)' \in 0 .. 2
    BY <1>d, <1>t DEF DeleteFails, Owed, hosts, TypeOK
  <2>2. MadeOnce'
    BY <1>d, <1>t, <1>n, <2>1 DEF DeleteFails, MadeOnce, hosts
  <2>3. orphaned' \subseteq Devices /\ failures' \in 0 .. MaxFailures
    BY <1>d, <1>f DEF DeleteFails
  <2> QED
    BY <1>d, <1>t, <2>2, <2>3 DEF DeleteFails, CountInv, TypeOK, db, hosts
<1>12. ASSUME NEW m \in Devices, DeleteInstance(m) PROVE CountInv'
  <2>1. \A d \in Devices : Owed(d)' <= Owed(d) /\ Owed(d) \in 0 .. 2 /\ Owed(d)' \in 0 .. 2
    BY <1>12, <1>t DEF DeleteInstance, Owed, TypeOK
  <2>2. MadeOnce'
    BY <1>12, <1>t, <1>n, <2>1 DEF DeleteInstance, MadeOnce
  <2>3. instances' \in [Devices -> {0} \cup Gens]
    BY <1>12, <1>t DEF DeleteInstance, TypeOK
  <2> QED
    BY <1>12, <1>t, <2>2, <2>3 DEF DeleteInstance, CountInv, TypeOK, db
<1>13. CASE UNCHANGED vars
  BY <1>13, <1>t, <1>k DEF vars, CountInv, TypeOK, db, hosts
<1> QED
  BY <1>1, <1>2, <1>3, <1>4, <1>5, <1>6, <1>7, <1>8, <1>9, <1>10, <1>11, <1>12, <1>13,
     <1>b, <1>d DEF Next

-----------------------------------------------------------------------------
(* hosts.all and hostsdb *)

LEMMA StepHostInv == HostInv /\ [Next]_vars => HostInv'
<1> SUFFICES ASSUME HostInv, [Next]_vars PROVE HostInv'
  OBVIOUS
<1>c. CountInv /\ CountInv' /\ TypeOK /\ MadeOnce
  BY StepCountInv DEF HostInv, CountInv
<1>l. all = {<<d, byMac[d]>> : d \in {e \in Devices : byMac[e] # 0}}
  BY DEF HostInv, ListedIsFound
<1> SUFFICES ListedIsFound'
  BY <1>c DEF HostInv, CountInv
<1>1. CASE UNCHANGED <<all, byMac>>
  BY <1>1, <1>l DEF ListedIsFound
<1>2. ASSUME NEW s \in Sweeps, NEW m \in Devices, SweepHost(s, m) PROVE ListedIsFound'
  <2>1. CASE byMac[m] # 0
    <3>1. byMac' = byMac /\ all' = all
      BY <1>2, <1>c, <2>1 DEF SweepHost, TypeOK
    <3> QED
      BY <1>1, <3>1
  <2>2. CASE byMac[m] = 0
    <3> DEFINE n == ObjectFor(m)
    <3>1. n # 0
      BY <1>c, NextObject, NumbersAreNat
    <3>2. all' = all \cup {<<m, n>>} /\ byMac' = [byMac EXCEPT ![m] = n]
      BY <1>2, <2>2 DEF SweepHost
    <3> HIDE DEF n
    <3>3. /\ byMac'[m] = n
          /\ \A d \in Devices \ {m} : byMac'[d] = byMac[d]
      BY <1>c, <3>2 DEF TypeOK
    <3> QED
      BY <1>l, <2>2, <3>1, <3>2, <3>3 DEF ListedIsFound
  <2> QED
    BY <2>1, <2>2
<1>3. ASSUME NEW s \in Sweeps, SweepEnd(s) PROVE ListedIsFound'
  <2>1. /\ all' = all \ Unmarked
        /\ \A d \in Devices : byMac'[d] = IF <<d, byMac[d]>> \in Unmarked THEN 0 ELSE byMac[d]
    BY <1>3 DEF SweepEnd
  <2> QED
    BY <1>l, <2>1 DEF ListedIsFound
<1>4. ASSUME NEW m \in Devices, Drop(m) PROVE ListedIsFound'
  <2>1. CASE byMac[m] = 0
    BY <1>1, <1>4, <2>1 DEF Drop, db
  <2>2. CASE byMac[m] # 0
    <3>1. all' = {h \in all : h[1] # m} /\ byMac' = [byMac EXCEPT ![m] = 0]
      BY <1>4, <2>2 DEF Drop, Without
    <3>2. /\ byMac'[m] = 0
          /\ \A d \in Devices \ {m} : byMac'[d] = byMac[d]
      BY <1>c, <3>1 DEF TypeOK
    <3> QED
      BY <1>l, <3>1, <3>2 DEF ListedIsFound
  <2> QED
    BY <2>1, <2>2
<1>5. ASSUME \/ \E m \in Devices : Move(m) \/ Fade(m) \/ Sight(m) \/ GetHost(m)
             \/ \E h \in Objects : Subscribe(h) \/ SubscribeFails(h)
             \/ \E s \in Sweeps : SweepStart(s) \/ SweepRead(s)
             \/ \E m \in Devices : DeleteKeys(m) \/ DeleteFails(m) \/ DeleteInstance(m)
      PROVE  UNCHANGED <<all, byMac>>
  BY <1>5 DEF Move, Fade, Sight, GetHost, Subscribe, SubscribeFails, SweepStart, SweepRead, DeleteKeys,
              DeleteFails, DeleteInstance, db
<1> QED
  BY <1>1, <1>2, <1>3, <1>4, <1>5 DEF Next, Delete, vars, db

-----------------------------------------------------------------------------
(* DeviceHook *)

Steps == {"idle", "exists", "entry", "load", "hget", "del", "hmset", "vendor", "mac", "dup", "hdel"}
Events == [mac : Devices \cup {None}, ip : Addrs \cup {None},
           type : {"none", "new", "moved", "taken", "regular"}, oldMac : Devices \cup {None}]

HookTypes ==
    /\ hook_at \in [Devices -> Addrs \cup {None}]
    /\ macs \in [Devices -> Addrs \cup {None, "absent"}]
    /\ ip4 \in [Addrs -> Devices \cup {None}]
    /\ pc \in [Handlers -> Steps]
    /\ event \in [Handlers -> Events]
    /\ hook_deleting \in [Devices -> {"no", "ip", "mac"}]
    /\ changes \in 0 .. MaxChanges

\* A handler at work has a sighting of a device at an address.
Sighted == \A h \in Handlers : pc[h] # "idle" => event[h].mac \in Devices /\ event[h].ip \in Addrs

HookInv == HookTypes /\ Sighted

LEMMA HookTyped == HookInv => Hook!TypeOK
BY DEF HookInv, HookTypes, Hook!TypeOK, Steps, Events

\* What a handler does to its event.
Handled == pc' \in [Handlers -> Steps] /\ event' \in [Handlers -> Events] /\ Sighted'

LEMMA GoesOnHandling ==
  ASSUME HookInv, NEW h \in Handlers, NEW step \in Steps, pc[h] # "idle",
         Hook!Goto(h, step), UNCHANGED event
  PROVE  Handled
BY DEF HookInv, HookTypes, Sighted, Handled, Hook!Goto

LEMMA EndsHandling ==
  ASSUME HookInv, NEW h \in Handlers, Hook!Done(h)
  PROVE  Handled
<1>1. Hook!NoEvent \in Events /\ "idle" \in Steps
  BY DEF Hook!NoEvent, Events, Steps
<1> QED
  BY <1>1 DEF HookInv, HookTypes, Sighted, Handled, Hook!Done, Hook!Goto

LEMMA EmitsEvent ==
  ASSUME HookInv, NEW h \in Handlers, pc[h] # "idle",
         NEW type \in {"new", "moved", "taken", "regular"}, NEW old \in Devices \cup {None},
         NEW step \in Steps, Hook!Emit(h, type, old, step)
  PROVE  Handled
<1> DEFINE e == [event[h] EXCEPT !.type = type, !.oldMac = old]
<1>1. event' = [event EXCEPT ![h] = e]
  BY DEF HookInv, HookTypes, Hook!Emit
<1>2. e \in Events /\ e.mac = event[h].mac /\ e.ip = event[h].ip
  BY ZenonT(60) DEF HookInv, HookTypes, Events
<1>3. pc' = [pc EXCEPT ![h] = step]
  BY DEF Hook!Emit, Hook!Goto
<1> HIDE DEF e
<1> QED
  BY <1>1, <1>2, <1>3 DEF HookInv, HookTypes, Sighted, Handled

LEMMA InitHook == ASSUME Hook!Init PROVE HookInv
BY HostAssumption, ChangesAssumption
   DEF Hook!Init, HookInv, HookTypes, Sighted, Hook!NoEvent, Steps, Events

LEMMA StepHook == ASSUME HookInv, [Hook!Next]_(Hook!vars) PROVE HookInv'
<1>t. HookTypes /\ Sighted
  BY DEF HookInv
<1> SUFFICES HookTypes' /\ Sighted'
  BY DEF HookInv
<1>c. Hook!Change => changes' \in 0 .. MaxChanges
  BY <1>t, ChangesAssumption DEF Hook!Change, HookTypes
<1>k. ASSUME Handled, macs' \in [Devices -> Addrs \cup {None, "absent"}],
             ip4' \in [Addrs -> Devices \cup {None}], UNCHANGED <<hook_at, hook_deleting, changes>>
      PROVE  HookTypes' /\ Sighted'
  BY <1>t, <1>k DEF HookTypes, Handled
<1>1. ASSUME NEW h \in Handlers, NEW m \in Devices, Hook!See(h, m) PROVE HookTypes' /\ Sighted'
  <2> DEFINE e == [Hook!NoEvent EXCEPT !.mac = m, !.ip = hook_at[m]]
  <2>1. e \in Events /\ e.mac \in Devices /\ e.ip \in Addrs
    BY <1>t, <1>1 DEF HookTypes, Hook!See, Hook!NoEvent, Events
  <2>2. event' = [event EXCEPT ![h] = e] /\ pc' = [pc EXCEPT ![h] = "exists"] /\ "exists" \in Steps
    BY <1>1 DEF Hook!See, Hook!Goto, Steps
  <2> HIDE DEF e
  <2>3. Handled
    BY <1>t, <2>1, <2>2 DEF HookTypes, Sighted, Handled
  <2> QED
    BY <1>t, <1>1, <1>k, <2>3 DEF Hook!See, HookTypes
<1>2. ASSUME NEW h \in Handlers, Hook!Handle(h) PROVE HookTypes' /\ Sighted'
  <2>1. pc[h] # "idle"
    BY <1>2 DEF Hook!Handle, Hook!MacExists, Hook!GetIPv4Entry, Hook!Load, Hook!HgetMac, Hook!DelIPv4,
       Hook!UpdateIPv4, Hook!GetVendor, Hook!UpdateMACKey, Hook!ReadOldOwner, Hook!RemoveDupIPv4
  <2>2. event[h].mac \in Devices /\ event[h].ip \in Addrs
    BY <1>t, <2>1 DEF Sighted
  <2>3. Handled
    <3>1. CASE Hook!MacExists(h)
      BY <2>1, <3>1, EmitsEvent, GoesOnHandling DEF Hook!MacExists, Steps
    <3>2. CASE Hook!GetIPv4Entry(h)
      <4>1. ip4[event[h].ip] \in Devices \cup {None}
        BY <1>t, <2>2 DEF HookTypes
      <4> QED
        BY <2>1, <3>2, <4>1, EmitsEvent DEF Hook!GetIPv4Entry, Steps
    <3>3. CASE Hook!Load(h) \/ Hook!ReadOldOwner(h) \/ Hook!UpdateMACKey(h)
      BY <2>1, <3>3, EndsHandling, GoesOnHandling
         DEF Hook!Load, Hook!ReadOldOwner, Hook!UpdateMACKey, Steps
    <3>4. CASE Hook!HgetMac(h) \/ Hook!DelIPv4(h) \/ Hook!UpdateIPv4(h) \/ Hook!GetVendor(h)
      BY <2>1, <3>4, GoesOnHandling
         DEF Hook!HgetMac, Hook!DelIPv4, Hook!UpdateIPv4, Hook!GetVendor, Steps
    <3>5. CASE Hook!RemoveDupIPv4(h)
      BY <3>5, EndsHandling DEF Hook!RemoveDupIPv4
    <3> QED
      BY <1>2, <3>1, <3>2, <3>3, <3>4, <3>5 DEF Hook!Handle
  <2>4. ip4' \in [Addrs -> Devices \cup {None}]
    <3>1. CASE Hook!DelIPv4(h) \/ Hook!UpdateIPv4(h)
      BY <1>t, <2>2, <3>1 DEF HookTypes, Hook!DelIPv4, Hook!UpdateIPv4
    <3>2. CASE ip4' = ip4
      BY <1>t, <3>2 DEF HookTypes
    <3> QED
      BY <1>2, <3>1, <3>2 DEF Hook!Handle, Hook!MacExists, Hook!GetIPv4Entry, Hook!Load, Hook!HgetMac,
         Hook!GetVendor, Hook!UpdateMACKey, Hook!ReadOldOwner, Hook!RemoveDupIPv4
  <2>5. macs' \in [Devices -> Addrs \cup {None, "absent"}]
    <3>1. CASE Hook!UpdateMACKey(h) \/ Hook!RemoveDupIPv4(h)
      BY <1>t, <2>2, <3>1 DEF HookTypes, Hook!UpdateMACKey, Hook!RemoveDupIPv4
    <3>2. CASE macs' = macs
      BY <1>t, <3>2 DEF HookTypes
    <3> QED
      BY <1>2, <3>1, <3>2 DEF Hook!Handle, Hook!MacExists, Hook!GetIPv4Entry, Hook!Load, Hook!HgetMac,
         Hook!DelIPv4, Hook!UpdateIPv4, Hook!GetVendor, Hook!ReadOldOwner
  <2>6. UNCHANGED <<hook_at, hook_deleting, changes>>
    BY <1>2 DEF Hook!Handle, Hook!MacExists, Hook!GetIPv4Entry, Hook!Load, Hook!HgetMac, Hook!DelIPv4,
       Hook!UpdateIPv4, Hook!GetVendor, Hook!UpdateMACKey, Hook!ReadOldOwner, Hook!RemoveDupIPv4
  <2> QED
    BY <1>k, <2>3, <2>4, <2>5, <2>6
<1>3. ASSUME NEW m \in Devices, \/ Hook!Move(m) \/ Hook!Delete(m)
                                \/ Hook!DeleteIPv4(m) \/ Hook!DeleteMac(m)
      PROVE  HookTypes' /\ Sighted'
  <2>1. UNCHANGED <<pc, event>>
    BY <1>3 DEF Hook!Move, Hook!Delete, Hook!DeleteIPv4, Hook!DeleteMac
  <2>2. Sighted'
    BY <1>t, <2>1 DEF Sighted
  <2>3. CASE Hook!Move(m)
    BY <1>t, <1>c, <2>2, <2>3 DEF Hook!Move, HookTypes
  <2>4. CASE Hook!Delete(m)
    BY <1>t, <1>c, <2>2, <2>4 DEF Hook!Delete, HookTypes
  <2>5. CASE Hook!DeleteIPv4(m) \/ Hook!DeleteMac(m)
    BY <1>t, <2>2, <2>5 DEF Hook!DeleteIPv4, Hook!DeleteMac, HookTypes
  <2> QED
    BY <1>3, <2>3, <2>4, <2>5
<1>4. CASE Hook!Crash
  <2>1. Hook!NoEvent \in Events
    BY DEF Hook!NoEvent, Events
  <2> QED
    BY <1>t, <1>c, <1>4, <2>1 DEF Hook!Crash, Steps, HookTypes, Sighted
<1>5. CASE UNCHANGED Hook!vars
  BY <1>t, <1>5 DEF Hook!vars, HookTypes, Sighted
<1> QED
  BY <1>1, <1>2, <1>3, <1>4, <1>5 DEF Hook!Next

-----------------------------------------------------------------------------
(* Theorems *)

\* Everything FireMain keeps of the devices is of its type; in particular no
\* more objects are made for a device than it is deleted, and one.
THEOREM HostTypes == Spec => []TypeOK
<1>1. CountInv => TypeOK
  BY DEF CountInv
<1> QED
  BY <1>1, InitCountInv, StepCountInv, PTL DEF Spec

\* While calls of getHosts overlap each other, sightings, deletions and commands that
\* are rejected, hosts.all
\* and the entries of hostsdb by mac are the same objects
\* (getHostsAsync, and the Device:Delete handler, of HostManager.js).
THEOREM ListedAreFound == Spec => []ListedIsFound
<1>1. Init => HostInv
  <2>1. Init => ListedIsFound
    BY DEF Init, ListedIsFound
  <2> QED
    BY <2>1, InitCountInv DEF HostInv, CountInv
<1>2. HostInv => ListedIsFound
  BY DEF HostInv
<1> QED
  BY <1>1, <1>2, StepHostInv, PTL DEF Spec

\* Discovery and the hosts in memory: handlers of sightings, deletions of hosts and
\* restarts, and calls of getHosts, sightings and deletions, keep every record, event
\* and object of its type however they overlap (DeviceHook.js, HostManager.js).
THEOREM DeviceTypes == DevicesSpec => []TypesOK
<1> DEFINE Types == CountInv /\ HookInv
<1>1. DevicesInit => Types
  BY InitCountInv, InitHook DEF DevicesInit
<1>2. Types /\ [DevicesNext]_allVars => Types'
  <2> SUFFICES ASSUME Types, [DevicesNext]_allVars PROVE Types'
    OBVIOUS
  <2>1. [Next]_vars
    BY DEF DevicesNext, allVars, InHosts, InHook, Next, HookNext, HostsMove, HostsFade, HostsSight,
       HostsGetHost, HostsSubscribe, HostsSubscribeFails, HostsSweepStart, HostsSweepRead,
       HostsSweepHost, HostsSweepEnd, HostsDelete, HostsDeleteKeys, HostsDeleteFails, HostsDeleteInstance
  <2>2. [Hook!Next]_(Hook!vars)
    BY DEF DevicesNext, allVars, InHosts, InHook, HookNext, hookVars, Hook!vars, HostsMove, HostsFade,
       HostsSight, HostsGetHost, HostsSubscribe, HostsSubscribeFails, HostsSweepStart, HostsSweepRead,
       HostsSweepHost, HostsSweepEnd, HostsDelete, HostsDeleteKeys, HostsDeleteFails,
       HostsDeleteInstance
  <2> QED
    BY <2>1, <2>2, StepCountInv, StepHook
<1>3. Types => TypesOK
  BY HookTyped DEF CountInv, TypesOK
<1> QED
  BY <1>1, <1>2, <1>3, PTL DEF DevicesSpec
=============================================================================

---------------------------- MODULE DnsmasqProofs -----------------------------
(***************************************************************************)
(* Theorems about Dnsmasq, for any writers, overlapping restarts, edits,   *)
(* failures and crashes.                                                   *)
(*                                                                         *)
(* LatestLoaded speaks of the quiet states only. The invariant behind it   *)
(* says, at every other state, who will still restart a service that has   *)
(* read old files: a writer or start() that has yet to ask for a restart,  *)
(* the armed timeout, or a callback whose reading of the files is          *)
(* current as far as it has got. The comparison then finds a difference,   *)
(* unless the noted md5 is that of the files as they are; and whoever      *)
(* noted that is itself between the comparison and the restart.            *)
(*                                                                         *)
(* DeadIsBypassed could fail when start() adds the redirect after the      *)
(* check has counted three failures. The invariant behind it bounds what   *)
(* the check can count between the moment start() forgets the count and    *)
(* the moment it sets it: one failure.                                     *)
(***************************************************************************)
EXTENDS Dnsmasq, TLAPS

\* The service runs with other files than those that are written.
Stale == loaded \notin {None, conf}

\* The callback c is sure to stop and restart the service.
Restarting(c) == task[c].at \in {"stop", "restart"}

\* What the callback c has read of the files is what they are.
ReadsLatest(c) ==
    \/ task[c].at = "read"
    \/ task[c].at = "rest" /\ task[c].seen["filter"] = conf["filter"]
    \/ task[c].at = "compare" /\ task[c].seen = conf

\* Somebody is going to ask for a restart, or it is asked for.
Asked == \/ restartDNSTask # "off" \/ restartDHCPTask # "off" \/ hosts = "schedule"
         \/ start \in {"resolv", "raw"}
         \/ \E w \in Writers : writer[w] = "schedule"

StaleIsCovered ==
    Stale => Asked \/ \E c \in Callbacks : ReadsLatest(c) \/ Restarting(c)
NotedIsRestarting ==
    Stale /\ md5 = conf => \E c \in Callbacks : Restarting(c)

\* With fresh contents no one knows of a number that is still to be used.
Known(f) == f = None \/ \A p \in Paths : f[p] <= changes
OnlyOldContents == /\ Known(conf) /\ Known(md5) /\ Known(loaded)
                   /\ \A c \in Callbacks : Known(task[c].seen)

\* What the model's types leave out: the numbers, and what a callback that
\* reads has in hand.
TypeInv == /\ TypeOK
           /\ changes \in 0 .. MaxChanges
           /\ task \in [Callbacks -> [at : {"idle", "read", "rest", "compare", "stop", "restart"},
                                     seen : Files \cup {None}]]
           /\ writer \in [Writers -> {"idle", "write", "schedule"}]
           /\ \A c \in Callbacks : task[c].at \in {"rest", "compare"} => task[c].seen \in Files

LoadedInv == TypeInv /\ OnlyOldContents /\ StaleIsCovered /\ NotedIsRestarting

\* From forgetting the count to setting it, the check counts one failure at most.
CountsOnce ==
    start \in {"add", "count"} =>
        \/ failCount = None
        \/ failCount = 0 /\ (check = "idle" \/ (check \in {"resolved", "failed"} /\ asked))
        \/ failCount = 1 /\ check = "idle" /\ asked

BypassInv == TypeInv /\ CountsOnce /\ DeadIsBypassed

-----------------------------------------------------------------------------
(* Types *)

Stages == {"idle", "read", "rest", "compare", "stop", "restart"}

\* An edit leaves files and a count of edits.
LEMMA EditTypes ==
  ASSUME conf \in Files, changes \in 0 .. MaxChanges, NEW p \in Paths, Edit(p)
  PROVE  conf' \in Files /\ changes' \in 0 .. MaxChanges
<1>1. MaxChanges \in Nat
  BY BoundsAssumption
<1>2. NewContents \subseteq Numbers
  BY <1>1 DEF NewContents, Numbers
<1> QED
  BY <1>1, <1>2 DEF Edit, Files

\* The stage and the reading of one callback change, all others stay.
LEMMA TaskTypes ==
  ASSUME task \in [Callbacks -> [at : Stages, seen : Files \cup {None}]],
         \A c \in Callbacks : task[c].at \in {"rest", "compare"} => task[c].seen \in Files,
         NEW d \in Callbacks, NEW r \in [at : Stages, seen : Files \cup {None}],
         r.at \in {"rest", "compare"} => r.seen \in Files,
         task' = [task EXCEPT ![d] = r]
  PROVE  /\ task' \in [Callbacks -> [at : Stages, seen : Files \cup {None}]]
         /\ \A c \in Callbacks : task'[c].at \in {"rest", "compare"} => task'[c].seen \in Files
OBVIOUS

\* A callback that moves to another stage keeps what it has read.
LEMMA StageOnly ==
  ASSUME task \in [Callbacks -> [at : Stages, seen : Files \cup {None}]],
         NEW c \in Callbacks, NEW x, task' = [task EXCEPT ![c].at = x]
  PROVE  task' = [task EXCEPT ![c] = [at |-> x, seen |-> task[c].seen]]
<1> DEFINE old == task[c]
<1>1. old \in [at : Stages, seen : Files \cup {None}]
  OBVIOUS
<1>2. [old EXCEPT !.at = x] = [at |-> x, seen |-> old.seen]
  <2> HIDE DEF old
  <2> QED
    BY <1>1
<1> QED
  BY <1>2, Zenon

LEMMA TypeInit == Init => TypeInv
<1> SUFFICES ASSUME Init PROVE TypeInv
  OBVIOUS
<1>1. MaxChanges \in Nat
  BY BoundsAssumption
<1>2. conf \in Files
  BY <1>1 DEF Init, Files, Numbers
<1>3. task \in [Callbacks -> [at : Stages, seen : Files \cup {None}]]
  BY DEF Init, Off, Stages
<1>4. \A c \in Callbacks : task[c].at = "idle" /\ task[c].seen = None
  BY DEF Init, Off
<1>5. writer \in [Writers -> {"idle", "write", "schedule"}]
      /\ \A w \in Writers : writer[w] = "idle"
  BY DEF Init
<1>6. workingInProgress = (\E w \in Writers : writer[w] = "write")
  BY <1>5 DEF Init
<1>7. failCount \in 0 .. MaxCount \cup {None}
  BY DEF Init, MaxCount
<1>8. redirect \in BOOLEAN /\ asked \in BOOLEAN
  BY Zenon DEF Init
<1>9. hosts \in {"idle", "schedule"}
  BY DEF Init, HostsAtStart
<1> QED
  BY <1>1, <1>2, <1>3, <1>4, <1>5, <1>6, <1>7, <1>8, <1>9 DEF Init, TypeInv, TypeOK, Stages

LEMMA TypeStep == TypeInv /\ [Next]_vars => TypeInv'
<1> SUFFICES ASSUME TypeInv, [Next]_vars PROVE TypeInv'
  OBVIOUS
<1> USE DEF TypeInv, TypeOK, confVars, netVars, dhcpVars
<1>1. ASSUME NEW w \in Writers, WriterLock(w) PROVE TypeInv'
  BY <1>1 DEF WriterLock, MayWork
<1>2. ASSUME NEW w \in Writers, WriterWrite(w) PROVE TypeInv'
  <2>1. conf' \in Files /\ changes' \in 0 .. MaxChanges
    BY <1>2, EditTypes DEF WriterWrite, Paths
  <2>2. writer' \in [Writers -> {"idle", "write", "schedule"}]
    BY <1>2 DEF WriterWrite
  <2>3. \A x \in Writers : writer'[x] # "write"
    BY <1>2 DEF WriterWrite
  <2>4. /\ UNCHANGED <<dhcpVars, md5, loaded, restartDNSTask, task, start, netVars, failures, crashes>>
        /\ workingInProgress' = FALSE
    BY <1>2 DEF WriterWrite
  <2>5. workingInProgress' = \E x \in Writers : writer'[x] = "write"
    BY <2>3, <2>4
  <2> QED
    BY <2>1, <2>2, <2>3, <2>4, <2>5
<1>3. ASSUME NEW w \in Writers, WriterSchedule(w) PROVE TypeInv'
  BY <1>3 DEF WriterSchedule, Request
<1>b. ASSUME NEW c \in Callbacks, NEW kind, Begin(c, kind)
      PROVE  /\ task' \in [Callbacks -> [at : Stages, seen : Files \cup {None}]]
             /\ \A d \in Callbacks : task'[d].at \in {"rest", "compare"} => task'[d].seen \in Files
  <2> DEFINE r == [at |-> IF kind = "force" THEN "stop" ELSE "read", seen |-> task[c].seen]
  <2>1. task' = [task EXCEPT ![c] = r]
    BY <1>b, StageOnly DEF Begin, Stages
  <2>2. r \in [at : Stages, seen : Files \cup {None}]
    BY DEF Stages
  <2> QED
    BY <2>1, <2>2, TaskTypes DEF Stages
<1>4. ASSUME NEW c \in Restarts, Fire(c) PROVE TypeInv'
  BY <1>4, <1>b DEF Fire, Callbacks, Stages
<1>17. ASSUME NEW c \in DhcpRestarts, FireDhcp(c) PROVE TypeInv'
  BY <1>17, <1>b DEF FireDhcp, Callbacks, Stages
<1>18. CASE HostsWrite
  BY <1>18, EditTypes DEF HostsWrite, Paths
<1>19. CASE HostsSchedule
  BY <1>19 DEF HostsSchedule
<1>5. ASSUME NEW c \in Callbacks, Read(c) PROVE TypeInv'
  <2> DEFINE r == IF task[c].at = "read" THEN [at |-> "rest", seen |-> conf]
                  ELSE [at |-> "compare",
                        seen |-> [task[c].seen EXCEPT !["rest"] = conf["rest"]]]
  <2>1. task' = [task EXCEPT ![c] = r]
    BY <1>5 DEF Read
  <2>2. ASSUME task[c].at = "rest"
        PROVE  [task[c].seen EXCEPT !["rest"] = conf["rest"]] \in Files
    BY <2>2 DEF Files, Paths
  <2>3. /\ r \in [at : Stages, seen : Files \cup {None}]
        /\ r.at \in {"rest", "compare"} => r.seen \in Files
    BY <1>5, <2>2 DEF Stages, Read
  <2> QED
    BY <1>5, <2>1, <2>3, TaskTypes DEF Read, Stages
<1>6. ASSUME NEW c \in Callbacks, Compare(c) PROVE TypeInv'
  <2>1. PICK r \in {Off, [at |-> "stop", seen |-> None]} : task' = [task EXCEPT ![c] = r]
    BY <1>6 DEF Compare
  <2>2. r \in [at : Stages, seen : Files \cup {None}] /\ r.at \in {"idle", "stop"}
    BY <2>1 DEF Stages, Off
  <2>3. md5' \in Files \cup {None}
    BY <1>6 DEF Compare
  <2> QED
    BY <1>6, <2>1, <2>2, <2>3, TaskTypes DEF Compare, Stages
<1>7. ASSUME NEW c \in Callbacks, StopService(c) PROVE TypeInv'
  <2> DEFINE r == [at |-> "restart", seen |-> task[c].seen]
  <2>1. task' = [task EXCEPT ![c] = r]
    BY <1>7, StageOnly DEF StopService, Stages
  <2> QED
    BY <1>7, <2>1, TaskTypes DEF StopService, Stages
<1>8. ASSUME NEW c \in Callbacks, RestartService(c) PROVE TypeInv'
  <2>1. task' = [task EXCEPT ![c] = Off] /\ Off \in [at : Stages, seen : Files \cup {None}]
    BY <1>8 DEF RestartService, Off, Stages
  <2> QED
    BY <1>8, <2>1, TaskTypes DEF RestartService, Stages, Off
<1>9. CASE StartAgain
  BY <1>9 DEF StartAgain
<1>10. CASE StartConfig
  BY <1>10, EditTypes DEF StartConfig, Request, Paths
<1>11. CASE StartRedirect
  <2>1. asked' \in BOOLEAN
    BY <1>11 DEF StartRedirect
  <2>2. /\ failCount' \in 0 .. MaxCount \cup {None}
        /\ start' \in {"forget", "add", "count", "idle"}
    BY <1>11 DEF StartRedirect, MaxCount
  <2>3. redirect' \in BOOLEAN
    BY <1>11, Zenon DEF StartRedirect
  <2> QED
    BY <1>11, <2>1, <2>2, <2>3 DEF StartRedirect
<1>12. CASE CheckVerify
  BY <1>12 DEF CheckVerify, Redirecting
<1>13. CASE CheckCount
  <2>1. failCount' \in 0 .. MaxCount \cup {None}
    BY <1>13 DEF CheckCount, NextCount, MaxCount
  <2>2. /\ check' \in {"idle", "restore", "remove"}
        /\ restartDNSTask' \in {restartDNSTask, "force"}
    BY <1>13 DEF CheckCount, Request
  <2> QED
    BY <1>13, <2>1, <2>2 DEF CheckCount
<1>14. CASE CheckRedirect
  <2>1. failCount' \in 0 .. MaxCount \cup {None} /\ check' = "idle"
    BY <1>14 DEF CheckRedirect, MaxCount
  <2>2. restartDNSTask' \in {restartDNSTask, "force"}
    BY <1>14 DEF CheckRedirect, Request
  <2>3. redirect' \in BOOLEAN
    BY <1>14, Zenon DEF CheckRedirect
  <2> QED
    BY <1>14, <2>1, <2>2, <2>3 DEF CheckRedirect
<1>15. CASE Crash
  <2>1. conf' \in Files /\ changes' \in 0 .. MaxChanges
    BY <1>15, EditTypes DEF Crash, Paths
  <2>2. /\ task' \in [Callbacks -> [at : Stages, seen : Files \cup {None}]]
        /\ \A c \in Callbacks : task'[c] = Off
    BY <1>15 DEF Crash, Off, Stages
  <2>3. \A c \in Callbacks : task'[c].at = "idle" /\ task'[c].seen = None
    BY <2>2 DEF Off
  <2>4. hosts' \in {"idle", "schedule"}
    BY <1>15 DEF Crash, HostsAtStart
  <2> QED
    BY <1>15, <2>1, <2>2, <2>3, <2>4 DEF Crash, Stages, MaxCount
<1>16. CASE UNCHANGED vars
  BY <1>16 DEF vars
<1> QED
  BY <1>1, <1>2, <1>3, <1>4, <1>5, <1>6, <1>7, <1>8, <1>9, <1>10, <1>11, <1>12, <1>13,
     <1>14, <1>15, <1>16, <1>17, <1>18, <1>19
     DEF Next, WriterStep, TaskStep, StartStep, CheckStep

\* Every variable keeps its type, and the flag workingInProgress is held by one
\* writer at most, whatever the restarts, the checks and the crashes do.
THEOREM DnsmasqTypes == Spec => []TypeOK
<1>1. TypeInv => TypeOK
  BY DEF TypeInv
<1> QED
  BY TypeInit, TypeStep, <1>1, PTL DEF Spec
-----------------------------------------------------------------------------
(* A service that runs has read the files as they are *)

\* An edit with a fresh content leaves nobody who knows the files.
LEMMA EditIsNew ==
  ASSUME Fresh, TypeInv, OnlyOldContents, NEW p \in Paths, Edit(p)
  PROVE  /\ changes' >= changes
         /\ \A q \in Paths : conf'[q] <= changes'
         /\ conf' # conf => \A f \in Files \cup {None} : Known(f) => f # conf'
<1> USE DEF TypeInv, TypeOK, OnlyOldContents, Known
<1>1. MaxChanges \in Nat /\ changes \in Nat
  BY BoundsAssumption
<1>2. conf \in Files /\ conf # None /\ \A q \in Paths : conf[q] \in Nat /\ conf[q] <= changes
  BY <1>1, FilesAssumption DEF Files, Numbers
<1>3. CASE changes < MaxChanges
  <2>1. changes' = changes + 1 /\ conf' = [conf EXCEPT ![p] = changes + 1]
    BY <1>1, <1>3 DEF Edit, NewContents
  <2>2. conf'[p] = changes + 1 /\ conf' \in Files /\ \A q \in Paths : conf'[q] <= changes'
    BY <1>1, <1>2, <2>1, EditTypes DEF Files
  <2>3. ASSUME NEW f \in Files \cup {None}, Known(f) PROVE f # conf'
    BY <1>1, <2>2, <2>3, FilesAssumption
  <2> QED
    BY <1>1, <2>1, <2>2, <2>3
<1>4. CASE changes = MaxChanges
  BY <1>1, <1>2, <1>4 DEF Edit
<1> QED
  BY <1>1, <1>3, <1>4

\* The contents that are known stay old contents.
LEMMA OldStep ==
  ASSUME Fresh, TypeInv, OnlyOldContents, [Next]_vars
  PROVE  OnlyOldContents'
<1> USE DEF TypeInv, TypeOK, confVars, netVars, dhcpVars, OnlyOldContents, Known
<1>1. MaxChanges \in Nat /\ changes \in Nat
  BY BoundsAssumption
<1>2. ASSUME NEW p \in Paths, Edit(p),
             md5' \in {md5, None}, loaded' = loaded,
             \A c \in Callbacks : task'[c].seen \in {task[c].seen, None}
      PROVE  OnlyOldContents'
  <2>1. /\ changes' \in Nat /\ changes' >= changes
        /\ \A q \in Paths : conf'[q] <= changes'
    BY <1>1, <1>2, EditIsNew, EditTypes
  <2>2. ASSUME NEW f \in Files \cup {None}, Known(f) PROVE Known(f)'
    <3>1. CASE f = None
      BY <3>1
    <3>2. CASE f \in Files
      BY <1>1, <2>1, <2>2, <3>2, FilesAssumption DEF Files, Numbers
    <3> QED
      BY <2>2, <3>1, <3>2
  <2> QED
    BY <1>2, <2>1, <2>2
<1>3. ASSUME NEW w \in Writers, WriterLock(w) PROVE OnlyOldContents'
  BY <1>3 DEF WriterLock
<1>4. ASSUME NEW w \in Writers, WriterWrite(w) PROVE OnlyOldContents'
  BY <1>2, <1>4 DEF WriterWrite, Paths
<1>5. ASSUME NEW w \in Writers, WriterSchedule(w) PROVE OnlyOldContents'
  BY <1>5 DEF WriterSchedule
<1>6. ASSUME NEW c \in Callbacks, NEW kind, Begin(c, kind), UNCHANGED confVars
      PROVE  OnlyOldContents'
  <2>1. \A d \in Callbacks : task'[d].seen = task[d].seen
    BY <1>6 DEF Begin
  <2> QED
    BY <1>6, <2>1
<1>17. ASSUME \/ \E c \in Restarts : Fire(c)
              \/ \E c \in DhcpRestarts : FireDhcp(c)
       PROVE  OnlyOldContents'
  BY <1>6, <1>17 DEF Fire, FireDhcp, Callbacks
<1>18. CASE HostsWrite
  BY <1>2, <1>18 DEF HostsWrite, Paths
<1>19. CASE HostsSchedule
  BY <1>19 DEF HostsSchedule
<1>7. ASSUME NEW c \in Callbacks, Read(c) PROVE OnlyOldContents'
  <2>1. \A d \in Callbacks \ {c} : task'[d] = task[d]
    BY <1>7 DEF Read
  <2>2. Known(task'[c].seen)
    <3>1. CASE task[c].at = "read"
      BY <1>7, <3>1 DEF Read
    <3>2. CASE task[c].at = "rest"
      <4>1. task'[c].seen = [task[c].seen EXCEPT !["rest"] = conf["rest"]]
        BY <1>7, <3>2 DEF Read
      <4>2. task[c].seen \in Files /\ task[c].seen # None
        BY <3>2, FilesAssumption
      <4>3. conf # None
        BY FilesAssumption
      <4> QED
        BY <4>1, <4>2, <4>3 DEF Files, Paths
    <3> QED
      BY <1>7, <3>1, <3>2 DEF Read
  <2> QED
    BY <1>7, <2>1, <2>2 DEF Read
<1>8. ASSUME NEW c \in Callbacks, Compare(c) PROVE OnlyOldContents'
  <2>1. \A d \in Callbacks : task'[d].seen \in {task[d].seen, None}
    BY <1>8 DEF Compare, Off
  <2>2. md5' \in {md5, task[c].seen}
    BY <1>8 DEF Compare
  <2> QED
    BY <1>8, <2>1, <2>2 DEF Compare
<1>9. ASSUME NEW c \in Callbacks, StopService(c) PROVE OnlyOldContents'
  <2>1. \A d \in Callbacks : task'[d].seen = task[d].seen
    BY <1>9 DEF StopService
  <2> QED
    BY <1>9, <2>1 DEF StopService
<1>10. ASSUME NEW c \in Callbacks, RestartService(c) PROVE OnlyOldContents'
  <2>1. \A d \in Callbacks : task'[d].seen \in {task[d].seen, None}
    BY <1>10 DEF RestartService, Off
  <2>2. loaded' \in {conf, None, loaded}
    BY <1>10 DEF RestartService
  <2> QED
    BY <1>10, <2>1, <2>2 DEF RestartService
<1>11. CASE StartAgain
  BY <1>11 DEF StartAgain
<1>12. CASE StartConfig
  BY <1>2, <1>12 DEF StartConfig, Paths
<1>13. CASE StartRedirect
  BY <1>13 DEF StartRedirect
<1>14. CASE CheckStep
  BY <1>14 DEF CheckStep, CheckVerify, CheckCount, CheckRedirect
<1>15. CASE Crash
  <2>1. \A c \in Callbacks : task'[c].seen = None
    BY <1>15 DEF Crash, Off
  <2> QED
    BY <1>2, <1>15, <2>1 DEF Crash, Paths
<1>16. CASE UNCHANGED vars
  BY <1>16 DEF vars
<1> QED
  BY <1>3, <1>4, <1>5, <1>7, <1>8, <1>9, <1>10, <1>11, <1>12, <1>13, <1>14, <1>15, <1>16, <1>17,
     <1>18, <1>19
     DEF Next, WriterStep, TaskStep, StartStep

LEMMA LoadedInit == Init => LoadedInv
<1> SUFFICES ASSUME Init PROVE LoadedInv
  OBVIOUS
<1>1. /\ conf = [p \in Paths |-> 0] /\ changes \in Nat /\ md5 = None
      /\ loaded \in {conf, None}
  BY BoundsAssumption DEF Init
<1>2. \A c \in Callbacks : task[c].seen = None
  BY DEF Init, Off
<1>3. OnlyOldContents
  BY <1>1, <1>2 DEF OnlyOldContents, Known
<1>4. ~Stale
  BY <1>1 DEF Stale
<1> QED
  BY <1>3, <1>4, TypeInit DEF LoadedInv, StaleIsCovered, NotedIsRestarting

\* An edit whose author asks for a restart later.
LEMMA CoveredAfterEdit ==
  ASSUME Fresh, LoadedInv, NEW p \in Paths, Edit(p), Asked',
         loaded' = loaded, md5' \in {md5, None}, task' = task \/ md5' = None
  PROVE  StaleIsCovered' /\ NotedIsRestarting'
<1> USE DEF LoadedInv
<1>1. StaleIsCovered'
  BY DEF StaleIsCovered
<1>2. NotedIsRestarting'
  <2>1. conf \in Files /\ conf' \in Files /\ md5 \in Files \cup {None}
    BY EditTypes DEF TypeInv, TypeOK
  <2>2. CASE conf' = conf
    BY <2>1, <2>2, FilesAssumption DEF NotedIsRestarting, Stale, Restarting
  <2>3. CASE conf' # conf
    BY <2>1, <2>3, EditIsNew, FilesAssumption DEF NotedIsRestarting, OnlyOldContents
  <2> QED
    BY <2>2, <2>3
<1> QED
  BY <1>1, <1>2

LEMMA LoadedStep ==
  ASSUME Fresh, OneUnit
  PROVE  LoadedInv /\ [Next]_vars => LoadedInv'
<1> SUFFICES ASSUME LoadedInv, [Next]_vars PROVE StaleIsCovered' /\ NotedIsRestarting'
  BY TypeStep, OldStep DEF LoadedInv
<1> USE DEF confVars, netVars, dhcpVars
<1>0. /\ TypeInv /\ OnlyOldContents /\ StaleIsCovered /\ NotedIsRestarting
      /\ conf \in Files /\ md5 \in Files \cup {None} /\ loaded \in Files \cup {None}
      /\ task \in [Callbacks -> [at : Stages, seen : Files \cup {None}]]
      /\ \A c \in Callbacks : task[c].at \in {"rest", "compare"} => task[c].seen \in Files
  BY DEF LoadedInv, TypeInv, TypeOK, Stages
\* What covers a service with old files goes on to.
<1>1. ASSUME UNCHANGED <<conf, md5, loaded, task>>, Asked => Asked'
      PROVE  StaleIsCovered' /\ NotedIsRestarting'
  BY <1>0, <1>1 DEF StaleIsCovered, NotedIsRestarting, Stale, ReadsLatest, Restarting
<1>2. ASSUME NEW w \in Writers, WriterLock(w) PROVE StaleIsCovered' /\ NotedIsRestarting'
  BY <1>0, <1>1, <1>2 DEF WriterLock, Asked, TypeInv
<1>3. ASSUME NEW w \in Writers, WriterWrite(w) PROVE StaleIsCovered' /\ NotedIsRestarting'
  <2>1. writer'[w] = "schedule"
    BY <1>0, <1>3 DEF WriterWrite, TypeInv
  <2> QED
    BY <1>3, <2>1, CoveredAfterEdit DEF WriterWrite, Paths, Asked
<1>4. ASSUME NEW w \in Writers, WriterSchedule(w) PROVE StaleIsCovered' /\ NotedIsRestarting'
  BY <1>0, <1>1, <1>4 DEF WriterSchedule, Request, Asked
<1>5. ASSUME NEW c \in Callbacks, NEW kind, Begin(c, kind), UNCHANGED <<conf, md5, loaded>>
      PROVE  StaleIsCovered' /\ NotedIsRestarting'
  <2>1. /\ task'[c].at \in {"stop", "read"}
        /\ \A d \in Callbacks \ {c} : task'[d] = task[d]
        /\ task[c].at = "idle"
    BY <1>0, <1>5 DEF Begin
  <2>2. \A d \in Callbacks : Restarting(d) => Restarting(d)'
    BY <2>1 DEF Restarting
  <2>3. ReadsLatest(c)' \/ Restarting(c)'
    BY <2>1 DEF ReadsLatest, Restarting
  <2> QED
    BY <1>0, <1>5, <2>1, <2>2, <2>3 DEF StaleIsCovered, NotedIsRestarting, Stale
<1>16. ASSUME \/ \E c \in Restarts : Fire(c)
              \/ \E c \in DhcpRestarts : FireDhcp(c)
       PROVE  StaleIsCovered' /\ NotedIsRestarting'
  BY <1>5, <1>16 DEF Fire, FireDhcp, Callbacks
<1>17. CASE HostsWrite
  BY <1>17, CoveredAfterEdit DEF HostsWrite, Paths, Asked
<1>18. CASE HostsSchedule
  BY <1>0, <1>1, <1>18 DEF HostsSchedule, Asked
<1>6. ASSUME NEW c \in Callbacks, Read(c) PROVE StaleIsCovered' /\ NotedIsRestarting'
  <2>1. /\ UNCHANGED <<conf, md5, loaded, restartDNSTask, dhcpVars, start, writer>>
        /\ task[c].at \in {"read", "rest"}
        /\ \A d \in Callbacks \ {c} : task'[d] = task[d]
    BY <1>0, <1>6 DEF Read
  <2>2. \A d \in Callbacks : Restarting(d) => Restarting(d)'
    BY <2>1 DEF Restarting
  <2>3. ReadsLatest(c) => ReadsLatest(c)'
    <3>1. CASE task[c].at = "read"
      BY <1>0, <1>6, <3>1 DEF Read, ReadsLatest
    <3>2. CASE task[c].at = "rest"
      <4>1. /\ task'[c].at = "compare"
            /\ task'[c].seen = [task[c].seen EXCEPT !["rest"] = conf["rest"]]
        BY <1>0, <1>6, <3>2 DEF Read
      <4>2. task[c].seen["filter"] = conf["filter"] => task'[c].seen = conf
        BY <1>0, <3>2, <4>1 DEF Files, Paths
      <4> QED
        BY <2>1, <3>2, <4>1, <4>2 DEF ReadsLatest
    <3> QED
      BY <2>1, <3>1, <3>2
  <2>4. \A d \in Callbacks : ReadsLatest(d) => ReadsLatest(d)'
    BY <2>1, <2>3 DEF ReadsLatest
  <2>5. Asked => Asked'
    BY <2>1 DEF Asked
  <2> QED
    BY <1>0, <2>1, <2>2, <2>4, <2>5 DEF StaleIsCovered, NotedIsRestarting, Stale
<1>7. ASSUME NEW c \in Callbacks, Compare(c) PROVE StaleIsCovered' /\ NotedIsRestarting'
  <2>1. /\ UNCHANGED <<conf, loaded, restartDNSTask, dhcpVars, start, writer>>
        /\ task[c].at = "compare" /\ task[c].seen \in Files
        /\ \A d \in Callbacks \ {c} : task'[d] = task[d]
    BY <1>0, <1>7 DEF Compare
  <2>2. \A d \in Callbacks : Restarting(d) => Restarting(d)'
    BY <2>1 DEF Restarting
  <2>3. CASE task'[c].at = "stop"
    BY <2>1, <2>3 DEF StaleIsCovered, NotedIsRestarting, Restarting
  <2>4. CASE md5' = md5 /\ task[c].seen = md5
    \* The files are the noted ones: a service with others is being restarted.
    <3>1. ReadsLatest(c) => md5 = conf
      BY <2>1, <2>4 DEF ReadsLatest
    <3>2. \A d \in Callbacks \ {c} : ReadsLatest(d) => ReadsLatest(d)'
      BY <2>1 DEF ReadsLatest
    <3>3. Asked => Asked'
      BY <2>1 DEF Asked
    <3> QED
      BY <1>0, <2>1, <2>2, <2>4, <3>1, <3>2, <3>3 DEF StaleIsCovered, NotedIsRestarting, Stale
  <2>5. task'[c].at = "stop" \/ (md5' = md5 /\ task[c].seen = md5)
    BY <1>0, <1>7 DEF Compare, Changed
  <2> QED
    BY <2>3, <2>4, <2>5
<1>8. ASSUME NEW c \in Callbacks, StopService(c) PROVE StaleIsCovered' /\ NotedIsRestarting'
  BY <1>8 DEF StopService, RestartsDns, StaleIsCovered, NotedIsRestarting, Stale
<1>9. ASSUME NEW c \in Callbacks, RestartService(c) PROVE StaleIsCovered' /\ NotedIsRestarting'
  BY <1>9 DEF RestartService, RestartsDns, StaleIsCovered, NotedIsRestarting, Stale
<1>10. CASE StartAgain
  BY <1>0, <1>1, <1>10 DEF StartAgain, Asked
<1>11. CASE StartConfig
  BY <1>11, CoveredAfterEdit DEF StartConfig, Paths, Asked, Request
<1>12. CASE StartRedirect
  BY <1>1, <1>12 DEF StartRedirect, Asked
<1>13. CASE CheckStep
  BY <1>1, <1>13 DEF CheckStep, CheckVerify, CheckCount, CheckRedirect, Asked, Request
<1>14. CASE Crash
  BY <1>14, CoveredAfterEdit DEF Crash, Paths, Asked
<1>15. CASE UNCHANGED vars
  BY <1>1, <1>15 DEF vars, Asked
<1> QED
  BY <1>2, <1>3, <1>4, <1>6, <1>7, <1>8, <1>9, <1>10, <1>11, <1>12, <1>13, <1>14, <1>15, <1>16,
     <1>17, <1>18
     DEF Next, WriterStep, TaskStep, StartStep

\* When nobody is writing, restarting or about to, a running service has read the
\* files as they are, provided that the DHCP service is the same unit, so that
\* whoever notes a md5 restarts it, and that no file returns to an earlier content:
\* the comparison of md5 could take that for a service that has read them already.
THEOREM LatestIsLoaded ==
  ASSUME Fresh, OneUnit
  PROVE  Spec => []LatestLoaded
<1>1. LoadedInv => LatestLoaded
  BY DEF LoadedInv, StaleIsCovered, Stale, Asked, ReadsLatest, Restarting, LatestLoaded, Quiet
<1>2. LoadedInv /\ [Next]_vars => LoadedInv'
  BY LoadedStep
<1> QED
  BY LoadedInit, <1>1, <1>2, PTL DEF Spec
-----------------------------------------------------------------------------
(* The redirect of a network whose DNS is dead is out *)

LEMMA BypassInit == Init => BypassInv
<1> SUFFICES ASSUME Init PROVE CountsOnce /\ DeadIsBypassed
  BY TypeInit DEF BypassInv
<1>1. start \in {"resolv", "idle"} /\ failCount \in {None, 0}
  BY DEF Init
<1> QED
  BY <1>1, NoneAssumption DEF CountsOnce, DeadIsBypassed, MaxCount

LEMMA BypassStep ==
  ASSUME ~Slow
  PROVE  BypassInv /\ [Next]_vars => BypassInv'
<1> SUFFICES ASSUME BypassInv, [Next]_vars PROVE CountsOnce' /\ DeadIsBypassed'
  BY TypeStep DEF BypassInv
<1> USE DEF confVars, netVars, dhcpVars
<1>0. /\ CountsOnce /\ DeadIsBypassed
      /\ failCount \in 0 .. MaxCount \cup {None} /\ None \notin 0 .. MaxCount
  BY NoneAssumption DEF BypassInv, TypeInv, TypeOK, MaxCount
<1>1. CASE UNCHANGED <<check, failCount, redirect, asked>> /\ start' \notin {"add", "count"}
  BY <1>0, <1>1 DEF CountsOnce, DeadIsBypassed
<1>2. CASE UNCHANGED <<netVars, start>>
  BY <1>0, <1>2 DEF CountsOnce, DeadIsBypassed
<1>3. CASE StartAgain
  BY <1>1, <1>3 DEF StartAgain
<1>4. CASE StartConfig
  BY <1>1, <1>4 DEF StartConfig
<1>5. CASE StartRedirect
  <2>1. CASE start = "flush"
    BY <1>0, <1>5, <2>1 DEF StartRedirect, CountsOnce, DeadIsBypassed
  <2>2. CASE start = "forget"
    BY <1>0, <1>5, <2>2 DEF StartRedirect, CountsOnce, DeadIsBypassed, MaxCount
  <2>3. CASE start = "add"
    <3>1. /\ failCount' = failCount /\ check' = check /\ start' = "count" /\ redirect' = TRUE
          /\ asked' = asked
      BY <1>5, <2>3 DEF StartRedirect, BypassInv, TypeInv, TypeOK
    <3> QED
      BY <1>0, <2>3, <3>1 DEF CountsOnce, DeadIsBypassed, MaxCount
  <2>4. CASE start = "count"
    BY <1>5, <2>4 DEF StartRedirect, CountsOnce, DeadIsBypassed, MaxCount
  <2> QED
    BY <1>5, <2>1, <2>2, <2>3, <2>4 DEF StartRedirect
<1>6. CASE CheckVerify
  <2>1. /\ check = "idle" /\ check' \in {"resolved", "failed"} /\ ~asked
        /\ asked' = Redirecting
        /\ UNCHANGED <<start, failCount, redirect>>
    BY <1>6 DEF CheckVerify
  <2> QED
    BY <1>0, <2>1 DEF CountsOnce, DeadIsBypassed, Redirecting
<1>7. CASE CheckCount
  <2>1. CASE failCount = None
    BY <1>0, <1>7, <2>1 DEF CheckCount, CountsOnce, DeadIsBypassed
  <2>2. CASE failCount # None /\ check = "resolved"
    BY <1>0, <1>7, <2>2 DEF CheckCount, CountsOnce, DeadIsBypassed, Unreachable, MaxCount
  <2>3. CASE failCount # None /\ check = "failed"
    <3>1. /\ failCount' = NextCount /\ UNCHANGED <<start, redirect, asked>>
          /\ check' = IF NextCount > 2 THEN "remove" ELSE "idle"
      BY <1>7, <2>3 DEF CheckCount, Unreachable
    <3>2. failCount = 0 => NextCount = 1
      BY DEF NextCount, MaxCount
    <3> QED
      BY <1>0, <2>3, <3>1, <3>2 DEF CountsOnce, DeadIsBypassed, MaxCount
  <2> QED
    BY <1>7, <2>1, <2>2, <2>3 DEF CheckCount
<1>8. CASE CheckRedirect
  <2>1. CASE check = "restore"
    BY <1>8, <2>1 DEF CheckRedirect, CountsOnce, DeadIsBypassed, MaxCount
  <2>2. CASE check = "remove"
    BY <1>0, <1>8, <2>2 DEF CheckRedirect, CountsOnce, DeadIsBypassed, MaxCount
  <2> QED
    BY <1>8, <2>1, <2>2 DEF CheckRedirect
<1>9. CASE Crash
  BY <1>0, <1>9 DEF Crash, CountsOnce, DeadIsBypassed, MaxCount
<1>10. ASSUME NEW w \in Writers, WriterStep(w) PROVE CountsOnce' /\ DeadIsBypassed'
  BY <1>2, <1>10 DEF WriterStep, WriterLock, WriterWrite, WriterSchedule
<1>11. ASSUME \/ \E c \in Restarts : Fire(c)
              \/ \E c \in DhcpRestarts : FireDhcp(c)
              \/ \E c \in Callbacks : TaskStep(c)
              \/ HostsWrite \/ HostsSchedule
       PROVE  CountsOnce' /\ DeadIsBypassed'
  BY <1>2, <1>11 DEF Fire, FireDhcp, HostsWrite, HostsSchedule, TaskStep, Read, Compare, StopService, RestartService
<1>12. CASE UNCHANGED vars
  BY <1>2, <1>12 DEF vars
<1> QED
  BY <1>3, <1>4, <1>5, <1>6, <1>7, <1>8, <1>9, <1>10, <1>11, <1>12 DEF Next, StartStep, CheckStep

\* A network whose DNS failed three times has no redirect to it while its count
\* stays there, provided that start() changes the redirect within the minute
\* between two checks.
THEOREM DeadAreBypassed ==
  ASSUME ~Slow
  PROVE  Spec => []DeadIsBypassed
<1>1. BypassInv => DeadIsBypassed
  BY DEF BypassInv
<1>2. BypassInv /\ [Next]_vars => BypassInv'
  BY BypassStep
<1> QED
  BY BypassInit, <1>1, <1>2, PTL DEF Spec
-----------------------------------------------------------------------------
(* The service is a ConfigService *)

LEMMA ServiceStep == TypeInv /\ [Next]_vars => [Service!Next]_Service!cvars
<1> SUFFICES ASSUME TypeInv, [Next]_vars, UNCHANGED <<conf, loaded>> => FALSE
             PROVE  Service!Next
  BY DEF Service!cvars
<1> USE DEF confVars, netVars, dhcpVars
<1>0. /\ conf \in Files /\ loaded \in Files \cup {None} /\ conf # None
      /\ conf' \in Files
  BY TypeStep, FilesAssumption DEF TypeInv, TypeOK
<1>1. CASE UNCHANGED loaded
  BY <1>0, <1>1 DEF Service!Next, Service!Change
<1>2. CASE UNCHANGED conf /\ loaded' = None
  BY <1>2 DEF Service!Next, Service!Halt
<1>3. CASE UNCHANGED conf /\ loaded' = conf
  BY <1>3 DEF Service!Next, Service!Load
<1>4. ASSUME NEW w \in Writers, WriterStep(w) PROVE Service!Next
  BY <1>1, <1>4 DEF WriterStep, WriterLock, WriterWrite, WriterSchedule
<1>7. ASSUME \/ \E c \in Restarts : Fire(c)
             \/ \E c \in DhcpRestarts : FireDhcp(c)
             \/ HostsWrite \/ HostsSchedule
      PROVE  Service!Next
  BY <1>1, <1>7 DEF Fire, FireDhcp, HostsWrite, HostsSchedule
<1>5. ASSUME NEW c \in Callbacks, TaskStep(c) PROVE Service!Next
  BY <1>1, <1>2, <1>3, <1>5 DEF RestartsDns, TaskStep, Read, Compare, StopService, RestartService
<1>6. CASE StartAgain \/ StartStep \/ CheckStep \/ Crash
  BY <1>1, <1>6 DEF StartAgain, StartStep, StartConfig, StartRedirect, CheckStep, CheckVerify,
                    CheckCount, CheckRedirect, Crash
<1> QED
  BY <1>4, <1>5, <1>6, <1>7 DEF Next, vars

\* The initial states and every step are those of a service that reads its
\* configuration only when it starts: what it serves is what was written when it
\* started, or nothing, and no edit changes that before the next start. With the
\* fairness of Load this is ServesLatest, which is left to the runs.
THEOREM DnsmasqIsConfigService ==
  Spec => Service!Init /\ [][Service!Next]_Service!cvars
<1>1. Init => Service!Init
  BY TypeInit DEF Init, Service!Init, TypeInv, TypeOK
<1> QED
  BY <1>1, TypeInit, TypeStep, ServiceStep, PTL DEF Spec
=============================================================================

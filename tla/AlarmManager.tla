---------------------------- MODULE AlarmManager -----------------------------
(***************************************************************************)
(* Alarms, alarm/AlarmManager2.js.  Several processes (FireMon, FireMain,  *)
(* FireApi) each own a queue of alarms to create, with one consumer; some  *)
(* callers skip the queue.  At the same time the app blocks, allows,       *)
(* ignores and deletes alarms through FireApi.  All of them share redis:   *)
(* the alarms, the list of active ones and the list of archived ones, the  *)
(* policies that block and the exceptions that allow.                      *)
(*                                                                         *)
(* A step is the code between two accesses to redis; reading a list and    *)
(* then the records of its alarms is one step.  What an alarm is about is  *)
(* its kind: two alarms of one kind are duplicates, and policies and       *)
(* exceptions are made for a kind.  Saving and deleting a policy or an     *)
(* exception is one step here (PolicyManager has the detail).  The extra   *)
(* record of details of an alarm is left out.                              *)
(***************************************************************************)
EXTENDS Naturals, Sequences, FiniteSets

CONSTANTS Kinds,       \* what alarms can be about
          Queues,      \* the processes that own a queue of alarms
          Workers,     \* creations that may be under way
          Apps,        \* operations of the app that may be under way
          None,
          FirstIds,    \* what alarm:id may be at the start, 0 when the box is new
          Slow,        \* whether a creation may take more than the 60 s of its job
          MaxAlarms, MaxRules, MaxOps, \* bounds
          MaxJobs,     \* bound: alarms to create in all
          MaxDirect    \* bound: those created beside the queue

ASSUME AlarmAssumption ==
    /\ FirstIds \subseteq Nat
    /\ {MaxAlarms, MaxRules, MaxJobs, MaxDirect, MaxOps} \subseteq Nat /\ MaxAlarms > 0
    /\ Slow \in BOOLEAN
    /\ Workers \cap Apps = {} /\ None \notin Kinds \cup Queues \cup Workers \cup Apps

VARIABLES alarms,   \* redis _alarm:<aid>
          active,   \* redis alarm_active
          archive,  \* redis alarm_archive
          ttl,      \* aids whose record has an expiry in redis
          recent,   \* aids in the window in which duplicates are looked for
          id,       \* redis alarm:id, 0 when it does not exist
          rules,    \* policies (class "block") and exceptions ("allow") by id
          queue,    \* process -> kinds of alarms waiting
          current,  \* process -> worker its queue waits for
          proc,     \* worker or app -> where its code is
          firstId,  \* alarm:id at the start
          expired,  \* aids whose record has expired once
          jobs, direct, ops \* counters for the bounds

lists == <<active, archive>>
counters == <<firstId, expired, jobs, direct, ops>>
vars == <<alarms, active, archive, ttl, recent, id, rules, queue, current, proc, firstId,
          expired, jobs, direct, ops>>

Aids == UNION {1 .. i + MaxAlarms : i \in FirstIds}
RuleIds == 1 .. MaxRules
Procs == Workers \cup Apps

\* result is not empty once the alarm is handled, auto that it was not
\* the user who did; policy and exception what handled it (0: none).
Alarm == [kind : Kinds, result : {"", "block", "allow", "archiveByException"}, auto : BOOLEAN,
          policy : {0} \cup RuleIds, exception : {0} \cup RuleIds]

ASSUME NoneAssumption == None \notin Alarm

Fresh(k) == [kind |-> k, result |-> "", auto |-> FALSE, policy |-> 0, exception |-> 0]

Points == {"idle", "hung", "dedup", "exceptions", "policies", "getId", "setId", "incrId",
           "hmset", "zadd", "load", "same", "save", "update", "archive", "similar",
           "updateNext", "archiveNext", "delete", "clear", "related", "archiveRelated",
           "remove", "removeActive", "del", "all", "zremHost", "delHost", "zremDead",
           "zremDeadArchived"}

\* Where a process is: op is what it does, aid and alarm the alarm it has loaded,
\* rule the policy or exception, todo the similar alarms still to be handled.
Frame == [pc : Points, op : {"", "create", "block", "allow", "archiveByException", "unblock", "unallow",
                "ignore", "remove", "ignoreAll", "deleteActiveAll", "deleteArchivedAll",
                "deleteHost", "cleanIndex"},
          auto : BOOLEAN, aid : {0} \cup Aids, alarm : Alarm \cup {None},
          rule : {0} \cup RuleIds, todo : SUBSET (Aids \X (Alarm \cup {None}))]

Idle == [pc |-> "idle", op |-> "", auto |-> FALSE, aid |-> 0, alarm |-> None,
         rule |-> 0, todo |-> {}]

Init ==
    /\ alarms = [a \in Aids |-> None]
    /\ active = {} /\ archive = {} /\ recent = {} /\ ttl = {} /\ expired = {}
    /\ firstId \in FirstIds /\ id = firstId
    /\ rules = [r \in RuleIds |-> None]
    /\ queue = [q \in Queues |-> <<>>]
    /\ current = [q \in Queues |-> None]
    /\ proc = [x \in Procs |-> Idle]
    /\ jobs = 0 /\ direct = 0 /\ ops = 0

Goto(x, f) == proc' = [proc EXCEPT ![x] = f]
At(x, pc) == proc[x].pc = pc
HasRule(class, k) == \E r \in RuleIds : rules[r] = [class |-> class, kind |-> k]

-----------------------------------------------------------------------------
(* The queues *)

Enqueue(q, k) ==
    /\ jobs + direct < MaxJobs
    /\ jobs' = jobs + 1
    /\ queue' = [queue EXCEPT ![q] = Append(@, k)]
    /\ UNCHANGED <<alarms, lists, ttl, recent, id, rules, current, proc, firstId, expired,
                   direct, ops>>

Creation(k) == [Idle EXCEPT !.pc = "dedup", !.op = "create", !.alarm = Fresh(k)]

\* An alarm that was enriched to be ignored returns without done(): the queue
\* waits for it.
TakeJob(q, w) ==
    /\ current[q] = None /\ queue[q] # <<>> /\ At(w, "idle")
    /\ \A other \in Queues : current[other] # w
    /\ current' = [current EXCEPT ![q] = w]
    /\ queue' = [queue EXCEPT ![q] = Tail(@)]
    /\ \/ Goto(w, Creation(Head(queue[q])))
       \/ Goto(w, [Idle EXCEPT !.pc = "hung"])
    /\ UNCHANGED <<alarms, lists, ttl, recent, id, rules, counters>>

JobDone(q) ==
    /\ current[q] # None /\ At(current[q], "idle")
    /\ current' = [current EXCEPT ![q] = None]
    /\ UNCHANGED <<alarms, lists, ttl, recent, id, rules, queue, proc, counters>>

\* Variant: jobs have no timeout.
JobTimeout_none(q) == FALSE /\ UNCHANGED vars

\* After the 60 s of the job the queue goes on, and so does a handler that is
\* still at work (the cloud may be slow to arbitrate).
JobTimeout(q) ==
    /\ current[q] # None
    /\ At(current[q], "hung") \/ Slow
    /\ current' = [current EXCEPT ![q] = None]
    /\ proc' = [proc EXCEPT ![current[q]] = IF @.pc = "hung" THEN Idle ELSE @]
    /\ UNCHANGED <<alarms, lists, ttl, recent, id, rules, queue, counters>>

\* FlowMonitor calls checkAndSaveAsync itself, beside the queue.
CallDirectly(w, k) ==
    /\ direct < MaxDirect /\ jobs + direct < MaxJobs /\ At(w, "idle")
    /\ \A q \in Queues : current[q] # w
    /\ direct' = direct + 1
    /\ Goto(w, Creation(k))
    /\ UNCHANGED <<alarms, lists, ttl, recent, id, rules, queue, current, firstId, expired,
                   jobs, ops>>

-----------------------------------------------------------------------------
(* checkAndSaveAsync and saveAlarm *)

Stays == UNCHANGED <<queue, current, counters, ttl>>
StaysButTtl == UNCHANGED <<queue, current, counters>>

\* Variant: archived alarms are looked at instead of active ones.
IsDup_archived(k) == \E a \in archive \cap recent : alarms[a] # None /\ alarms[a].kind = k

IsDup(k) == \E a \in active \cap recent : alarms[a] # None /\ alarms[a].kind = k

Dedup(w) ==
    LET f == proc[w] IN
    /\ At(w, "dedup")
    /\ Goto(w, IF IsDup(f.alarm.kind) THEN Idle ELSE [f EXCEPT !.pc = "exceptions"])
    /\ UNCHANGED <<alarms, lists, recent, id, rules>> /\ Stays

MatchExceptions(w) ==
    LET f == proc[w] IN
    /\ At(w, "exceptions")
    /\ Goto(w, IF HasRule("allow", f.alarm.kind) THEN Idle ELSE [f EXCEPT !.pc = "policies"])
    /\ UNCHANGED <<alarms, lists, recent, id, rules>> /\ Stays

\* pm2.match, then the cloud arbitrates: it may refuse the alarm.
MatchPolicies(w) ==
    LET f == proc[w] IN
    /\ At(w, "policies")
    /\ \/ Goto(w, Idle)
       \/ ~HasRule("block", f.alarm.kind) /\ Goto(w, [f EXCEPT !.pc = "getId"])
    /\ UNCHANGED <<alarms, lists, recent, id, rules>> /\ Stays

GetId(w) ==
    /\ At(w, "getId")
    /\ Goto(w, [proc[w] EXCEPT !.pc = IF id = 0 THEN "setId" ELSE "incrId"])
    /\ UNCHANGED <<alarms, lists, recent, id, rules>> /\ Stays

SetId(w) ==
    /\ At(w, "setId")
    /\ id' = 1
    /\ Goto(w, [proc[w] EXCEPT !.pc = "hmset", !.aid = 1])
    /\ UNCHANGED <<alarms, lists, recent, rules>> /\ Stays

\* Variant: the new id is not returned.
IncrId_lost(w) ==
    /\ At(w, "incrId") /\ id + 1 \in Aids
    /\ id' = id + 1
    /\ Goto(w, [proc[w] EXCEPT !.pc = "hmset"])
    /\ UNCHANGED <<alarms, lists, recent, rules>> /\ Stays

IncrId(w) ==
    /\ At(w, "incrId") /\ id + 1 \in Aids
    /\ id' = id + 1
    /\ Goto(w, [proc[w] EXCEPT !.pc = "hmset", !.aid = id + 1])
    /\ UNCHANGED <<alarms, lists, recent, rules>> /\ Stays

\* hmset and expireat, after which the alarm can be listed.
Save(w) ==
    LET f == proc[w] IN
    /\ At(w, "hmset")
    /\ alarms' = [alarms EXCEPT ![f.aid] = f.alarm]
    /\ ttl' = ttl \cup {f.aid}
    /\ Goto(w, [f EXCEPT !.pc = "zadd"])
    /\ UNCHANGED <<lists, recent, id, rules>> /\ StaysButTtl

\* addToActiveQueue; then shouldAutoBlock decides whether to block at once.
AddToActiveQueue(w) ==
    LET f == proc[w] IN
    /\ At(w, "zadd")
    /\ active' = active \cup {f.aid}
    /\ recent' = recent \cup {f.aid}
    /\ \/ Goto(w, Idle)
       \/ Goto(w, [f EXCEPT !.pc = "load", !.op = "block", !.auto = TRUE])
    /\ UNCHANGED <<alarms, archive, id, rules>> /\ Stays

\* A creation that has not looked for duplicates yet (bound: alarms leave the
\* window of duplicates only as long as there is one).
DedupToCome == jobs + direct < MaxJobs \/ (\E q \in Queues : queue[q] # <<>>)
               \/ (\E w \in Workers : At(w, "dedup"))

\* The window of duplicates passes.
Age(a) ==
    /\ a \in recent
    /\ DedupToCome
    /\ recent' = recent \ {a}
    /\ UNCHANGED <<alarms, lists, ttl, id, rules, queue, current, proc, counters>>

\* A month after its creation, which is long done, and with it the window of
\* duplicates, redis drops the record of an alarm; the lists keep its id.
Expire(a) ==
    /\ a \in ttl /\ \A w \in Workers : proc[w].aid # a
    /\ alarms' = [alarms EXCEPT ![a] = None]
    /\ ttl' = ttl \ {a} /\ expired' = expired \cup {a}
    /\ recent' = recent \ {a}
    /\ UNCHANGED <<lists, id, rules, queue, current, proc, firstId, jobs, direct, ops>>

-----------------------------------------------------------------------------
(* Operations on an alarm *)

\* The alarms that are listed as active and are about k.
Like(k) == {<<a, alarms[a]>> : a \in {b \in active : alarms[b] # None /\ alarms[b].kind = k}}

\* The records of the alarms of todo go.
Deleted(todo) == [a \in Aids |-> IF \E t \in todo : t[1] = a THEN None ELSE alarms[a]]

\* Block, allow, ignore, unblock, unallow or remove an alarm the app has seen,
\* or delete a host with the alarms about it (their list is read here).
Start(x, a) ==
    /\ At(x, "idle") /\ ops < MaxOps
    /\ ops' = ops + 1
    /\ a \in active \cup archive
    /\ \/ \E op \in {"block", "allow", "ignore", "unblock", "unallow"} :
             Goto(x, [Idle EXCEPT !.pc = "load", !.op = op, !.aid = a])
       \/ Goto(x, [Idle EXCEPT !.pc = "remove", !.op = "remove", !.aid = a])
       \/ a \in active /\ alarms[a] # None /\ Goto(x, [Idle EXCEPT
             !.pc = "zremHost", !.op = "deleteHost", !.todo = Like(alarms[a].kind)])
    /\ UNCHANGED <<alarms, lists, ttl, recent, id, rules, queue, current, firstId, expired,
                   jobs, direct>>

\* What an operation does with the alarm it has loaded.  To ignore an alarm is
\* to archive it, or the active alarms it is related to (matchAll).
AfterLoad(op) == CASE op \in {"block", "allow"}     -> {"same"}
                   [] op = "ignore"                 -> {"archive", "related"}
                   [] op \in {"unblock", "unallow"} -> {"delete"}

\* getAlarm, or an error when the record is gone.
Load(x) ==
    LET f == proc[x] IN
    /\ At(x, "load")
    /\ IF alarms[f.aid] = None THEN Goto(x, Idle)
       ELSE \E next \in AfterLoad(f.op) :
               Goto(x, [f EXCEPT !.pc = next, !.alarm = alarms[f.aid]])
    /\ UNCHANGED <<alarms, lists, recent, id, rules>> /\ Stays

\* checkAndSave of the policy or exception: is there one already?
FindSame(x) ==
    LET f == proc[x]
        same == {r \in RuleIds : rules[r] = [class |-> f.op, kind |-> f.alarm.kind]}
    IN
    /\ At(x, "same")
    /\ \/ same = {} /\ Goto(x, [f EXCEPT !.pc = "save"])
       \/ \E r \in same : Goto(x, [f EXCEPT !.pc = "update", !.rule = r])
    /\ UNCHANGED <<alarms, lists, recent, id, rules>> /\ Stays

SaveRule(x) ==
    LET f == proc[x] IN
    /\ At(x, "save")
    /\ \E r \in RuleIds :
          /\ rules[r] = None
          /\ rules' = [rules EXCEPT ![r] = [class |-> f.op, kind |-> f.alarm.kind]]
          /\ Goto(x, [f EXCEPT !.pc = "update", !.rule = r])
    /\ UNCHANGED <<alarms, lists, recent, id>> /\ Stays

\* An alarm with the result of the operation of frame f.
Handled(f, alarm) ==
    [alarm EXCEPT !.result = f.op, !.auto = @ \/ f.auto,
                  !.policy = IF f.op = "block" THEN f.rule ELSE @,
                  !.exception = IF f.op = "block" THEN @ ELSE f.rule]

\* Variant: no blocked alarm is archived.
Kept_all(f, alarm) == f.op = "block"

Kept(f, alarm) == f.op = "block" /\ alarm.auto

\* updateAlarm writes the whole alarm; one that is blocked automatically is not
\* archived.
Update(x) ==
    LET f == proc[x]
        alarm == Handled(f, f.alarm)
    IN
    /\ At(x, "update")
    /\ alarms' = [alarms EXCEPT ![f.aid] = alarm]
    /\ Goto(x, [f EXCEPT !.alarm = alarm,
                         !.pc = IF Kept(f, alarm) THEN "similar" ELSE "archive"])
    /\ UNCHANGED <<lists, recent, id, rules>> /\ Stays

\* Variant: the alarm is not taken out of the active list.
Archived_listed(a) == active' = active /\ archive' = archive \cup {a}

Archived(a) == active' = active \ {a} /\ archive' = archive \cup {a}

\* archiveAlarm: one transaction.
Archive(x) ==
    LET f == proc[x] IN
    /\ At(x, "archive")
    /\ Archived(f.aid)
    /\ Goto(x, IF f.op = "ignore" THEN Idle ELSE [f EXCEPT !.pc = "similar"])
    /\ UNCHANGED <<alarms, recent, id, rules>> /\ Stays

\* loadRelatedAlarms, and then archiveAlarm for each.
FindRelated(x) ==
    LET f == proc[x] IN
    /\ At(x, "related")
    /\ Goto(x, [f EXCEPT !.pc = "archiveRelated", !.todo = Like(f.alarm.kind)])
    /\ UNCHANGED <<alarms, lists, recent, id, rules>> /\ Stays

ArchiveRelated(x) ==
    LET f == proc[x] IN
    /\ At(x, "archiveRelated")
    /\ IF f.todo = {} THEN Goto(x, Idle) /\ UNCHANGED lists
       ELSE \E t \in f.todo : /\ Archived(t[1])
                              /\ Goto(x, [f EXCEPT !.todo = @ \ {t}])
    /\ UNCHANGED <<alarms, recent, id, rules>> /\ Stays

\* findSimilarAlarmsByPolicy, findSimilarAlarmsByException
FindSimilar(x) ==
    LET f == proc[x]
        similar == {t \in Like(f.alarm.kind) : t[1] # f.aid /\ t[2].result = ""}
    IN
    /\ At(x, "similar")
    /\ Goto(x, [f EXCEPT !.pc = "updateNext", !.todo = similar])
    /\ UNCHANGED <<alarms, lists, recent, id, rules>> /\ Stays

\* blockAlarmByPolicy and allowAlarmByException update the alarm ...
UpdateNext(x) ==
    LET f == proc[x] IN
    /\ At(x, "updateNext")
    /\ IF f.todo = {} THEN Goto(x, Idle) /\ UNCHANGED alarms
       ELSE \E t \in f.todo :
              /\ alarms' = [alarms EXCEPT ![t[1]] = Handled(f, t[2])]
              /\ Goto(x, [f EXCEPT !.pc = "archiveNext", !.aid = t[1], !.todo = @ \ {t}])
    /\ UNCHANGED <<lists, recent, id, rules>> /\ Stays

\* ... and then archive it, or only take it out of the active list.
ArchiveNext(x) ==
    LET f == proc[x] IN
    /\ At(x, "archiveNext")
    /\ IF f.op = "allow" THEN active' = active \ {f.aid} /\ UNCHANGED archive
       ELSE Archived(f.aid)
    /\ Goto(x, [f EXCEPT !.pc = "updateNext"])
    /\ UNCHANGED <<alarms, recent, id, rules>> /\ Stays

\* unblockFromAlarm, unallowFromAlarm: delete what handled the alarm, then clear.
DeleteRule(x) ==
    LET f == proc[x]
        r == IF f.op = "unblock" THEN f.alarm.policy ELSE f.alarm.exception
    IN
    /\ At(x, "delete")
    /\ rules' = [q \in RuleIds |-> IF q = r THEN None ELSE rules[q]]
    /\ Goto(x, [f EXCEPT !.pc = "clear"])
    /\ UNCHANGED <<alarms, lists, recent, id>> /\ Stays

Clear(x) ==
    LET f == proc[x] IN
    /\ At(x, "clear")
    /\ alarms' = [alarms EXCEPT ![f.aid] =
                    [f.alarm EXCEPT !.result = "", !.policy = 0,
                                    !.auto = IF f.op = "unblock" THEN FALSE ELSE @]]
    /\ Goto(x, Idle)
    /\ UNCHANGED <<lists, recent, id, rules>> /\ Stays

-----------------------------------------------------------------------------
(* Deletion *)

\* Variant: the record goes before the alarm leaves the active list.
RemoveArchived_recordFirst(x) ==
    /\ At(x, "remove")
    /\ archive' = archive \ {proc[x].aid}
    /\ alarms' = [alarms EXCEPT ![proc[x].aid] = None]
    /\ Goto(x, [proc[x] EXCEPT !.pc = "removeActive"])
    /\ UNCHANGED <<active, recent, id, rules>> /\ Stays

\* removeAlarmAsync takes the alarm out of both lists, then deletes its record.
RemoveArchived(x) ==
    /\ At(x, "remove")
    /\ archive' = archive \ {proc[x].aid}
    /\ Goto(x, [proc[x] EXCEPT !.pc = "removeActive"])
    /\ UNCHANGED <<alarms, active, recent, id, rules>> /\ Stays

RemoveActive(x) ==
    /\ At(x, "removeActive")
    /\ active' = active \ {proc[x].aid}
    /\ Goto(x, [proc[x] EXCEPT !.pc = "del"])
    /\ UNCHANGED <<alarms, archive, recent, id, rules>> /\ Stays

RemoveRecord(x) ==
    /\ At(x, "del")
    /\ alarms' = [alarms EXCEPT ![proc[x].aid] = None]
    /\ ttl' = ttl \ {proc[x].aid}
    /\ Goto(x, Idle)
    /\ UNCHANGED <<lists, recent, id, rules>> /\ StaysButTtl

\* deleteMacRelatedAlarms: first the list, then the records.
UnlistHost(x) ==
    LET f == proc[x] IN
    /\ At(x, "zremHost")
    /\ active' = active \ {t[1] : t \in f.todo}
    /\ Goto(x, [f EXCEPT !.pc = "delHost"])
    /\ UNCHANGED <<alarms, archive, recent, id, rules>> /\ Stays

DeleteHost(x) ==
    LET f == proc[x] IN
    /\ At(x, "delHost")
    /\ alarms' = Deleted(f.todo)
    /\ ttl' = ttl \ {t[1] : t \in f.todo}
    /\ Goto(x, Idle)
    /\ UNCHANGED <<lists, recent, id, rules>> /\ StaysButTtl

\* ignoreAll, deleteActiveAll, deleteArchivedAll read a list ...
StartAll(x) ==
    /\ At(x, "idle") /\ ops < MaxOps
    /\ ops' = ops + 1
    /\ \E op \in {"ignoreAll", "deleteActiveAll", "deleteArchivedAll"} :
          Goto(x, [Idle EXCEPT !.pc = "all", !.op = op, !.todo =
                     (IF op = "deleteArchivedAll" THEN archive ELSE active) \X {None}])
    /\ UNCHANGED <<alarms, lists, ttl, recent, id, rules, queue, current, firstId, expired,
                   jobs, direct>>

\* ... and handle what it held in one transaction.
OnAll(x) ==
    LET f == proc[x]
        aids == {t[1] : t \in f.todo}
    IN
    /\ At(x, "all")
    /\ \/ f.op = "ignoreAll" /\ active' = active \ aids /\ archive' = archive \cup aids
          /\ UNCHANGED <<alarms, ttl>>
       \/ f.op = "deleteActiveAll" /\ active' = active \ aids /\ UNCHANGED archive
          /\ alarms' = Deleted(f.todo) /\ ttl' = ttl \ aids
       \/ f.op = "deleteArchivedAll" /\ archive' = archive \ aids /\ UNCHANGED active
          /\ alarms' = Deleted(f.todo) /\ ttl' = ttl \ aids
    /\ Goto(x, Idle)
    /\ UNCHANGED <<recent, id, rules>> /\ StaysButTtl

\* archiveAlarmByException: from an exception to the alarms it covers.
StartByException(x, r) ==
    /\ At(x, "idle") /\ ops < MaxOps
    /\ ops' = ops + 1
    /\ rules[r] # None /\ rules[r].class = "allow"
    /\ Goto(x, [Idle EXCEPT !.pc = "similar", !.op = "archiveByException", !.rule = r,
                            !.alarm = Fresh(rules[r].kind)])
    /\ UNCHANGED <<alarms, lists, ttl, recent, id, rules, queue, current, firstId, expired,
                   jobs, direct>>

-----------------------------------------------------------------------------
(* OldDataCleanSensor, in the place of an operation of the app *)

\* cleanAlarmIndex reads both lists and the records there are ...
StartClean(x) ==
    LET dead == {a \in active \cup archive : alarms[a] = None} IN
    /\ At(x, "idle") /\ ops < MaxOps
    /\ ops' = ops + 1
    /\ dead # {}
    /\ Goto(x, [Idle EXCEPT !.pc = "zremDead", !.op = "cleanIndex", !.todo = dead \X {None}])
    /\ UNCHANGED <<alarms, lists, ttl, recent, id, rules, queue, current, firstId, expired,
                   jobs, direct>>

\* ... takes what has no record out of one list ...
UnlistDead(x) ==
    LET f == proc[x] IN
    /\ At(x, "zremDead")
    /\ active' = active \ {t[1] : t \in f.todo}
    /\ Goto(x, [f EXCEPT !.pc = "zremDeadArchived"])
    /\ UNCHANGED <<alarms, archive, recent, id, rules>> /\ Stays

\* ... and then out of the other.
UnlistDeadArchived(x) ==
    /\ At(x, "zremDeadArchived")
    /\ archive' = archive \ {t[1] : t \in proc[x].todo}
    /\ Goto(x, Idle)
    /\ UNCHANGED <<alarms, active, recent, id, rules>> /\ Stays

-----------------------------------------------------------------------------
CreateStep(w) ==
    \/ Dedup(w) \/ MatchExceptions(w) \/ MatchPolicies(w)
    \/ GetId(w) \/ SetId(w) \/ IncrId(w) \/ Save(w) \/ AddToActiveQueue(w)

OpStep(x) ==
    \/ Load(x) \/ FindSame(x) \/ SaveRule(x) \/ Update(x) \/ Archive(x)
    \/ FindRelated(x) \/ ArchiveRelated(x) \/ FindSimilar(x) \/ UpdateNext(x) \/ ArchiveNext(x)
    \/ DeleteRule(x) \/ Clear(x)
    \/ RemoveArchived(x) \/ RemoveActive(x) \/ RemoveRecord(x)
    \/ UnlistHost(x) \/ DeleteHost(x) \/ OnAll(x)
    \/ UnlistDead(x) \/ UnlistDeadArchived(x)

Next ==
    \/ \E q \in Queues, k \in Kinds : Enqueue(q, k)
    \/ \E q \in Queues : JobDone(q) \/ JobTimeout(q) \/ \E w \in Workers : TakeJob(q, w)
    \/ \E w \in Workers : CreateStep(w) \/ \E k \in Kinds : CallDirectly(w, k)
    \/ \E x \in Procs : OpStep(x)
    \/ \E x \in Apps :
          \/ \E a \in Aids : Start(x, a)
          \/ \E r \in RuleIds : StartByException(x, r)
          \/ StartAll(x) \/ StartClean(x)
    \/ \E a \in Aids : Age(a) \/ Expire(a)

Spec == Init /\ [][Next]_vars

\* Code that has begun goes on, queues are consumed and jobs time out.
Fairness ==
    /\ \A w \in Workers : WF_vars(CreateStep(w))
    /\ \A x \in Procs : WF_vars(OpStep(x))
    /\ \A q \in Queues : /\ WF_vars(JobDone(q)) /\ WF_vars(JobTimeout(q))
                         /\ WF_vars(\E w \in Workers : TakeJob(q, w))

FairSpec == Spec /\ Fairness

-----------------------------------------------------------------------------
(* Properties *)

TypeOK ==
    /\ alarms \in [Aids -> Alarm \cup {None}]
    /\ active \subseteq Aids /\ archive \subseteq Aids /\ recent \subseteq Aids
    /\ ttl \subseteq Aids /\ expired \subseteq Aids
    /\ firstId \in FirstIds /\ id \in Aids \cup FirstIds
    /\ rules \in [RuleIds -> [class : {"block", "allow"}, kind : Kinds] \cup {None}]
    /\ queue \in [Queues -> Seq(Kinds)]
    /\ current \in [Queues -> Workers \cup {None}]
    /\ proc \in [Procs -> Frame]
    /\ jobs \in 0 .. MaxJobs /\ direct \in 0 .. MaxDirect /\ ops \in 0 .. MaxOps

\* No alarm is both active and archived, whatever the app and the creations do
\* on a box that has had an alarm (the first ids can be given out twice).
OneList == firstId # 0 => active \cap archive = {}

\* Every alarm of the active list can be loaded, again on a box that has had an
\* alarm, until its record expires: a creation writes the record before the
\* list, a deletion the list before the record, and cleaning the lists of what
\* has expired takes nothing else from the app.
ActiveIsLoadable == firstId # 0 => \A a \in active : alarms[a] # None \/ a \in expired

\* When no operation of the app or of auto-block is under way, no alarm that
\* somebody has handled is still listed as active.
NothingUnderWay == \A x \in Procs : At(x, "idle") \/ proc[x].op = "create"
HandledLeaves ==
    firstId # 0 /\ NothingUnderWay =>
        \A a \in active : alarms[a] # None /\ alarms[a].result # "" => alarms[a].auto

\* As long as every alarm is created through the one queue, each within the time of
\* its job, no two alarms of one kind are listed within the window of duplicates.
NoDuplicates ==
    direct = 0 =>
        \A a, b \in active \cap recent : a # b => alarms[a].kind # alarms[b].kind

\* No alarm waits forever to be created, even behind one whose handler never
\* tells the queue that it is done.
QueueDrains == \A q \in Queues : queue[q] # <<>> ~> queue[q] = <<>>
=============================================================================

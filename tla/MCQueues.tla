------------------------------ MODULE MCQueues -------------------------------
(* Three components that do jobs from a queue and must get through them,      *)
(* checked in one run: the alarms of one process, the policies of an app that *)
(* waits for FireMain, and a rule that blocks a domain. A behaviour is one of *)
(* AlarmManager, PolicyManager or DomainBlock; the variables of the other two *)
(* stay as they are initially.                                                *)
EXTENDS PolicyManager, TLC

CONSTANTS Kinds, Queues, Workers, Apps,                     \* AlarmManager
          Names, Covered, Top, Addrs, Lines, MaxDomainOps   \* DomainBlock

VARIABLES component, \* the one that moves
          alarms, alarm_active, archive, ttl, recent, id, rules, alarm_queue, alarm_current,
          alarm_proc, firstId, expired, alarm_jobs, direct, alarm_ops,
          wanted, domain_queue, domain_job, line, rdns, mapping, domain_registered, ipset, domain_ops

Alarms == INSTANCE AlarmManager WITH
    active <- alarm_active, queue <- alarm_queue, current <- alarm_current,
    proc <- alarm_proc, jobs <- alarm_jobs, ops <- alarm_ops,
    FirstIds <- {0}, Slow <- FALSE,
    MaxAlarms <- 2, MaxRules <- 2, MaxJobs <- 2, MaxDirect <- 1, MaxOps <- 1

Domain == INSTANCE DomainBlock WITH
    queue <- domain_queue, job <- domain_job, registered <- domain_registered, ops <- domain_ops,
    MaxOps <- MaxDomainOps

ASSUME DomainAssumed == Domain!DomainAssumption

alarmVars == <<alarms, alarm_active, archive, ttl, recent, id, rules, alarm_queue,
               alarm_current, alarm_proc, firstId, expired, alarm_jobs, direct, alarm_ops>>
domainVars == <<wanted, domain_queue, domain_job, line, rdns, mapping, domain_registered, ipset,
                domain_ops>>
allVars == <<component, vars, alarmVars, domainVars>>

QueuesInit == /\ component \in {"alarms", "policies", "domain"}
              /\ Init /\ Alarms!Init /\ Domain!Init

InAlarms == component = "alarms" /\ UNCHANGED <<component, vars, domainVars>>
InPolicies == component = "policies" /\ UNCHANGED <<component, alarmVars, domainVars>>
InDomain == component = "domain" /\ UNCHANGED <<component, vars, alarmVars>>

AlarmsNext == InAlarms /\ Alarms!Next
PoliciesNext == InPolicies /\ Next
DomainOperate == InDomain /\ Domain!Operate
DomainTakeJob == InDomain /\ Domain!TakeJob
DomainResolve == InDomain /\ Domain!Resolve
DomainList == InDomain /\ Domain!List
DomainSave == InDomain /\ Domain!Save
DomainReadMapping == InDomain /\ Domain!ReadMapping
DomainApplyBlock == InDomain /\ Domain!ApplyBlock
DomainUnapplyBlock == InDomain /\ Domain!UnapplyBlock
DomainRemoveMapping == InDomain /\ Domain!RemoveMapping
DomainUnregister == InDomain /\ Domain!Unregister
DomainAnswer(l, n, as) == InDomain /\ Domain!Answer(l, n, as)
DomainUpdate(l) == InDomain /\ Domain!Update(l)
DomainSaveOne(l) == InDomain /\ Domain!SaveOne(l)
DomainBatchBlock(l) == InDomain /\ Domain!BatchBlock(l)

QueuesNext ==
    \/ AlarmsNext \/ PoliciesNext
    \/ DomainOperate \/ DomainTakeJob \/ DomainResolve \/ DomainList \/ DomainSave
    \/ DomainReadMapping \/ DomainApplyBlock \/ DomainUnapplyBlock \/ DomainRemoveMapping
    \/ DomainUnregister
    \/ \E l \in Lines : \/ DomainUpdate(l) \/ DomainSaveOne(l) \/ DomainBatchBlock(l)
                        \/ \E n \in Names, as \in SUBSET Addrs \ {{}} : DomainAnswer(l, n, as)

\* The fairness of the three modules.
AlarmsFair ==
    /\ \A w \in Workers : WF_allVars(InAlarms /\ Alarms!CreateStep(w))
    /\ \A x \in Workers \cup Apps : WF_allVars(InAlarms /\ Alarms!OpStep(x))
    /\ \A q \in Queues : /\ WF_allVars(InAlarms /\ Alarms!JobDone(q))
                         /\ WF_allVars(InAlarms /\ Alarms!JobTimeout(q))
                         /\ WF_allVars(InAlarms /\ \E w \in Workers : Alarms!TakeJob(q, w))
PoliciesFair ==
    /\ \A x \in Clients \cup Handlers \cup Timers : WF_allVars(InPolicies /\ ProcStep(x))
    /\ \A x \in Clients : WF_allVars(InPolicies /\ ClientStep(x))
    /\ \A h \in Handlers : WF_allVars(InPolicies /\ (TakeJob(h) \/ JobDone(h)))
    /\ \A t \in Timers : WF_allVars(InPolicies /\ Look(t))
    /\ WF_allVars(InPolicies /\ Boot) /\ WF_allVars(InPolicies /\ BootLoad)
DomainFair ==
    /\ WF_allVars(DomainTakeJob) /\ WF_allVars(InDomain /\ Domain!Work)
    /\ \A l \in Lines : WF_allVars(InDomain /\ Domain!LineStep(l))
    /\ \A a \in Addrs : SF_allVars(InDomain /\ Domain!Lookup(a))
QueuesSpec == /\ QueuesInit /\ [][QueuesNext]_allVars
              /\ AlarmsFair /\ PoliciesFair /\ DomainFair

\* No record expires here: the queue asks nothing of the records, and the run of
\* AlarmManager's safety covers it.
NoneExpires == expired = {}
-----------------------------------------------------------------------------
(* AlarmManager: no alarm waits forever to be created.                        *)
QueueDrains == Alarms!QueueDrains

(* DomainBlock: when no job and no answer is under way, a mapped address is   *)
(* blocked.                                                                   *)
MappedIsBlocked == Domain!MappedIsBlocked

(* DomainBlock: what the lookups find of a blocked domain comes to be blocked.*)
LearnedIsBlocked == Domain!LearnedIsBlocked
=============================================================================

---------------------------- MODULE RulesProofs ----------------------------
(***************************************************************************)
(* Theorems about rules: PolicyScheduler, for any number of policies,      *)
(* versions, activations and reload runs, and RuleInstall, for any rules   *)
(* whose parts can be found again (Regular), any number of handlers and    *)
(* any number of changes.                                                  *)
(***************************************************************************)
EXTENDS MCRules, SequenceTheorems, FiniteSetTheorems, WellFoundedInduction, TLAPS

-----------------------------------------------------------------------------
(* The scheduler *)

Tables == [Pids -> Versions \cup {None}]

Activations == [Slots -> [pid : Pids \cup {None}, stage : Stages]]

Frames == [pc : Points, pid : Pids \cup {None}, ver : Versions \cup {None},
           timer : Slots \cup {None}]

\* A job table and a count of started jobs agree.
Agree(crons, ticks) ==
    \A p \in Pids : ticks[p] = IF crons[p] # None THEN 1 ELSE 0

\* An activation of p has begun.
Begun(old, new, p) == old.stage = "free" /\ new = [pid |-> p, stage |-> "enforcing"]

\* What is in flight belongs to a policy, and an unenforce in deregisterPolicy
\* to a timeout.
Owned ==
    /\ \A s \in Slots : act[s].stage # "free" => act[s].pid \in Pids
    /\ \A c \in Callers : frame[c].pc \in {"unenforcing", "unenforced"} =>
                            frame[c].pid \in Pids /\ frame[c].timer \in Slots

TypeInv == TypeOK /\ OneCronJobPerPolicy /\ Owned

-----------------------------------------------------------------------------
(* What registerPolicy does to the state, whoever calls it *)

\* A caller that has nothing to do has a well-formed frame.
LEMMA IdleFrame == Idle \in Frames
  BY DEF Idle, Frames, Points

\* registerPolicy, called with well-formed tables that agree, leaves well-formed
\* tables that agree, and gives the caller a frame that unenforces nothing.
LEMMA RegisterKeeps ==
  ASSUME NEW c \in Callers, NEW p \in Pids, NEW v \in Versions,
         NEW crons \in Tables, NEW ticks \in [Pids -> Nat],
         NEW acts \in Activations,
         Agree(crons, ticks),
         todo \in [Reloads -> SUBSET (Pids \X Versions)],
         frame \in [Callers -> Frames],
         Register(c, p, v, crons, ticks, acts)
  PROVE  /\ runningCronJobs' \in Tables
         /\ ticking' \in [Pids -> Nat]
         /\ Agree(runningCronJobs', ticking')
         /\ act' \in Activations
         /\ \A s \in Slots : act'[s] = acts[s] \/ Begun(acts[s], act'[s], p)
         /\ todo' \in [Reloads -> SUBSET (Pids \X Versions)]
         /\ frame' \in [Callers -> Frames]
         /\ \A d \in Callers : frame'[d] = frame[d] \/ frame'[d].pc \in {"idle", "applying"}
<1>1. CASE AlreadyRegistered(crons, p)
  <2>1. /\ runningCronJobs' = crons /\ ticking' = ticks /\ act' = acts
        /\ frame' = [frame EXCEPT ![c] = Idle]
        /\ todo' = Abandon(c)
    BY <1>1 DEF Register
  <2>2. todo' \in [Reloads -> SUBSET (Pids \X Versions)]
    BY <2>1 DEF Abandon
  <2>3. frame' \in [Callers -> Frames] /\ Idle.pc = "idle"
    BY <2>1, IdleFrame DEF Idle
  <2> QED
    BY <2>1, <2>2, <2>3
<1>2. CASE ~AlreadyRegistered(crons, p)
  <2>1. /\ runningCronJobs' = [crons EXCEPT ![p] = v]
        /\ ticking' = [ticks EXCEPT ![p] = @ + 1]
        /\ todo' = Turned(c, p)
        /\ crons[p] = None
    BY <1>2 DEF Register, AlreadyRegistered
  <2>2. todo' \in [Reloads -> SUBSET (Pids \X Versions)]
    BY <2>1 DEF Turned
  <2>3. /\ runningCronJobs' \in Tables
        /\ ticking' \in [Pids -> Nat]
        /\ Agree(runningCronJobs', ticking')
    <3>1. ticks[p] = 0 /\ v # None
      BY <2>1, SchedulerAssumption DEF Agree
    <3> QED
      BY <2>1, <3>1 DEF Agree, Tables
  <2>4. CASE frame' = [frame EXCEPT ![c] = Idle] /\ act' = acts
    <3>1. frame' \in [Callers -> Frames] /\ Idle.pc = "idle"
      BY <2>4, IdleFrame DEF Idle
    <3> QED
      BY <2>2, <2>3, <2>4, <3>1
  <2>5. CASE \E s \in Slots :
               /\ StartApply(acts, s, p)
               /\ frame' = [frame EXCEPT ![c] =
                      [pc |-> "applying", pid |-> p, ver |-> v, timer |-> s]]
    <3>1. PICK s \in Slots :
               /\ StartApply(acts, s, p)
               /\ frame' = [frame EXCEPT ![c] =
                      [pc |-> "applying", pid |-> p, ver |-> v, timer |-> s]]
      BY <2>5
    <3>2. [pc |-> "applying", pid |-> p, ver |-> v, timer |-> s] \in Frames
      BY DEF Frames, Points
    <3>3. /\ frame' \in [Callers -> Frames]
          /\ \A d \in Callers : frame'[d] = frame[d] \/ frame'[d].pc = "applying"
      BY <3>1, <3>2
    <3>4. /\ act' \in Activations
          /\ \A t \in Slots : act'[t] = acts[t] \/ Begun(acts[t], act'[t], p)
      BY <3>1 DEF StartApply, Activations, Stages, Begun
    <3> QED
      BY <2>2, <2>3, <3>3, <3>4
  <2> QED
    BY <1>2, <2>4, <2>5 DEF Register
<1> QED
  BY <1>1, <1>2

\* The same of whatever follows a deregisterPolicy.
LEMMA ProceedKeeps ==
  ASSUME NEW c \in Callers, NEW p \in Pids, NEW v \in Versions \cup {None},
         NEW crons \in Tables, NEW ticks \in [Pids -> Nat],
         NEW acts \in Activations,
         Agree(crons, ticks),
         todo \in [Reloads -> SUBSET (Pids \X Versions)],
         frame \in [Callers -> Frames],
         Proceed(c, p, v, crons, ticks, acts)
  PROVE  /\ runningCronJobs' \in Tables
         /\ ticking' \in [Pids -> Nat]
         /\ Agree(runningCronJobs', ticking')
         /\ act' \in Activations
         /\ \A s \in Slots : act'[s] = acts[s] \/ Begun(acts[s], act'[s], p)
         /\ todo' \in [Reloads -> SUBSET (Pids \X Versions)]
         /\ frame' \in [Callers -> Frames]
         /\ \A d \in Callers : frame'[d] = frame[d] \/ frame'[d].pc \in {"idle", "applying"}
<1>1. CASE v # None
  BY <1>1, RegisterKeeps DEF Proceed
<1>2. CASE v = None
  <2>1. /\ runningCronJobs' = crons /\ ticking' = ticks /\ act' = acts
        /\ todo' = todo
        /\ frame' = [frame EXCEPT ![c] = Idle]
    BY <1>2 DEF Proceed
  <2>2. frame' \in [Callers -> Frames] /\ Idle.pc = "idle"
    BY <2>1, IdleFrame DEF Idle
  <2> QED
    BY <2>1, <2>2
<1> QED
  BY <1>1, <1>2

\* Stopping the job that is registered, if there is one, keeps the two tables
\* in agreement.
LEMMA StopKeeps ==
  ASSUME NEW p \in Pids, TypeOK, OneCronJobPerPolicy
  PROVE  /\ StoppedJobs(p) \in Tables
         /\ StartedAfterStop(p) \in [Pids -> Nat]
         /\ Agree(StoppedJobs(p), StartedAfterStop(p))
  BY DEF StoppedJobs, StartedAfterStop, Agree, OneCronJobPerPolicy, Tables, TypeOK

\* deregisterPolicy: the tables stay in agreement, and a frame that goes on to
\* unenforce holds the timeout that is recorded for its policy.
LEMMA DeregisterKeeps ==
  ASSUME NEW c \in Callers, NEW p \in Pids, NEW v \in Versions \cup {None},
         TypeOK, OneCronJobPerPolicy, Deregister(c, p, v)
  PROVE  /\ runningCronJobs' \in Tables
         /\ ticking' \in [Pids -> Nat]
         /\ Agree(runningCronJobs', ticking')
         /\ act' \in Activations
         /\ \A s \in Slots : act'[s] = act[s] \/ Begun(act[s], act'[s], p)
         /\ todo' \in [Reloads -> SUBSET (Pids \X Versions)]
         /\ frame' \in [Callers -> Frames]
         /\ \A d \in Callers : \/ frame'[d] = frame[d]
                               \/ frame'[d].pc \in {"idle", "applying"}
                               \/ /\ frame'[d].pc = "unenforcing"
                                  /\ frame'[d].pid = p
                                  /\ frame'[d].timer = policyTimers[p]
                                  /\ policyTimers[p] # None
                                  /\ act' = act
<1>1. /\ act \in Activations
      /\ frame \in [Callers -> Frames]
      /\ todo \in [Reloads -> SUBSET (Pids \X Versions)]
      /\ policyTimers \in [Pids -> Slots \cup {None}]
  BY DEF TypeOK, Activations, Frames
<1>2. CASE policyTimers[p] # None
  <2>1. /\ runningCronJobs' = StoppedJobs(p)
        /\ ticking' = StartedAfterStop(p)
        /\ frame' = [frame EXCEPT ![c] = [pc |-> "unenforcing", pid |-> p, ver |-> v,
                                          timer |-> policyTimers[p]]]
        /\ act' = act /\ todo' = todo
    BY <1>2 DEF Deregister
  <2>2. [pc |-> "unenforcing", pid |-> p, ver |-> v, timer |-> policyTimers[p]] \in Frames
    BY <1>1, <1>2 DEF Frames, Points
  <2>3. /\ frame' \in [Callers -> Frames]
        /\ \A d \in Callers : \/ frame'[d] = frame[d]
                              \/ /\ frame'[d].pc = "unenforcing"
                                 /\ frame'[d].pid = p
                                 /\ frame'[d].timer = policyTimers[p]
    BY <1>1, <2>1, <2>2
  <2> QED
    BY <1>1, <1>2, <2>1, <2>3, StopKeeps
<1>3. CASE policyTimers[p] = None
  <2>1. Proceed(c, p, v, StoppedJobs(p), StartedAfterStop(p), act)
    BY <1>3 DEF Deregister
  <2> QED
    BY <1>1, <2>1, StopKeeps, ProceedKeeps
<1> QED
  BY <1>2, <1>3

-----------------------------------------------------------------------------
(* Types, and one cron job per policy *)

\* Nothing is scheduled at first.
LEMMA InitTypeInv == Init => TypeInv
  BY SchedulerAssumption
     DEF Init, TypeInv, TypeOK, OneCronJobPerPolicy, Owned, Idle, Stages, Points, Callers

\* Every step keeps the types, the agreement of runningCronJobs with the jobs
\* that are started, and the owners of what is in flight.
LEMMA StepTypeInv == TypeInv /\ [Next]_vars => TypeInv'
<1> SUFFICES ASSUME TypeInv, [Next]_vars PROVE TypeInv'
  OBVIOUS
<1> USE DEF TypeInv
<1>t. /\ act \in Activations
      /\ frame \in [Callers -> Frames]
      /\ todo \in [Reloads -> SUBSET (Pids \X Versions)]
      /\ policyTimers \in [Pids -> Slots \cup {None}]
      /\ runningCronJobs \in Tables
      /\ ticking \in [Pids -> Nat]
      /\ Agree(runningCronJobs, ticking)
  BY DEF TypeOK, Activations, Frames, Tables, Agree, OneCronJobPerPolicy
<1>r. ASSUME NEW p \in Pids, NEW call \in Calls, Reject(p, call)
      PROVE  rejected' \subseteq Pids \X Calls
  BY <1>r DEF Reject, TypeOK
<1>1. ASSUME NEW c \in Callers, DeregisterEffect(c) PROVE TypeInv'
  BY <1>1 DEF DeregisterEffect, TypeOK, Owned, OneCronJobPerPolicy, Points
<1>2. ASSUME NEW c \in Callers, DeregisterFinish(c) PROVE TypeInv'
  <2> DEFINE f == frame[c]
  <2>1. /\ f.pc = "unenforced" /\ f.pid \in Pids /\ f.ver \in Versions \cup {None}
        /\ Proceed(c, f.pid, f.ver, runningCronJobs, ticking, Cleared(TimerToClear(f)))
        /\ policyTimers' = [policyTimers EXCEPT ![f.pid] = None]
        /\ UNCHANGED <<kernel, wanted, rejected, jobs, started>>
    BY <1>2, <1>t DEF DeregisterFinish, Owned, Frames
  <2>2. /\ Cleared(TimerToClear(f)) \in Activations
        /\ \A s \in Slots : /\ Cleared(TimerToClear(f))[s].pid = act[s].pid
                            /\ Cleared(TimerToClear(f))[s].stage # "free"
                                  => act[s].stage # "free"
    BY <1>t DEF Cleared, Activations, Stages
  <2> HIDE DEF f
  <2>3. /\ runningCronJobs' \in Tables
        /\ ticking' \in [Pids -> Nat]
        /\ Agree(runningCronJobs', ticking')
        /\ act' \in Activations
        /\ \A s \in Slots : act'[s] = Cleared(TimerToClear(f))[s] \/ Begun(Cleared(TimerToClear(f))[s], act'[s], f.pid)
        /\ todo' \in [Reloads -> SUBSET (Pids \X Versions)]
        /\ frame' \in [Callers -> Frames]
        /\ \A d \in Callers : frame'[d] = frame[d] \/ frame'[d].pc \in {"idle", "applying"}
    BY <1>t, <2>1, <2>2, ProceedKeeps
  <2>4. Owned'
    BY <2>1, <2>2, <2>3 DEF Owned, Begun
  <2>5. TypeOK' /\ OneCronJobPerPolicy'
    BY <2>1, <2>3 DEF TypeOK, OneCronJobPerPolicy, Agree, Tables, Activations, Frames
  <2> QED
    BY <2>4, <2>5
<1>3. ASSUME NEW c \in Callers, DeregisterReject(c) PROVE TypeInv'
  <2> DEFINE f == frame[c]
  <2>1. /\ f.pc = "unenforcing" /\ f.pid \in Pids /\ f.ver \in Versions \cup {None}
        /\ Reject(f.pid, IF c = Queue THEN "deregister" ELSE "reload")
        /\ UNCHANGED <<policyTimers, kernel, wanted, jobs, started>>
    BY <1>3, <1>t DEF DeregisterReject, Owned, Frames
  <2>2. rejected' \subseteq Pids \X Calls
    BY <2>1, <1>r DEF Calls
  <2>3. CASE Proceed(c, f.pid, f.ver, runningCronJobs, ticking, act)
    <3> HIDE DEF f
    <3>1. /\ runningCronJobs' \in Tables
          /\ ticking' \in [Pids -> Nat]
          /\ Agree(runningCronJobs', ticking')
          /\ act' \in Activations
          /\ \A s \in Slots : act'[s] = act[s] \/ Begun(act[s], act'[s], f.pid)
          /\ todo' \in [Reloads -> SUBSET (Pids \X Versions)]
          /\ frame' \in [Callers -> Frames]
          /\ \A d \in Callers : frame'[d] = frame[d] \/ frame'[d].pc \in {"idle", "applying"}
      BY <1>t, <2>1, <2>3, ProceedKeeps
    <3>2. Owned'
      BY <2>1, <3>1 DEF Owned, Begun
    <3>3. TypeOK' /\ OneCronJobPerPolicy'
      BY <2>1, <2>2, <3>1 DEF TypeOK, OneCronJobPerPolicy, Agree, Tables, Activations, Frames
    <3> QED
      BY <3>2, <3>3
  <2>4. CASE /\ frame' = [frame EXCEPT ![c] = Idle]
             /\ todo' = Abandon(c)
             /\ UNCHANGED <<runningCronJobs, ticking, act>>
    <3>1. /\ frame' \in [Callers -> Frames]
          /\ Idle.pc = "idle"
          /\ todo' \in [Reloads -> SUBSET (Pids \X Versions)]
      BY <1>t, <2>4, IdleFrame DEF Abandon, Idle
    <3>2. Owned'
      BY <1>t, <2>4, <3>1 DEF Owned, Begun
    <3> QED
      BY <2>1, <2>2, <2>4, <3>1, <3>2 DEF TypeOK, OneCronJobPerPolicy, Frames
  <2> QED
    BY <1>3, <2>3, <2>4 DEF DeregisterReject
<1>4. ASSUME NEW s \in Slots, ApplyEffect(s) PROVE TypeInv'
  BY <1>4 DEF ApplyEffect, TypeOK, Owned, OneCronJobPerPolicy, Stages
<1>5. ASSUME NEW s \in Slots, ApplyFinish(s) PROVE TypeInv'
  <2>1. frame' \in [Callers -> Frames]
        /\ \A d \in Callers : frame'[d] = frame[d] \/ frame'[d].pc = "idle"
    BY <1>5, <1>t, IdleFrame DEF ApplyFinish, Idle
  <2> QED
    BY <1>5, <2>1 DEF ApplyFinish, TypeOK, Owned, OneCronJobPerPolicy, Stages, Frames
<1>6. ASSUME NEW s \in Slots, ApplyReject(s) PROVE TypeInv'
  <2>1. /\ frame' \in [Callers -> Frames]
        /\ \A d \in Callers : frame'[d] = frame[d] \/ frame'[d].pc = "idle"
    BY <1>6, <1>t, IdleFrame DEF ApplyReject, Idle
  <2>2. todo' \in [Reloads -> SUBSET (Pids \X Versions)]
    BY <1>6, <1>t DEF ApplyReject
  <2>3. act[s].pid \in Pids
    BY <1>6 DEF ApplyReject, Owned
  <2>4. rejected' \subseteq Pids \X Calls
    BY <1>6, <2>3, <1>r DEF ApplyReject, Calls
  <2> QED
    BY <1>6, <2>1, <2>2, <2>4 DEF ApplyReject, TypeOK, Owned, OneCronJobPerPolicy, Stages, Frames
<1>7. ASSUME NEW s \in Slots, TimerFires(s) PROVE TypeInv'
  BY <1>7 DEF TimerFires, TypeOK, Owned, OneCronJobPerPolicy, Stages
<1>8. ASSUME NEW s \in Slots, RevokeEffect(s) PROVE TypeInv'
  BY <1>8 DEF RevokeEffect, RevokedRules, TypeOK, Owned, OneCronJobPerPolicy, Stages
<1>9. ASSUME NEW s \in Slots, RevokeReject(s) PROVE TypeInv'
  <2>1. rejected' \subseteq Pids \X Calls
    BY <1>9, <1>r DEF RevokeReject, Owned, Calls
  <2> QED
    BY <1>9, <2>1 DEF RevokeReject, TypeOK, Owned, OneCronJobPerPolicy, Stages
<1>10. ASSUME NEW s \in Slots, RevokeFinish(s) PROVE TypeInv'
  BY <1>10 DEF RevokeFinish, TypeOK, Owned, OneCronJobPerPolicy, Stages
<1>11. ASSUME NEW p \in Pids, CronTick(p) PROVE TypeInv'
  BY <1>11 DEF CronTick, StartApply, TypeOK, Owned, OneCronJobPerPolicy, Stages
<1>j. ASSUME NEW p \in Pids, NEW v \in Versions \cup {None}, TakeJob(p, v)
      PROVE  wanted' \in Tables /\ jobs' \in 0..MaxJobs
  BY <1>j, SchedulerAssumption DEF TakeJob, TypeOK, Tables
<1>d. ASSUME NEW c \in Callers, NEW p \in Pids, NEW v \in Versions \cup {None},
             Deregister(c, p, v), UNCHANGED <<policyTimers, kernel, rejected>>,
             wanted' \in Tables, jobs' \in 0..MaxJobs, started' \subseteq Reloads
      PROVE  TypeInv'
  <2>1. /\ runningCronJobs' \in Tables
        /\ ticking' \in [Pids -> Nat]
        /\ Agree(runningCronJobs', ticking')
        /\ act' \in Activations
        /\ \A s \in Slots : act'[s] = act[s] \/ Begun(act[s], act'[s], p)
        /\ todo' \in [Reloads -> SUBSET (Pids \X Versions)]
        /\ frame' \in [Callers -> Frames]
        /\ \A d \in Callers : \/ frame'[d] = frame[d]
                              \/ frame'[d].pc \in {"idle", "applying"}
                              \/ /\ frame'[d].pid = p
                                 /\ frame'[d].timer = policyTimers[p]
                                 /\ policyTimers[p] # None
    BY <1>d, DeregisterKeeps
  <2>2. Owned'
    BY <1>t, <2>1 DEF Owned, Begun
  <2>3. TypeOK' /\ OneCronJobPerPolicy'
    BY <1>d, <2>1 DEF TypeOK, OneCronJobPerPolicy, Agree, Tables, Activations, Frames
  <2> QED
    BY <2>2, <2>3
<1>q. Queue \in Callers
  BY DEF Callers
<1>12. ASSUME NEW p \in Pids, UnenforceJob(p) PROVE TypeInv'
  BY <1>12, <1>j, <1>d, <1>q DEF UnenforceJob, TypeOK
<1>13. ASSUME NEW p \in Pids, NEW v \in Versions, ReenforceJob(p, v) PROVE TypeInv'
  BY <1>13, <1>j, <1>d, <1>q DEF ReenforceJob, TypeOK
<1>14. ASSUME NEW p \in Pids, NEW v \in Versions, EnforceJob(p, v) PROVE TypeInv'
  <2>1. /\ runningCronJobs' \in Tables
        /\ ticking' \in [Pids -> Nat]
        /\ Agree(runningCronJobs', ticking')
        /\ act' \in Activations
        /\ \A s \in Slots : act'[s] = act[s] \/ Begun(act[s], act'[s], p)
        /\ todo' \in [Reloads -> SUBSET (Pids \X Versions)]
        /\ frame' \in [Callers -> Frames]
        /\ \A d \in Callers : frame'[d] = frame[d] \/ frame'[d].pc \in {"idle", "applying"}
    BY <1>14, <1>t, <1>q, RegisterKeeps DEF EnforceJob
  <2>2. Owned'
    BY <2>1 DEF Owned, Begun
  <2>3. wanted' \in Tables /\ jobs' \in 0..MaxJobs
    BY <1>14, <1>j DEF EnforceJob
  <2> QED
    BY <1>14, <2>1, <2>2, <2>3
       DEF EnforceJob, TypeOK, OneCronJobPerPolicy, Agree, Tables, Activations, Frames
<1>15. ASSUME NEW r \in Reloads, ReloadStart(r) PROVE TypeInv'
  <2>1. todo' \in [Reloads -> SUBSET (Pids \X Versions)]
    BY <1>15, <1>t DEF ReloadStart, Tables
  <2> QED
    BY <1>15, <2>1 DEF ReloadStart, TypeOK, Owned, OneCronJobPerPolicy
<1>16. ASSUME NEW r \in Reloads, ReloadNext(r) PROVE TypeInv'
  <2>1. PICK pv \in todo[r] : Deregister(r, pv[1], pv[2])
    BY <1>16 DEF ReloadNext
  <2>2. pv[1] \in Pids /\ pv[2] \in Versions /\ r \in Callers
    BY <1>t DEF Callers
  <2> QED
    BY <1>16, <1>d, <2>1, <2>2 DEF ReloadNext, TypeOK, Tables
<1>17. CASE UNCHANGED vars
  BY <1>17 DEF vars, TypeOK, Owned, OneCronJobPerPolicy
<1> QED
  BY <1>1, <1>2, <1>3, <1>4, <1>5, <1>6, <1>7, <1>8, <1>9, <1>10, <1>11, <1>12,
     <1>13, <1>14, <1>15, <1>16, <1>17 DEF Next, CallerStep, ActivationStep

\* Every variable keeps its type: the counts never go negative, and every
\* rejection is one of a policy.
THEOREM TypeCorrect == Spec => []TypeOK
<1>1. TypeInv => TypeOK
  BY DEF TypeInv
<1> QED
  BY <1>1, InitTypeInv, StepTypeInv, PTL DEF Spec

\* However registrations, deregistrations and reloads interleave, the started
\* CronJob objects are those runningCronJobs names: none is lost, none doubled.
THEOREM CronJobsAreRegistered == Spec => []OneCronJobPerPolicy
<1>1. TypeInv => OneCronJobPerPolicy
  BY DEF TypeInv
<1> QED
  BY <1>1, InitTypeInv, StepTypeInv, PTL DEF Spec

-----------------------------------------------------------------------------
(* What is enforced is about to be revoked *)

\* An activation of p whose timeout has been armed.
Late(one, p) == one.pid = p /\ one.stage \in {"armed", "firing", "revoked", "done"}

\* Timeouts that are recorded, or that a deregisterPolicy remembers, have been
\* armed for the policy they are filed under.
Handles ==
    /\ \A p \in Pids : policyTimers[p] # None => Late(act[policyTimers[p]], p)
    /\ \A c \in Callers : frame[c].pc \in {"unenforcing", "unenforced"} =>
                            Late(act[frame[c].timer], frame[c].pid)

BoundedInv == TypeInv /\ Handles /\ ActivationBounded

\* No activation has begun at first.
LEMMA InitBoundedInv == Init => BoundedInv
  BY InitTypeInv DEF BoundedInv, Init, Handles, ActivationBounded, Idle

\* Steps that start at most one activation and unenforce nothing keep what
\* BoundedInv adds to the types: they touch no activation that has begun.
LEMMA BeginKeeps ==
  ASSUME BoundedInv, TypeInv', NEW p \in Pids,
         \A s \in Slots : act'[s] = act[s] \/ Begun(act[s], act'[s], p),
         \A d \in Callers : \/ frame'[d] = frame[d]
                            \/ frame'[d].pc \in {"idle", "applying"}
                            \/ /\ frame'[d].pc = "unenforcing"
                               /\ frame'[d].pid = p
                               /\ frame'[d].timer = policyTimers[p]
                               /\ policyTimers[p] # None
                               /\ act' = act,
         kernel' = kernel, rejected \subseteq rejected',
         policyTimers' = policyTimers
  PROVE  BoundedInv'
<1>1. \A s \in Slots, q \in Pids : Late(act[s], q) => Late(act'[s], q)
  BY DEF Late, Begun
<1>2. Handles'
  <2>1. \A q \in Pids : policyTimers[q] \in Slots \cup {None}
    BY DEF BoundedInv, TypeInv, TypeOK
  <2>2. \A q \in Pids : policyTimers'[q] # None => Late(act'[policyTimers'[q]], q)
    BY <1>1, <2>1 DEF BoundedInv, Handles
  <2>3. \A c \in Callers : frame'[c].pc \in {"unenforcing", "unenforced"} =>
                             Late(act'[frame'[c].timer], frame'[c].pid)
    BY <1>1, <2>1 DEF BoundedInv, Handles, TypeInv, Owned
  <2> QED
    BY <2>2, <2>3 DEF Handles
<1>3. \A s \in Slots : Doomed(s)' => Doomed(s)
  BY DEF Doomed
<1>4. \A q \in Pids : Revocable(q) => Revocable(q)'
  BY <1>3 DEF Revocable, Begun
<1>5. ActivationBounded'
  BY <1>4 DEF BoundedInv, ActivationBounded
<1> QED
  BY <1>2, <1>5 DEF BoundedInv

\* Every step keeps a revocation pending for every policy that is enforced.
LEMMA StepBoundedInv == BoundedInv /\ [Next]_vars => BoundedInv'
<1> SUFFICES ASSUME BoundedInv, [Next]_vars PROVE BoundedInv'
  OBVIOUS
<1>i. TypeInv /\ TypeInv'
  BY StepTypeInv DEF BoundedInv
<1>t. /\ act \in Activations /\ act' \in Activations
      /\ frame \in [Callers -> Frames] /\ frame' \in [Callers -> Frames]
      /\ todo \in [Reloads -> SUBSET (Pids \X Versions)]
      /\ policyTimers \in [Pids -> Slots \cup {None}]
      /\ runningCronJobs \in Tables
      /\ ticking \in [Pids -> Nat]
      /\ kernel \in [Pids -> BOOLEAN]
      /\ Agree(runningCronJobs, ticking)
  BY <1>i DEF TypeInv, TypeOK, Activations, Frames, Tables, Agree, OneCronJobPerPolicy
<1>b. Handles /\ ActivationBounded /\ Owned
  BY DEF BoundedInv, TypeInv
<1> USE <1>i, <1>b
<1>1. ASSUME NEW c \in Callers, DeregisterEffect(c) PROVE BoundedInv'
  <2>1. Handles'
    BY <1>1, <1>t DEF DeregisterEffect, Handles
  <2>2. ASSUME NEW q \in Pids, kernel'[q], Revocable(q) PROVE Revocable(q)'
    <3>1. q # frame[c].pid
      BY <1>1, <1>t, <2>2 DEF DeregisterEffect, Owned
    <3>2. PICK s \in Slots : /\ act[s].pid = q
                             /\ \/ act[s].stage \in {"enforced", "firing"}
                                \/ act[s].stage = "armed" /\ ~Doomed(s)
      BY <2>2 DEF Revocable
    <3>3. s # frame[c].timer
      BY <1>1, <3>1, <3>2 DEF DeregisterEffect, Handles, Late
    <3>4. Doomed(s)' => Doomed(s)
      BY <1>1, <1>t, <3>3 DEF DeregisterEffect, Doomed
    <3> QED
      BY <1>1, <3>2, <3>4 DEF DeregisterEffect, Revocable
  <2>3. ActivationBounded'
    BY <1>1, <1>t, <2>2 DEF DeregisterEffect, ActivationBounded
  <2> QED
    BY <2>1, <2>3 DEF BoundedInv
<1>2. ASSUME NEW c \in Callers, DeregisterFinish(c) PROVE BoundedInv'
  <2> DEFINE f == frame[c]
             acts == Cleared(TimerToClear(f))
  <2>1. /\ f.pc = "unenforced" /\ f.pid \in Pids /\ f.ver \in Versions \cup {None}
        /\ f.timer \in Slots
        /\ Proceed(c, f.pid, f.ver, runningCronJobs, ticking, acts)
        /\ policyTimers' = [policyTimers EXCEPT ![f.pid] = None]
        /\ UNCHANGED <<kernel, wanted, rejected, jobs, started>>
    BY <1>2, <1>t DEF DeregisterFinish, Owned, Frames
  <2>2. /\ acts \in Activations
        /\ \A s \in Slots : \/ acts[s] = act[s]
                            \/ /\ s = f.timer
                               /\ act[s].stage = "armed"
                               /\ acts[s].pid = act[s].pid
                               /\ acts[s].stage = "done"
    BY <1>t DEF Cleared, TimerToClear, Activations, Stages
  <2>3. /\ \A s \in Slots : act'[s] = acts[s] \/ Begun(acts[s], act'[s], f.pid)
        /\ \A d \in Callers : frame'[d] = frame[d] \/ frame'[d].pc \in {"idle", "applying"}
    <3> HIDE DEF f, acts
    <3> QED
      BY <1>t, <2>1, <2>2, ProceedKeeps
  <2> HIDE DEF f, acts
  <2>4. \A s \in Slots, q \in Pids : Late(act[s], q) => Late(act'[s], q)
    BY <2>2, <2>3 DEF Late, Begun
  <2>5. Handles'
    <3>1. \A q \in Pids : policyTimers'[q] # None => Late(act'[policyTimers'[q]], q)
      BY <1>t, <2>1, <2>4 DEF Handles
    <3>2. \A d \in Callers : frame'[d].pc \in {"unenforcing", "unenforced"} =>
                               Late(act'[frame'[d].timer], frame'[d].pid)
      BY <2>3, <2>4 DEF Handles, Owned
    <3> QED
      BY <3>1, <3>2 DEF Handles
  <2>6. ASSUME NEW q \in Pids, Revocable(q) PROVE Revocable(q)'
    <3>1. PICK s \in Slots : /\ act[s].pid = q
                             /\ \/ act[s].stage \in {"enforced", "firing"}
                                \/ act[s].stage = "armed" /\ ~Doomed(s)
      BY <2>6 DEF Revocable
    <3>2. act[s].stage = "armed" => s # f.timer
      BY <2>1, <3>1 DEF Doomed, f
    <3>3. act'[s] = act[s]
      BY <2>2, <2>3, <3>1, <3>2 DEF Begun
    <3>4. Doomed(s)' => Doomed(s)
      BY <2>3 DEF Doomed
    <3> QED
      BY <3>1, <3>3, <3>4 DEF Revocable
  <2> QED
    BY <2>1, <2>5, <2>6 DEF BoundedInv, ActivationBounded
<1>3. ASSUME NEW c \in Callers, DeregisterReject(c) PROVE BoundedInv'
  <2> DEFINE f == frame[c]
  <2>1. /\ f.pid \in Pids /\ f.ver \in Versions \cup {None}
        /\ UNCHANGED <<policyTimers, kernel, wanted, jobs, started>>
        /\ rejected \subseteq rejected'
    BY <1>3, <1>t DEF DeregisterReject, Owned, Frames, Reject
  <2>2. CASE Proceed(c, f.pid, f.ver, runningCronJobs, ticking, act)
    <3> HIDE DEF f
    <3>1. /\ \A s \in Slots : act'[s] = act[s] \/ Begun(act[s], act'[s], f.pid)
          /\ \A d \in Callers : frame'[d] = frame[d] \/ frame'[d].pc \in {"idle", "applying"}
      BY <1>t, <2>1, <2>2, ProceedKeeps
    <3> QED
      BY <2>1, <3>1, BeginKeeps
  <2>3. CASE /\ frame' = [frame EXCEPT ![c] = Idle]
             /\ act' = act
    <3>1. \A d \in Callers : frame'[d] = frame[d] \/ frame'[d].pc = "idle"
      BY <1>t, <2>3 DEF Idle
    <3> HIDE DEF f
    <3> QED
      BY <2>1, <2>3, <3>1, BeginKeeps
  <2> QED
    BY <1>3, <2>2, <2>3 DEF DeregisterReject
<1>4. ASSUME NEW s \in Slots, ApplyEffect(s) PROVE BoundedInv'
  <2>1. Handles'
    BY <1>4, <1>t DEF ApplyEffect, Handles, Late, Owned, Activations
  <2>2. Revocable(act[s].pid)'
    BY <1>4, <1>t DEF ApplyEffect, Revocable, Activations
  <2>3. \A q \in Pids : Revocable(q) => Revocable(q)'
    BY <1>4, <1>t DEF ApplyEffect, Revocable, Activations, Doomed
  <2>4. ActivationBounded'
    BY <1>4, <1>t, <2>2, <2>3 DEF ApplyEffect, ActivationBounded
  <2> QED
    BY <2>1, <2>4 DEF BoundedInv
<1>5. ASSUME NEW s \in Slots, ApplyFinish(s) PROVE BoundedInv'
  <2>1. \A d \in Callers : frame'[d] = frame[d] \/ frame'[d].pc = "idle"
    BY <1>5, <1>t DEF ApplyFinish, Idle
  <2>2. ~Doomed(s)'
    BY <1>5, <2>1 DEF Doomed, Handles, Late, ApplyFinish
  <2>3. Handles'
    BY <1>5, <1>t, <2>1 DEF ApplyFinish, Handles, Late, Owned, Activations
  <2>4. \A q \in Pids : Revocable(q) => Revocable(q)'
    BY <1>5, <1>t, <2>1, <2>2 DEF ApplyFinish, Revocable, Activations, Doomed
  <2>5. ActivationBounded'
    BY <1>5, <1>t, <2>4 DEF ApplyFinish, ActivationBounded
  <2> QED
    BY <2>3, <2>5 DEF BoundedInv
<1>6. ASSUME NEW s \in Slots, ApplyReject(s) PROVE BoundedInv'
  <2>1. \A d \in Callers : frame'[d] = frame[d] \/ frame'[d].pc = "idle"
    BY <1>6, <1>t DEF ApplyReject, Idle
  <2>2. Handles'
    BY <1>6, <1>t, <2>1 DEF ApplyReject, Handles, Late, Owned, Activations
  <2>3. ASSUME NEW q \in Pids, Revocable(q),
               act[s].stage = "enforced" => q # act[s].pid
        PROVE  Revocable(q)'
    BY <1>6, <1>t, <2>1, <2>3 DEF ApplyReject, Revocable, Activations, Doomed
  <2>4. /\ rejected \subseteq rejected'
        /\ act[s].stage = "enforced" => <<act[s].pid, "partial">> \in rejected'
    BY <1>6 DEF ApplyReject, Reject
  <2>5. ActivationBounded'
    BY <1>6, <2>3, <2>4 DEF ApplyReject, ActivationBounded
  <2> QED
    BY <2>2, <2>5 DEF BoundedInv
<1>7. ASSUME NEW s \in Slots, TimerFires(s) PROVE BoundedInv'
  <2>1. Handles'
    BY <1>7, <1>t DEF TimerFires, Handles, Late, Owned, Activations
  <2>2. \A q \in Pids : Revocable(q) => Revocable(q)'
    BY <1>7, <1>t DEF TimerFires, Revocable, Activations, Doomed
  <2> QED
    BY <1>7, <2>1, <2>2 DEF TimerFires, BoundedInv, ActivationBounded
<1>8. ASSUME NEW s \in Slots, RevokeEffect(s) PROVE BoundedInv'
  <2>1. Handles'
    BY <1>8, <1>t DEF RevokeEffect, Handles, Late, Owned, Activations
  <2>2. ASSUME NEW q \in Pids, Revocable(q), q # act[s].pid PROVE Revocable(q)'
    BY <1>8, <1>t, <2>2 DEF RevokeEffect, Revocable, Activations, Doomed
  <2>3. ActivationBounded'
    BY <1>8, <1>t, <2>2 DEF RevokeEffect, RevokedRules, ActivationBounded
  <2> QED
    BY <2>1, <2>3 DEF BoundedInv
<1>9. ASSUME NEW s \in Slots, RevokeReject(s) PROVE BoundedInv'
  <2>1. Handles'
    BY <1>9, <1>t DEF RevokeReject, Handles, Late, Owned, Activations
  <2>2. ASSUME NEW q \in Pids, Revocable(q), q # act[s].pid PROVE Revocable(q)'
    BY <1>9, <1>t, <2>2 DEF RevokeReject, Revocable, Activations, Doomed
  <2>3. rejected \subseteq rejected' /\ <<act[s].pid, "revoke">> \in rejected'
    BY <1>9 DEF RevokeReject, Reject
  <2>4. ActivationBounded'
    BY <1>9, <2>2, <2>3 DEF RevokeReject, ActivationBounded
  <2> QED
    BY <2>1, <2>4 DEF BoundedInv
<1>10. ASSUME NEW s \in Slots, RevokeFinish(s) PROVE BoundedInv'
  <2>1. Handles'
    BY <1>10, <1>t DEF RevokeFinish, Handles, Late, Owned, Activations
  <2>2. \A q \in Pids : Revocable(q) => Revocable(q)'
    BY <1>10, <1>t DEF RevokeFinish, Revocable, Activations, Doomed
  <2> QED
    BY <1>10, <2>1, <2>2 DEF RevokeFinish, BoundedInv, ActivationBounded
<1>11. ASSUME NEW p \in Pids, CronTick(p) PROVE BoundedInv'
  <2>1. \A s \in Slots : act'[s] = act[s] \/ Begun(act[s], act'[s], p)
    BY <1>11, <1>t DEF CronTick, StartApply, Begun
  <2> QED
    BY <1>11, <2>1, BeginKeeps DEF CronTick
<1>d. ASSUME NEW c \in Callers, NEW p \in Pids, NEW v \in Versions \cup {None},
             Deregister(c, p, v), UNCHANGED <<policyTimers, kernel, rejected>>
      PROVE  BoundedInv'
  <2>1. TypeOK /\ OneCronJobPerPolicy
    BY DEF TypeInv
  <2>2. /\ \A s \in Slots : act'[s] = act[s] \/ Begun(act[s], act'[s], p)
        /\ \A d \in Callers : \/ frame'[d] = frame[d]
                              \/ frame'[d].pc \in {"idle", "applying"}
                              \/ /\ frame'[d].pc = "unenforcing"
                                 /\ frame'[d].pid = p
                                 /\ frame'[d].timer = policyTimers[p]
                                 /\ policyTimers[p] # None
                                 /\ act' = act
    BY <1>d, <2>1, DeregisterKeeps
  <2> QED
    BY <1>d, <2>2, BeginKeeps
<1>q. Queue \in Callers
  BY DEF Callers
<1>12. ASSUME NEW p \in Pids, UnenforceJob(p) PROVE BoundedInv'
  BY <1>12, <1>d, <1>q DEF UnenforceJob
<1>13. ASSUME NEW p \in Pids, NEW v \in Versions, ReenforceJob(p, v) PROVE BoundedInv'
  BY <1>13, <1>d, <1>q DEF ReenforceJob
<1>14. ASSUME NEW p \in Pids, NEW v \in Versions, EnforceJob(p, v) PROVE BoundedInv'
  <2>1. /\ \A s \in Slots : act'[s] = act[s] \/ Begun(act[s], act'[s], p)
        /\ \A d \in Callers : frame'[d] = frame[d] \/ frame'[d].pc \in {"idle", "applying"}
    BY <1>14, <1>t, <1>q, RegisterKeeps DEF EnforceJob
  <2> QED
    BY <1>14, <2>1, BeginKeeps DEF EnforceJob
<1>15. ASSUME NEW r \in Reloads, ReloadStart(r) PROVE BoundedInv'
  BY <1>15 DEF ReloadStart, BoundedInv, Handles, ActivationBounded, Revocable, Doomed
<1>16. ASSUME NEW r \in Reloads, ReloadNext(r) PROVE BoundedInv'
  <2>1. PICK pv \in todo[r] : Deregister(r, pv[1], pv[2])
    BY <1>16 DEF ReloadNext
  <2>2. pv[1] \in Pids /\ pv[2] \in Versions /\ r \in Callers
    BY <1>t DEF Callers
  <2> QED
    BY <1>16, <1>d, <2>1, <2>2 DEF ReloadNext
<1>17. CASE UNCHANGED vars
  BY <1>17 DEF vars, BoundedInv, Handles, ActivationBounded, Revocable, Doomed
<1> QED
  BY <1>1, <1>2, <1>3, <1>4, <1>5, <1>6, <1>7, <1>8, <1>9, <1>10, <1>11, <1>12,
     <1>13, <1>14, <1>15, <1>16, <1>17 DEF Next, CallerStep, ActivationStep

\* A policy whose rules are installed always has a revocation pending, as long
\* as its own installation and its own timeout's unenforce do not fail.
THEOREM EnforcedIsRevocable == Spec => []ActivationBounded
<1>1. BoundedInv => ActivationBounded
  BY DEF BoundedInv
<1> QED
  BY <1>1, InitBoundedInv, StepBoundedInv, PTL DEF Spec

-----------------------------------------------------------------------------
(* A policy that is asked for stays scheduled *)

\* Caller c has stopped the job of p and registers p again when the unenforce it
\* waits for is over.
Returning(c, p) == /\ frame[c].pc \in {"unenforcing", "unenforced"}
                   /\ frame[c].pid = p /\ frame[c].ver # None

\* The job of p has been stopped for good by no one.
Scheduled(p) == runningCronJobs[p] # None \/ \E c \in Callers : Returning(c, p)

\* The schedule of a policy the queue asked for is there or on its way back,
\* unless an unenforce of it rejected in a reload.
ScheduleHeld ==
    \A p \in Pids : wanted[p] # None /\ <<p, "reload">> \notin rejected => Scheduled(p)

ScheduleInv == TypeInv /\ ScheduleHeld

LEMMA InitScheduleInv == Init => ScheduleInv
  BY InitTypeInv DEF ScheduleInv, ScheduleHeld, Init

\* Whatever a job table was before, registerPolicy leaves a job of its policy in
\* it, touches no other job, and no frame but its caller's.
LEMMA RegisterSchedules ==
  ASSUME NEW c \in Callers, NEW p \in Pids, NEW v \in Versions,
         NEW crons \in Tables, NEW ticks, NEW acts,
         frame \in [Callers -> Frames],
         Register(c, p, v, crons, ticks, acts)
  PROVE  /\ runningCronJobs'[p] # None
         /\ \A q \in Pids \ {p} : runningCronJobs'[q] = crons[q]
         /\ \A d \in Callers \ {c} : frame'[d] = frame[d]
  BY SchedulerAssumption DEF Register, AlreadyRegistered, Tables

\* After a deregisterPolicy: with a version p is scheduled, without one the job
\* table stays as it is; other policies and callers are left alone.
LEMMA ProceedSchedules ==
  ASSUME NEW c \in Callers, NEW p \in Pids, NEW v \in Versions \cup {None},
         NEW crons \in Tables, NEW ticks, NEW acts,
         frame \in [Callers -> Frames],
         Proceed(c, p, v, crons, ticks, acts)
  PROVE  /\ v # None \/ crons[p] # None => runningCronJobs'[p] # None
         /\ \A q \in Pids \ {p} : runningCronJobs'[q] = crons[q]
         /\ \A d \in Callers \ {c} : frame'[d] = frame[d]
<1>1. CASE v # None
  BY <1>1, RegisterSchedules DEF Proceed
<1>2. CASE v = None
  BY <1>2 DEF Proceed
<1> QED
  BY <1>1, <1>2

\* deregisterPolicy of p that is to register a version again keeps p scheduled,
\* and whatever it is for, it keeps every other policy scheduled.
LEMMA DeregisterSchedules ==
  ASSUME NEW c \in Callers, NEW p \in Pids, NEW v \in Versions \cup {None},
         TypeInv, frame[c].pc = "idle", Deregister(c, p, v)
  PROVE  \A q \in Pids : (IF q = p THEN v # None ELSE Scheduled(q)) => Scheduled(q)'
<1>1. /\ frame \in [Callers -> Frames] /\ runningCronJobs \in Tables
      /\ StoppedJobs(p) \in Tables
      /\ \A q \in Pids \ {p} : StoppedJobs(p)[q] = runningCronJobs[q]
  BY DEF TypeInv, TypeOK, Frames, Tables, StoppedJobs
<1>2. \A q \in Pids : ~Returning(c, q)
  BY DEF Returning
<1>3. CASE policyTimers[p] # None
  <2>1. /\ runningCronJobs' = StoppedJobs(p)
        /\ frame' = [frame EXCEPT ![c] = [pc |-> "unenforcing", pid |-> p, ver |-> v,
                                          timer |-> policyTimers[p]]]
    BY <1>3 DEF Deregister
  <2>2. v # None => Returning(c, p)'
    BY <1>1, <2>1 DEF Returning
  <2>3. \A d \in Callers, q \in Pids : Returning(d, q) => Returning(d, q)'
    BY <1>1, <1>2, <2>1 DEF Returning
  <2> QED
    BY <1>1, <2>1, <2>2, <2>3 DEF Scheduled
<1>4. CASE policyTimers[p] = None
  <2>1. Proceed(c, p, v, StoppedJobs(p), StartedAfterStop(p), act)
    BY <1>4 DEF Deregister
  <2>2. /\ v # None => runningCronJobs'[p] # None
        /\ \A q \in Pids \ {p} : runningCronJobs'[q] = runningCronJobs[q]
        /\ \A d \in Callers \ {c} : frame'[d] = frame[d]
    BY <1>1, <2>1, ProceedSchedules
  <2>3. \A d \in Callers, q \in Pids : Returning(d, q) => Returning(d, q)'
    BY <1>2, <2>2 DEF Returning
  <2> QED
    BY <2>2, <2>3 DEF Scheduled
<1> QED
  BY <1>3, <1>4

\* Every step keeps what is asked for scheduled, or about to be again.
LEMMA StepScheduleInv == ScheduleInv /\ [Next]_vars => ScheduleInv'
<1> SUFFICES ASSUME ScheduleInv, [Next]_vars PROVE ScheduleHeld'
  BY StepTypeInv DEF ScheduleInv
<1>t. /\ TypeInv /\ ScheduleHeld
      /\ frame \in [Callers -> Frames] /\ runningCronJobs \in Tables
      /\ wanted \in [Pids -> Versions \cup {None}]
      /\ todo \in [Reloads -> SUBSET (Pids \X Versions)]
      /\ Queue \in Callers
  BY DEF ScheduleInv, TypeInv, TypeOK, Frames, Tables, Callers
\* Jobs and requests stay, and so do the frames that register again.
<1>s. ASSUME runningCronJobs' = runningCronJobs, wanted' = wanted, rejected \subseteq rejected',
             \A d \in Callers, q \in Pids : Returning(d, q) => Returning(d, q)'
      PROVE  ScheduleHeld'
  BY <1>t, <1>s DEF ScheduleHeld, Scheduled
<1>u. ASSUME UNCHANGED <<runningCronJobs, wanted, frame>>, rejected \subseteq rejected'
      PROVE  ScheduleHeld'
  BY <1>s, <1>u DEF Returning
<1>1. ASSUME NEW c \in Callers, DeregisterEffect(c) PROVE ScheduleHeld'
  <2>1. \A d \in Callers, q \in Pids : Returning(d, q) => Returning(d, q)'
    BY <1>1, <1>t DEF DeregisterEffect, Returning, Frames
  <2> QED
    BY <1>1, <1>s, <2>1 DEF DeregisterEffect
\* What a caller proceeds to schedules the policy it was returning to.
<1>p. ASSUME NEW c \in Callers, frame[c].pc \in {"unenforcing", "unenforced"},
             frame[c].ver # None \/ runningCronJobs[frame[c].pid] # None
                 => runningCronJobs'[frame[c].pid] # None,
             \A q \in Pids \ {frame[c].pid} : runningCronJobs'[q] = runningCronJobs[q],
             \A d \in Callers \ {c} : frame'[d] = frame[d]
      PROVE  \A q \in Pids : Scheduled(q) => Scheduled(q)'
  <2>1. \A d \in Callers \ {c}, q \in Pids : Returning(d, q) => Returning(d, q)'
    BY <1>p DEF Returning
  <2>2. \A q \in Pids : Returning(c, q) => Scheduled(q)'
    BY <1>p DEF Returning, Scheduled
  <2> QED
    BY <1>p, <2>1, <2>2 DEF Scheduled
<1>f. ASSUME NEW c \in Callers, frame[c].pc \in {"unenforcing", "unenforced"}
      PROVE  frame[c].pid \in Pids /\ frame[c].ver \in Versions \cup {None}
  BY <1>f, <1>t DEF TypeInv, Owned, Frames
<1>2. ASSUME NEW c \in Callers, DeregisterFinish(c) PROVE ScheduleHeld'
  <2>1. /\ frame[c].pc = "unenforced" /\ wanted' = wanted /\ rejected' = rejected
        /\ Proceed(c, frame[c].pid, frame[c].ver, runningCronJobs, ticking,
                   Cleared(TimerToClear(frame[c])))
    BY <1>2 DEF DeregisterFinish
  <2>2. /\ frame[c].ver # None \/ runningCronJobs[frame[c].pid] # None
             => runningCronJobs'[frame[c].pid] # None
        /\ \A q \in Pids \ {frame[c].pid} : runningCronJobs'[q] = runningCronJobs[q]
        /\ \A d \in Callers \ {c} : frame'[d] = frame[d]
    BY <1>f, <1>t, <2>1, ProceedSchedules
  <2>3. \A q \in Pids : Scheduled(q) => Scheduled(q)'
    BY <1>p, <2>1, <2>2
  <2> QED
    BY <1>t, <2>1, <2>3 DEF ScheduleHeld
<1>3. ASSUME NEW c \in Callers, DeregisterReject(c) PROVE ScheduleHeld'
  <2>1. /\ frame[c].pc = "unenforcing" /\ wanted' = wanted
        /\ rejected \subseteq rejected'
        /\ c # Queue => <<frame[c].pid, "reload">> \in rejected'
    BY <1>3 DEF DeregisterReject, Reject
  <2>2. CASE Caught(c)
    <3>1. Proceed(c, frame[c].pid, frame[c].ver, runningCronJobs, ticking, act)
      BY <1>3, <2>2 DEF DeregisterReject
    <3>2. /\ frame[c].ver # None \/ runningCronJobs[frame[c].pid] # None
               => runningCronJobs'[frame[c].pid] # None
          /\ \A q \in Pids \ {frame[c].pid} : runningCronJobs'[q] = runningCronJobs[q]
          /\ \A d \in Callers \ {c} : frame'[d] = frame[d]
      BY <1>f, <1>t, <2>1, <3>1, ProceedSchedules
    <3>3. \A q \in Pids : Scheduled(q) => Scheduled(q)'
      BY <1>p, <2>1, <3>2
    <3> QED
      BY <1>t, <2>1, <3>3 DEF ScheduleHeld
  <2>3. CASE ~Caught(c)
    <3>1. frame' = [frame EXCEPT ![c] = Idle] /\ runningCronJobs' = runningCronJobs
      BY <1>3, <2>3 DEF DeregisterReject
    <3>2. \A q \in Pids \ {frame[c].pid}, d \in Callers : Returning(d, q) => Returning(d, q)'
      BY <1>t, <3>1 DEF Returning
    <3>3. <<frame[c].pid, "reload">> \in rejected'
      BY <2>1, <2>3 DEF Caught
    <3> QED
      BY <1>t, <2>1, <3>1, <3>2, <3>3 DEF ScheduleHeld, Scheduled
  <2> QED
    BY <2>2, <2>3
<1>4. ASSUME NEW s \in Slots, ApplyFinish(s) \/ ApplyReject(s) PROVE ScheduleHeld'
  <2>1. \A d \in Callers, q \in Pids : Returning(d, q) => Returning(d, q)'
    BY <1>4, <1>t DEF ApplyFinish, ApplyReject, Waiting, Returning
  <2>2. rejected \subseteq rejected' /\ UNCHANGED <<runningCronJobs, wanted>>
    BY <1>4 DEF ApplyFinish, ApplyReject, Reject
  <2> QED
    BY <1>s, <2>1, <2>2
<1>5. ASSUME NEW s \in Slots, ApplyEffect(s) \/ TimerFires(s) \/ RevokeEffect(s) \/ RevokeFinish(s)
      PROVE  ScheduleHeld'
  BY <1>5, <1>u DEF ApplyEffect, TimerFires, RevokeEffect, RevokeFinish
<1>6. ASSUME NEW s \in Slots, RevokeReject(s) PROVE ScheduleHeld'
  BY <1>6, <1>u DEF RevokeReject, Reject
<1>7. ASSUME NEW p \in Pids, CronTick(p) PROVE ScheduleHeld'
  BY <1>7, <1>u DEF CronTick
<1>8. ASSUME NEW p \in Pids, UnenforceJob(p) PROVE ScheduleHeld'
  <2>1. /\ frame[Queue].pc = "idle" /\ Deregister(Queue, p, None)
        /\ wanted' = [wanted EXCEPT ![p] = None] /\ rejected' = rejected
    BY <1>8 DEF UnenforceJob, TakeJob
  <2>2. \A q \in Pids \ {p} : Scheduled(q) => Scheduled(q)'
    BY <1>t, <2>1, DeregisterSchedules
  <2> QED
    BY <1>t, <2>1, <2>2 DEF ScheduleHeld
<1>9. ASSUME NEW p \in Pids, NEW v \in Versions, ReenforceJob(p, v) PROVE ScheduleHeld'
  <2>1. /\ frame[Queue].pc = "idle" /\ Deregister(Queue, p, v)
        /\ wanted' = [wanted EXCEPT ![p] = v] /\ rejected' = rejected
        /\ v # None
    BY <1>9, SchedulerAssumption DEF ReenforceJob, TakeJob
  <2>2. \A q \in Pids : (IF q = p THEN v # None ELSE Scheduled(q)) => Scheduled(q)'
    BY <1>t, <2>1, DeregisterSchedules
  <2> QED
    BY <1>t, <2>1, <2>2 DEF ScheduleHeld
<1>10. ASSUME NEW p \in Pids, NEW v \in Versions, EnforceJob(p, v) PROVE ScheduleHeld'
  <2>1. /\ frame[Queue].pc = "idle" /\ rejected' = rejected
        /\ wanted' = [wanted EXCEPT ![p] = v]
        /\ Register(Queue, p, v, runningCronJobs, ticking, act)
    BY <1>10 DEF EnforceJob, TakeJob
  <2>2. /\ runningCronJobs'[p] # None
        /\ \A q \in Pids \ {p} : runningCronJobs'[q] = runningCronJobs[q]
        /\ \A d \in Callers \ {Queue} : frame'[d] = frame[d]
    BY <1>t, <2>1, RegisterSchedules
  <2>3. \A d \in Callers, q \in Pids : Returning(d, q) => Returning(d, q)'
    BY <2>1, <2>2 DEF Returning
  <2> QED
    BY <1>t, <2>1, <2>2, <2>3 DEF ScheduleHeld, Scheduled
<1>11. ASSUME NEW r \in Reloads, ReloadStart(r) PROVE ScheduleHeld'
  BY <1>11, <1>u DEF ReloadStart
<1>12. ASSUME NEW r \in Reloads, ReloadNext(r) PROVE ScheduleHeld'
  <2>1. PICK pv \in todo[r] : Deregister(r, pv[1], pv[2])
    BY <1>12 DEF ReloadNext
  <2>2. /\ pv[1] \in Pids /\ pv[2] \in Versions /\ r \in Callers /\ pv[2] # None
        /\ frame[r].pc = "idle"
    BY <1>12, <1>t, SchedulerAssumption DEF Callers, ReloadNext, Looping
  <2>3. \A q \in Pids : (IF q = pv[1] THEN pv[2] # None ELSE Scheduled(q)) => Scheduled(q)'
    BY <1>t, <2>1, <2>2, DeregisterSchedules
  <2> QED
    BY <1>12, <1>t, <2>2, <2>3 DEF ScheduleHeld, ReloadNext
<1>13. CASE UNCHANGED vars
  BY <1>13, <1>u DEF vars
<1> QED
  BY <1>1, <1>2, <1>3, <1>4, <1>5, <1>6, <1>7, <1>8, <1>9, <1>10, <1>11, <1>12, <1>13
     DEF Next, CallerStep, ActivationStep

\* A policy the queue last asked to enforce has a cron job whenever neither the
\* queue nor a reload is at work, unless an unenforce of it rejected in a reload:
\* not a reenforce, nor an error of one, nor any number of reloads at once loses it.
THEOREM AskedIsScheduled == Spec => []ScheduledStaysScheduled
<1>1. ScheduleInv => ScheduledStaysScheduled
  BY DEF ScheduleInv, ScheduleHeld, Scheduled, Returning, ScheduledStaysScheduled
<1> QED
  BY <1>1, InitScheduleInv, StepScheduleInv, PTL DEF Spec
-----------------------------------------------------------------------------
(* Rules as they are installed. The invariant, InstallInv, follows a rule that *)
(* is taken down: what is left of it is a subset of what the worker still has  *)
(* to remove (HasTaken), the entries of a rule of QoS are those with the mark  *)
(* of its handler (MarkFits), the map is one-to-one (MapFits), and a rule that *)
(* is disabled and not gone has a revocation under way or in the queue, after  *)
(* all other jobs for it (ToRevoke).                                           *)

\* What a rule may say so that its parts can be found again when it is revoked:
\* a plain one has no ttl, one for a category does not depend on smart_block, and
\* one of QoS is for one thing and is done by the queue.
Regular(r) ==
    /\ r.tags \in Seq(STRING) /\ r.scopes \in Seq(STRING)
    /\ (/\ r.type \in {"ip", "domain"} /\ r.action \in {"allow", "block"}
        /\ r.tags = <<>> /\ r.scopes = <<>> /\ ~r.hi) => ~r.ttl
    /\ r.type = "category" => ~r.dnsmasq_only
    /\ r.action = "qos" => ~r.cronTime /\ Len(r.tags) + Len(r.scopes) <= 1

\* What a rule may be for. (That a string is in STRING the provers do not know.)
Things == STRING \cup {"global"}

IsQos(p) == rule[p].action = "qos"

\* The things a rule is for, and the entries in chains that it has for one of them.
Ends(p) == UNION {Install!Range(c) : c \in Install!Range(Install!Calls(p))}
SetName(p) ==
    IF Install!Plain(p) THEN Install!Shared(p)
    ELSE IF rule[p].type = "category" THEN <<"category", rule[p].target, "dynamic">>
         ELSE IF rule[p].type = "internet" THEN <<"monitored">> ELSE Install!Own(p)
Entry(p, e, mark) ==
    {[pid |-> p, set |-> SetName(p), on |-> c, mark |-> mark] : c \in Install!On(p, e)}
Marks == Install!Handlers \cup {None}
EntryOf(c, E) == \E e \in E : c \in Entry(c.pid, e, c.mark)
AllEntries == UNION {UNION {UNION {Entry(p, e, m) : m \in Marks} : e \in Ends(p)} : p \in RulePids}
Shaped(c) == c \in AllEntries /\ (c.mark = None <=> ~IsQos(c.pid))

Steps == {"idle", "dns", "set", "call", "element", "allocate", "store", "class", "release"}
QosSteps == {"allocate", "store", "class", "release"}
Tasks == [pc : Steps, pid : RulePids \cup {None}, op : {"create", "destroy", None}, then : BOOLEAN,
           calls : Seq(Seq(Things)), elems : Seq(Things), found : SUBSET AllEntries, handler : Marks]

Coming(f) == Install!Range(f.elems) \cup UNION {Install!Range(c) : c \in Install!Range(f.calls)}

InstallTypes ==
    /\ worker \in [Install!Workers -> Tasks]
    /\ queue \in Seq({"enforce", "unenforce", "reenforce"} \X RulePids)
    /\ enabled \subseteq RulePids /\ IsFiniteSet(enabled)
    /\ filters \subseteq RulePids
    /\ \A p \in RulePids : Regular(rule[p])
    /\ check = [pc |-> check.pc, rules |-> check.rules, cache |-> check.cache]
    /\ check.rules \subseteq {p \in RulePids : Install!NeedsCheck(p)}

\* Whose job f is.
Aims(w, f) ==
    /\ f.pc = "idle" <=> f.pid = None
    /\ f.then => f.op = "destroy"
    /\ f.pc # "idle" =>
          /\ f.op \in {"create", "destroy"}
          /\ IF w = Queue THEN rule[f.pid].cronTime => Install!NeedsCheck(f.pid)
             ELSE f.pid = w /\ rule[w].cronTime /\ ~f.then /\ (f.op = "create" <=> w \in enabled)

\* What a worker has in hand.
Holds(f) ==
    /\ f.pc = "idle" => f = Install!Idle
    /\ f.pc # "idle" => Coming(f) \subseteq Ends(f.pid)
    /\ f.pc \in {"dns", "set", "call"} => f.elems = <<>>
    /\ f.pc \in {"dns", "set"} => f.calls = <<>>
    /\ \A c \in f.found : c.pid = f.pid /\ Shaped(c)
    /\ f.pc \in QosSteps => f.elems # <<>> /\ IsQos(f.pid)
    /\ f.pc \in {"call", "element"} \cup QosSteps => ~Install!Plain(f.pid)

\* The parts that are there.
PartsFit ==
    /\ \A p \in filters : Install!FiltersDns(p)
    /\ \A m \in ipset : \A p \in RulePids : m[1] = Install!Own(p) =>
          /\ Install!Fills(p) /\ ~Install!Plain(p)
          /\ \E t \in rule[p].target : m = <<Install!Own(p), t>>
    /\ \A c \in chains : Shaped(c)
MapFits ==
    /\ handlerOf \in [RulePids -> Marks]
    /\ policyOf \in [Install!Handlers -> RulePids \cup {None}]
    /\ class \in [Install!Handlers -> RulePids \cup {None}]
    /\ \A p \in RulePids, h \in Install!Handlers : handlerOf[p] = h <=> policyOf[h] = p
    /\ \A p \in RulePids : handlerOf[p] # None => IsQos(p)
    /\ \A h \in Install!Handlers : class[h] # None => policyOf[h] = class[h]

\* The queue at a rule of QoS.
QosFits(f) ==
    f.pc # "idle" /\ IsQos(f.pid) =>
        /\ f.pc # "call" => f.calls = <<>>
        /\ f.pc = "call" => f.calls = <<>> \/ f.calls = Install!Calls(f.pid)
        /\ f.elems # <<>> => f.elems = Install!Calls(f.pid)[1] /\ f.found = {}
        /\ f.pc \in {"store", "class", "release"} => f.handler # None
        /\ f.pc = "store" => policyOf[f.handler] = None /\ handlerOf[f.pid] = None
        /\ f.pc \in {"class", "release"} => handlerOf[f.pid] = f.handler
        /\ f.pc = "release" => f.op = "destroy" /\ class[f.handler] = None
        /\ f.pc = "element" /\ f.op = "create" =>
              \A c \in f.found : handlerOf[f.pid] = c.mark /\ class[c.mark] = f.pid

\* The mark of an entry is the handler of its rule, which the queue may be at.
MarkFits(c, f) ==
    c.mark # None =>
        \/ /\ handlerOf[c.pid] = c.mark
           /\ class[c.mark] = c.pid \/ (f.pc = "release" /\ f.pid = c.pid)
        \/ /\ f.pid = c.pid /\ f.pc = "element" /\ f.elems = <<>> /\ f.op = "destroy"
           /\ c \in f.found

\* What a worker that takes a rule down has done of it.
HasTaken(f) ==
    f.pc # "idle" /\ f.op = "destroy" /\ ~Install!NeedsCheck(f.pid) =>
        /\ f.pc # "dns" => f.pid \notin filters
        /\ f.pc \notin {"dns", "set"} => \A m \in ipset : m[1] # Install!Own(f.pid)
        /\ f.pc \in {"call", "element"} /\ ~IsQos(f.pid) =>
              \A c \in chains : c.pid = f.pid =>
                  (f.pc = "element" /\ c \in f.found) \/ EntryOf(c, Coming(f))
        /\ IsQos(f.pid) /\ f.pc = "call" /\ f.calls = <<>> =>
              handlerOf[f.pid] = None /\ \A c \in chains : c.pid # f.pid
        /\ IsQos(f.pid) /\ f.pc = "element" /\ f.elems = <<>> => handlerOf[f.pid] = None

\* A rule that is disabled is gone, or it is being revoked, or that is to come.
Revocation(p) == {j \in DOMAIN queue : queue[j] = <<"unenforce", p>>}
JobsFit ==
    \A i \in DOMAIN queue : rule[queue[i][2]].cronTime => Install!NeedsCheck(queue[i][2])
ToRevoke(p) ==
    IF rule[p].cronTime THEN worker[p].pc = "idle" => Install!Gone(p)
    ELSE /\ \A i \in DOMAIN queue : queue[i][2] = p => \E j \in Revocation(p) : j >= i
         /\ worker[Queue].pid = p /\ (worker[Queue].op = "create" \/ worker[Queue].then) =>
               Revocation(p) # {}
         /\ worker[Queue].pid # p /\ Revocation(p) = {} => Install!Gone(p)
AllRevoked == \A p \in RulePids : p \notin enabled /\ ~Install!NeedsCheck(p) => ToRevoke(p)

InstallInv ==
    /\ InstallTypes
    /\ \A w \in Install!Workers : Aims(w, worker[w]) /\ Holds(worker[w]) /\ HasTaken(worker[w])
    /\ PartsFit /\ MapFits /\ QosFits(worker[Queue])
    /\ \A c \in chains : MarkFits(c, worker[Queue])
    /\ JobsFit /\ AllRevoked
-----------------------------------------------------------------------------
(* What a rule is made of *)

\* What a rule is made of depends on the rules only.
LEMMA RulesStay ==
  ASSUME rule' = rule
  PROVE  /\ \A p \in RulePids : /\ IsQos(p)' = IsQos(p) /\ Ends(p)' = Ends(p)
                                /\ Install!Calls(p)' = Install!Calls(p)
                                /\ Install!Plain(p)' = Install!Plain(p)
                                /\ Install!Fills(p)' = Install!Fills(p)
                                /\ Install!FiltersDns(p)' = Install!FiltersDns(p)
                                /\ Install!NeedsCheck(p)' = Install!NeedsCheck(p)
                                /\ Install!Own(p)' = Install!Own(p)
                                /\ SetName(p)' = SetName(p)
                                /\ \A e, m : Entry(p, e, m)' = Entry(p, e, m)
         /\ AllEntries' = AllEntries /\ Tasks' = Tasks
         /\ \A c : c.pid \in RulePids => Shaped(c)' = Shaped(c)
<1>1. \A p \in RulePids : /\ IsQos(p)' = IsQos(p) /\ Ends(p)' = Ends(p)
                          /\ Install!Calls(p)' = Install!Calls(p)
                          /\ Install!Plain(p)' = Install!Plain(p)
                          /\ Install!Fills(p)' = Install!Fills(p)
                          /\ Install!FiltersDns(p)' = Install!FiltersDns(p)
                          /\ Install!NeedsCheck(p)' = Install!NeedsCheck(p)
                          /\ Install!Own(p)' = Install!Own(p)
                          /\ SetName(p)' = SetName(p)
                          /\ \A e, m : Entry(p, e, m)' = Entry(p, e, m)
  BY DEF IsQos, Ends, Install!Calls, Install!Plain, Install!Fills, Install!FiltersDns,
     Install!NeedsCheck, Install!Own, SetName, Entry, Install!Filtering, Install!Shared, Install!On
<1>2. AllEntries' = AllEntries
  BY <1>1 DEF AllEntries, Marks
<1> QED
  BY <1>1, <1>2 DEF Tasks, Shaped, Marks

\* A regular rule is revoked as what it was enforced as.
LEMMA RuleIs ==
  ASSUME NEW p \in RulePids, Regular(rule[p]), NEW op \in {"create", "destroy"}
  PROVE  /\ Install!Simple(p, op) <=> Install!Plain(p)
         /\ Install!Plain(p) => Install!NeedsCheck(p)
         /\ IsQos(p) => ~Install!Plain(p) /\ ~Install!NeedsCheck(p) /\ ~rule[p].cronTime
         /\ Install!SetOf(p, op) = SetName(p)
         /\ \A e, m : Install!Entries(p, op, e, m) = Entry(p, e, m)
<1>1. Install!Simple(p, op) <=> Install!Plain(p)
  BY DEF Install!Simple, Install!Plain, Install!Filtering, Regular
<1>2. Install!Plain(p) => Install!NeedsCheck(p)
  BY DEF Install!NeedsCheck, Install!Plain, Install!Filtering, Regular
<1>3. IsQos(p) => ~Install!Plain(p) /\ ~Install!NeedsCheck(p) /\ ~rule[p].cronTime
  BY DEF Install!NeedsCheck, Install!Plain, Install!Filtering, Regular, IsQos
<1>4. Install!SetOf(p, op) = SetName(p)
  BY <1>1 DEF Install!SetOf, SetName, Install!DnsOnly, Regular
<1> QED
  BY <1>1, <1>2, <1>3, <1>4 DEF Install!Entries, Entry

\* An entry names its rule and its mark.
LEMMA EntryHas ==
  ASSUME NEW p \in RulePids, NEW e, NEW m, NEW c \in Entry(p, e, m)
  PROVE  c.pid = p /\ c.mark = m
BY DEF Entry

\* No other rule has entries for a set of a rule's own.
LEMMA OwnSets ==
  ASSUME NEW p \in RulePids, NEW q \in RulePids, SetName(p) = Install!Own(q)
  PROVE  p = q /\ ~Install!Plain(p)
<1>1. Install!Shared(p)[1] = "shared" /\ Install!Own(q)[1] = "own"
      /\ <<"category", rule[p].target, "dynamic">>[1] = "category"
      /\ <<"monitored">>[1] = "monitored"
  BY DEF Install!Shared, Install!Own
<1>2. SetName(p) = Install!Own(p) /\ ~Install!Plain(p)
  BY <1>1 DEF SetName
<1> QED
  BY <1>2 DEF Install!Own

\* The members of the set of a rule are its targets.
LEMMA MembersAre ==
  ASSUME NEW p \in RulePids, Regular(rule[p]), NEW op \in {"create", "destroy"}
  PROVE  /\ \A m \in Install!Members(p, op) :
              Install!Fills(p) /\ \E t \in rule[p].target : m = <<SetName(p), t>>
         /\ Install!Fills(p) => \A t \in rule[p].target : <<SetName(p), t>> \in Install!Members(p, op)
BY RuleIs DEF Install!Members

\* A function on 1 .. n is a sequence.
LEMMA FunctionIsSeq ==
  ASSUME NEW n \in Nat, NEW S, NEW D \in [1 .. n -> S]
  PROVE  D \in Seq(S) /\ Len(D) = n
OBVIOUS

\* The calls for a rule; a rule of QoS has one, for one thing.
LEMMA CallsAre ==
  ASSUME NEW p \in RulePids, Regular(rule[p])
  PROVE  /\ Install!Calls(p) \in Seq(Seq(Things)) /\ Install!Calls(p) # <<>>
         /\ IsQos(p) => \E e \in Things : Install!Calls(p) = << <<e>> >>
<1> DEFINE T == rule[p].tags
           S == rule[p].scopes
           D == [i \in DOMAIN S |-> <<S[i]>>]
           C == IF T = <<>> THEN <<>> ELSE <<T>>
<1>1. T \in Seq(Things) /\ S \in Seq(Things)
  <2>1. T \in Seq(STRING) /\ S \in Seq(STRING)
    BY DEF Regular
  <2> QED
    BY <2>1, SeqMonotonic DEF Things
<1>g. "global" \in Things
  BY DEF Things
<1>2. DOMAIN S = 1 .. Len(S) /\ Len(S) \in Nat /\ Len(T) \in Nat
      /\ (Len(T) = 0 => T = <<>>) /\ (Len(S) = 0 => S = <<>>)
  BY <1>1, LenProperties, EmptySeq
<1>3. \A i \in 1 .. Len(S) : <<S[i]>> \in Seq(Things)
  BY <1>1, ElementOfSeq
<1>4. D \in Seq(Seq(Things)) /\ Len(D) = Len(S)
  <2>1. D \in [1 .. Len(S) -> Seq(Things)]
    BY <1>2, <1>3
  <2> HIDE DEF D
  <2> QED
    BY <1>2, <2>1, FunctionIsSeq
<1>5. C \in Seq(Seq(Things))
  BY <1>1
<1>6. C \o D \in Seq(Seq(Things))
  BY <1>4, <1>5, ConcatProperties
<1>7. Install!Calls(p) = IF C \o D = <<>> THEN << <<"global">> >> ELSE C \o D
  BY DEF Install!Calls
<1>8. << <<"global">> >> \in Seq(Seq(Things)) /\ << <<"global">> >> # <<>>
  BY <1>g
<1> HIDE DEF C, D
<1>9. ASSUME IsQos(p) PROVE \E e \in Things : Install!Calls(p) = << <<e>> >>
  <2>1. Len(T) + Len(S) <= 1
    BY <1>9 DEF Regular, IsQos
  <2>2. CASE Len(T) = 1
    <3>0. S = <<>> /\ T # <<>> /\ T[1] \in Things
      BY <1>1, <1>2, <2>1, <2>2, ElementOfSeq, EmptySeq, SMTT(40)
    <3>1. PICK e \in Things : T = <<e>>
      <4>1. <<T[1]>> \in Seq(Things) /\ Len(<<T[1]>>) = 1 /\ <<T[1]>>[1] = T[1]
        BY <3>0
      <4> QED
        BY <1>1, <2>2, <3>0, <4>1, SeqEqual
    <3>4. C = << <<e>> >>
      BY <3>0, <3>1 DEF C
    <3>2. D = <<>>
      BY <1>4, <3>0, EmptySeq
    <3>3. C \o D = << <<e>> >>
      BY <1>5, <3>2, <3>4, ConcatEmptySeq
    <3> QED
      BY <1>7, <3>3
  <2>3. CASE Len(T) = 0 /\ Len(S) = 1
    <3>1. C = <<>>
      BY <1>2, <2>3 DEF C
    <3>0. PICK e \in Things : e = S[1]
      BY <1>1, <2>3, ElementOfSeq
    <3>2. D = << <<e>> >>
      <4>1. D[1] = <<e>>
        BY <1>2, <2>3, <3>0 DEF D
      <4>2. << <<e>> >> \in Seq(Seq(Things)) /\ Len(<< <<e>> >>) = 1 /\ << <<e>> >>[1] = <<e>>
        OBVIOUS
      <4> QED
        BY <1>4, <2>3, <4>1, <4>2, SeqEqual
    <3>3. C \o D = D
      BY <1>4, <3>1, ConcatEmptySeq
    <3> QED
      BY <1>7, <3>2, <3>3
  <2>4. CASE Len(T) = 0 /\ Len(S) = 0
    <3>1. T = <<>> /\ S = <<>> /\ C = <<>>
      BY <1>2, <2>4 DEF C
    <3>2. D = <<>>
      BY <1>4, <2>4, EmptySeq
    <3>3. C \o D = <<>>
      BY <1>4, <3>1, <3>2, ConcatEmptySeq
    <3> QED
      BY <1>g, <1>7, <3>3
  <2>5. Len(T) = 1 \/ (Len(T) = 0 /\ Len(S) = 1) \/ (Len(T) = 0 /\ Len(S) = 0)
    <3>1. \A m, n \in Nat : m + n <= 1 => m = 1 \/ (m = 0 /\ n = 1) \/ (m = 0 /\ n = 0)
      OBVIOUS
    <3>2. Len(T) \in Nat /\ Len(S) \in Nat
      BY <1>2
    <3> HIDE DEF T, S
    <3> QED
      BY <2>1, <3>1, <3>2
  <2> QED
    BY <2>2, <2>3, <2>4, <2>5
<1> QED
  BY <1>6, <1>7, <1>8, <1>9

\* What a sequence holds is its head and what its tail holds.
LEMMA RangeOf ==
  ASSUME NEW S, NEW s \in Seq(S)
  PROVE  /\ Install!Range(<<>>) = {}
         /\ s # <<>> => Install!Range(s) = {Head(s)} \cup Install!Range(Tail(s))
<1>1. Install!Range(<<>>) = {}
  BY DEF Install!Range
<1>2. ASSUME s # <<>> PROVE Install!Range(s) = {Head(s)} \cup Install!Range(Tail(s))
  <2>1. /\ Tail(s) \in Seq(S) /\ Len(Tail(s)) = Len(s) - 1 /\ Head(s) = s[1]
        /\ \A i \in 1 .. Len(Tail(s)) : Tail(s)[i] = s[i + 1]
    BY <1>2, HeadTailProperties
  <2>2. DOMAIN s = 1 .. Len(s) /\ DOMAIN Tail(s) = 1 .. Len(Tail(s)) /\ Len(s) \in Nat \ {0}
    BY <1>2, <2>1, LenProperties, EmptySeq
  <2>3. \A x \in Install!Range(s) : x = Head(s) \/ x \in Install!Range(Tail(s))
    <3> TAKE x \in Install!Range(s)
    <3>1. PICK i \in 1 .. Len(s) : x = s[i]
      BY <2>2 DEF Install!Range
    <3>2. CASE i = 1
      BY <2>1, <3>1, <3>2
    <3>3. CASE i # 1
      <4>1. i - 1 \in 1 .. Len(Tail(s)) /\ Tail(s)[i - 1] = s[i]
        BY <2>1, <2>2, <3>1, <3>3
      <4> QED
        BY <2>2, <3>1, <4>1 DEF Install!Range
    <3> QED
      BY <3>2, <3>3
  <2>4. Head(s) \in Install!Range(s)
    BY <2>1, <2>2 DEF Install!Range
  <2>5. \A x \in Install!Range(Tail(s)) : x \in Install!Range(s)
    <3> TAKE x \in Install!Range(Tail(s))
    <3>1. PICK i \in 1 .. Len(Tail(s)) : x = Tail(s)[i]
      BY <2>2 DEF Install!Range
    <3> QED
      BY <2>1, <2>2, <3>1 DEF Install!Range
  <2> QED
    BY <2>3, <2>4, <2>5
<1> QED
  BY <1>1, <1>2

\* What is to come of calls s when the elements e of a call are under way.
LEMMA ComingAre ==
  ASSUME NEW f, NEW g, f.elems \in Seq(Things), f.calls \in Seq(Seq(Things))
  PROVE  /\ f.elems = <<>> /\ f.calls = <<>> => Coming(f) = {}
         /\ /\ f.elems = <<>> /\ f.calls # <<>>
            /\ g.elems = Head(f.calls) /\ g.calls = Tail(f.calls)
            => Coming(g) = Coming(f)
         /\ f.elems # <<>> /\ g.elems = Tail(f.elems) /\ g.calls = f.calls
            => Coming(f) = {Head(f.elems)} \cup Coming(g)
<1>1. f.elems # <<>> => Install!Range(f.elems) = {Head(f.elems)} \cup Install!Range(Tail(f.elems))
  BY RangeOf
<1>2. f.calls # <<>> => Install!Range(f.calls) = {Head(f.calls)} \cup Install!Range(Tail(f.calls))
  BY RangeOf
<1>3. Install!Range(<<>>) = {}
  BY RangeOf, EmptySeq
<1>4. f.elems = <<>> /\ f.calls = <<>> => Coming(f) = {}
  BY <1>3 DEF Coming
<1>5. ASSUME f.elems = <<>>, f.calls # <<>>, g.elems = Head(f.calls), g.calls = Tail(f.calls)
      PROVE  Coming(g) = Coming(f)
  BY <1>2, <1>3, <1>5 DEF Coming
<1>6. ASSUME f.elems # <<>>, g.elems = Tail(f.elems), g.calls = f.calls
      PROVE  Coming(f) = {Head(f.elems)} \cup Coming(g)
  BY <1>1, <1>6 DEF Coming
<1> QED
  BY <1>4, <1>5, <1>6
-----------------------------------------------------------------------------
(* A step of a worker and the rest *)

\* A step for rule p leaves the parts of other rules alone.
Untouched(p) ==
    /\ UNCHANGED <<rule, enabled, queue, check>>
    /\ filters' \subseteq RulePids
    /\ \A q \in RulePids \ {p} :
          /\ q \in filters' => q \in filters
          /\ \A m \in ipset' : m[1] = Install!Own(q) => m \in ipset
          /\ handlerOf'[q] = handlerOf[q]
          /\ \A h \in Install!Handlers : class'[h] = q => class[h] = q
          /\ \A h \in Install!Handlers : policyOf'[h] = q => policyOf[h] = q
    /\ \A c \in chains' : c.pid # p => c \in chains

Step(w, f, g) ==
    /\ worker[w] = f /\ f.pc # "idle"
    /\ worker' = [worker EXCEPT ![w] = g] /\ g \in Tasks
    /\ Untouched(f.pid)

\* The job goes on, or it ends; one that revokes ends when the rule is gone.
GoesOn(f, g) == g.pc # "idle" /\ g.pid = f.pid /\ g.op = f.op /\ g.then = f.then
After(f) ==
    IF f.then THEN [Install!Idle EXCEPT !.pc = "dns", !.pid = f.pid, !.op = "create"]
    ELSE Install!Idle
IsDone(f, g) ==
    /\ g = After(f)
    /\ f.op = "destroy" /\ ~Install!NeedsCheck(f.pid) => Install!Gone(f.pid)'

\* None and the queue are no policies.
LEMMA NoneIsNone ==
  /\ None \notin RulePids /\ None \notin Install!Handlers /\ Queue \notin RulePids
  /\ Queue \in Install!Workers /\ RulePids \subseteq Install!Workers
  /\ \A w \in Install!Workers : w # Queue => w \in RulePids
BY InstallAssumption DEF Install!Handlers, Install!Workers

\* A worker that is idle has nothing.
LEMMA IdleIsTask ==
  /\ Install!Idle \in Tasks /\ Install!Idle.pc = "idle" /\ Install!Idle.pid = None
  /\ Install!Idle.op = None /\ ~Install!Idle.then /\ Install!Idle.calls = <<>>
  /\ Install!Idle.elems = <<>> /\ Install!Idle.found = {} /\ Install!Idle.handler = None
BY DEF Install!Idle, Tasks, Steps, Marks

\* What a worker does after a job.
LEMMA AfterIs ==
  ASSUME NEW f \in Tasks
  PROVE  /\ After(f) \in Tasks /\ After(f).calls = <<>> /\ After(f).elems = <<>>
         /\ After(f).found = {} /\ ~After(f).then
         /\ f.then => After(f).pc = "dns" /\ After(f).pid = f.pid /\ After(f).op = "create"
         /\ ~f.then => After(f) = Install!Idle
BY IdleIsTask DEF After, Tasks, Steps

\* At a rule that is not checked there is one worker.
LEMMA AtWork ==
  ASSUME InstallInv, NEW w \in Install!Workers, NEW f, f = worker[w], f.pc # "idle"
  PROVE  /\ f \in Tasks /\ f.pid \in RulePids /\ f.op \in {"create", "destroy"}
         /\ Regular(rule[f.pid]) /\ Aims(w, f) /\ Holds(f) /\ HasTaken(f)
         /\ IsQos(f.pid) => w = Queue
         /\ ~Install!NeedsCheck(f.pid) => w = IF rule[f.pid].cronTime THEN f.pid ELSE Queue
         /\ \A y \in Install!Workers \ {w} :
              worker[y].pid = f.pid => Install!NeedsCheck(f.pid)
<1>1. f \in Tasks /\ Aims(w, f) /\ Holds(f) /\ HasTaken(f)
  BY DEF InstallInv, InstallTypes
<1>2. f.pid \in RulePids /\ f.op \in {"create", "destroy"}
  BY <1>1 DEF Tasks, Aims
<1>3. Regular(rule[f.pid])
  BY <1>2 DEF InstallInv, InstallTypes
<1>4. IsQos(f.pid) => w = Queue
  BY <1>1, <1>2, <1>3, RuleIs DEF Aims
<1>5. ASSUME NEW y \in Install!Workers \ {w}, worker[y].pid = f.pid
      PROVE  Install!NeedsCheck(f.pid)
  <2>1. Aims(y, worker[y]) /\ worker[y].pc # "idle"
    BY <1>2, <1>5, NoneIsNone DEF InstallInv, Aims
  <2>2. CASE w = Queue
    BY <1>1, <1>5, <2>1, <2>2 DEF Aims
  <2>3. CASE y = Queue
    BY <1>1, <1>5, <2>1, <2>3 DEF Aims
  <2>4. CASE w # Queue /\ y # Queue
    BY <1>1, <1>5, <2>1, <2>4 DEF Aims
  <2> QED
    BY <2>2, <2>3, <2>4
<1>6. ~Install!NeedsCheck(f.pid) => w = IF rule[f.pid].cronTime THEN f.pid ELSE Queue
  BY <1>1 DEF Aims
<1> QED
  BY <1>1, <1>2, <1>3, <1>4, <1>5, <1>6

\* What a worker holds depends on the rules only.
LEMMA HeldIsHeld ==
  ASSUME rule' = rule, NEW f, f.pc # "idle" => f.pid \in RulePids, Holds(f)
  PROVE  Holds(f)'
<1>1. CASE f.pc = "idle"
  BY <1>1, IdleIsTask DEF Holds, QosSteps
<1>2. CASE f.pc # "idle"
  <2>1. f.pid \in RulePids
    BY <1>2
  <2>2. /\ Ends(f.pid)' = Ends(f.pid) /\ IsQos(f.pid)' = IsQos(f.pid)
        /\ Install!Plain(f.pid)' = Install!Plain(f.pid)
    BY <2>1, RulesStay
  <2>3. \A c \in f.found : c.pid = f.pid /\ Shaped(c)'
    BY <2>1, RulesStay DEF Holds
  <2>4. Coming(f)' = Coming(f)
    BY DEF Coming
  <2> QED
    BY <1>2, <2>2, <2>3, <2>4 DEF Holds, QosSteps
<1> QED
  BY <1>1, <1>2

\* A step of a worker leaves what holds of the others.
LEMMA OthersKeep ==
  ASSUME InstallInv, NEW w \in Install!Workers, NEW e, NEW g, Step(w, e, g),
         NEW y \in Install!Workers \ {w}, NEW f, f = worker[y]
  PROVE  worker'[y] = f /\ Aims(y, f)' /\ Holds(f)' /\ HasTaken(f)'
<1>1. /\ worker' = [worker EXCEPT ![w] = g] /\ worker \in [Install!Workers -> Tasks]
      /\ rule' = rule /\ enabled' = enabled /\ Untouched(e.pid)
  BY DEF Step, Untouched, InstallInv, InstallTypes
<1>2. Aims(y, f) /\ Holds(f) /\ HasTaken(f) /\ f \in Tasks
  BY <1>1 DEF InstallInv
<1>3. f.pc # "idle" => f.pid \in RulePids
  BY <1>2 DEF Tasks, Aims
<1>4. e.pid \in RulePids /\ (f.pid = e.pid => Install!NeedsCheck(e.pid))
  BY AtWork DEF Step
<1>5. f.pc # "idle" => Install!NeedsCheck(f.pid)' = Install!NeedsCheck(f.pid)
  BY <1>1, <1>3, RulesStay
<1>6. Aims(y, f)'
  BY <1>1, <1>2, <1>5 DEF Aims
<1>7. Holds(f)'
  BY <1>1, <1>2, <1>3, HeldIsHeld
<1>8. HasTaken(f)'
  <2> SUFFICES ASSUME f.pc # "idle", f.op = "destroy", ~Install!NeedsCheck(f.pid)
               PROVE  HasTaken(f)'
    BY <1>5 DEF HasTaken
  <2>1. f.pid \in RulePids \ {e.pid}
    BY <1>3, <1>4
  <2>2. /\ IsQos(f.pid)' = IsQos(f.pid) /\ Install!Own(f.pid)' = Install!Own(f.pid)
        /\ \A d, m : Entry(f.pid, d, m)' = Entry(f.pid, d, m)
    BY <1>1, <2>1, RulesStay
  <2>3. \A c : c.pid = f.pid => (EntryOf(c, Coming(f))' <=> EntryOf(c, Coming(f)))
    BY <2>2 DEF EntryOf, Coming
  <2>4. f.pid \in filters' => f.pid \in filters
    BY <1>1, <2>1 DEF Untouched
  <2>5. \A m \in ipset' : m[1] = Install!Own(f.pid) => m \in ipset
    BY <1>1, <2>1 DEF Untouched
  <2>6. \A c \in chains' : c.pid = f.pid => c \in chains
    BY <1>1, <2>1 DEF Untouched
  <2>7. handlerOf'[f.pid] = handlerOf[f.pid]
    BY <1>1, <2>1 DEF Untouched
  <2> QED
    BY <1>2, <1>5, <2>2, <2>3, <2>4, <2>5, <2>6, <2>7 DEF HasTaken
<1> QED
  BY <1>1, <1>2, <1>6, <1>7, <1>8

\* A rule that is gone stays so while another is worked on.
LEMMA GoneStays ==
  ASSUME NEW p \in RulePids, NEW q \in RulePids \ {p}, Untouched(p), Install!Gone(q)
  PROVE  Install!Gone(q)'
<1>1. Install!Own(q)' = Install!Own(q)
  BY DEF Install!Own
<1>2. q \notin filters' /\ handlerOf'[q] = None
  BY DEF Untouched, Install!Gone
<1>3. \A c \in chains' : c.pid # q
  BY DEF Untouched, Install!Gone
<1>4. \A m \in ipset' : m[1] # Install!Own(q)
  BY DEF Untouched, Install!Gone
<1>5. \A h \in Install!Handlers : class'[h] # q /\ policyOf'[h] # q
  BY DEF Untouched, Install!Gone
<1> QED
  BY <1>1, <1>2, <1>3, <1>4, <1>5 DEF Install!Gone, Install!Handlers

\* A job that goes on or is done keeps the revocations that are to come.
LEMMA RevokedKeep ==
  ASSUME InstallInv, NEW w \in Install!Workers, NEW f, NEW g, Step(w, f, g),
         GoesOn(f, g) \/ IsDone(f, g)
  PROVE  AllRevoked'
<1>1. /\ worker' = [worker EXCEPT ![w] = g] /\ worker \in [Install!Workers -> Tasks]
      /\ rule' = rule /\ enabled' = enabled /\ queue' = queue /\ Untouched(f.pid)
      /\ f = worker[w] /\ f.pc # "idle"
  BY DEF Step, Untouched, InstallInv, InstallTypes
<1>2. /\ f \in Tasks /\ f.pid \in RulePids /\ f.op \in {"create", "destroy"} /\ Aims(w, f)
      /\ ~Install!NeedsCheck(f.pid) => w = IF rule[f.pid].cronTime THEN f.pid ELSE Queue
  BY <1>1, AtWork
<1>3. /\ worker'[w] = g /\ \A y \in Install!Workers \ {w} : worker'[y] = worker[y]
  BY <1>1
<1> SUFFICES ASSUME NEW p \in RulePids, p \notin enabled, ~Install!NeedsCheck(p)'
             PROVE  ToRevoke(p)'
  BY <1>1 DEF AllRevoked
<1>4. ~Install!NeedsCheck(p) /\ ToRevoke(p)
  BY <1>1, RulesStay DEF InstallInv, AllRevoked
<1>5. p # f.pid /\ Install!Gone(p) => Install!Gone(p)'
  BY <1>1, <1>2, GoneStays
<1>7. CASE rule[p].cronTime
  <2> SUFFICES ASSUME worker'[p].pc = "idle" PROVE Install!Gone(p)'
    BY <1>1, <1>7 DEF ToRevoke
  <2>1. CASE w = p
    <3>1. f.pid = p /\ f.op = "destroy" /\ ~f.then
      BY <1>1, <1>2, <2>1, NoneIsNone DEF Aims
    <3>2. g.pc = "idle"
      BY <1>3, <2>1
    <3> QED
      BY <1>4, <3>1, <3>2 DEF GoesOn, IsDone
  <2>2. CASE w # p
    <3>1. p # f.pid
      BY <1>2, <1>4, <1>7, <2>2
    <3>2. worker[p].pc = "idle"
      BY <1>3, <2>2, NoneIsNone
    <3> QED
      BY <1>4, <1>5, <1>7, <3>1, <3>2 DEF ToRevoke
  <2> QED
    BY <2>1, <2>2
<1>8. CASE ~rule[p].cronTime
  <2>1. Revocation(p)' = Revocation(p)
    BY <1>1 DEF Revocation
  <2>2. \A i \in DOMAIN queue : queue[i][2] = p => \E j \in Revocation(p) : j >= i
    BY <1>4, <1>8 DEF ToRevoke
  <2>3. CASE w # Queue
    <3>1. p # f.pid
      BY <1>2, <1>4, <1>8, <2>3
    <3>2. worker'[Queue] = worker[Queue]
      BY <1>3, <2>3, NoneIsNone
    <3> QED
      BY <1>1, <1>4, <1>5, <1>8, <2>1, <2>2, <3>1, <3>2 DEF ToRevoke
  <2>4. CASE w = Queue
    <3>1. worker[Queue] = f /\ worker'[Queue] = g
      BY <1>1, <1>3, <2>4
    <3>2. g.pid = p /\ (g.op = "create" \/ g.then) =>
             f.pid = p /\ (f.op = "create" \/ f.then)
      BY <1>2, AfterIs, IdleIsTask, NoneIsNone DEF GoesOn, IsDone
    <3>3. ASSUME g.pid # p, Revocation(p) = {} PROVE Install!Gone(p)'
      <4>1. CASE f.pid = p
        <5>1. f.op = "destroy" /\ ~f.then
          BY <1>2, <1>4, <1>8, <3>1, <3>3, <4>1 DEF ToRevoke
        <5>2. IsDone(f, g)
          BY <3>3, <4>1 DEF GoesOn
        <5> QED
          BY <1>4, <4>1, <5>1, <5>2 DEF IsDone
      <4>2. CASE f.pid # p
        BY <1>4, <1>5, <1>8, <3>1, <3>3, <4>2 DEF ToRevoke
      <4> QED
        BY <4>1, <4>2
    <3>4. f.pid = p /\ (f.op = "create" \/ f.then) => Revocation(p) # {}
      BY <1>4, <1>8, <3>1 DEF ToRevoke
    <3> QED
      BY <1>1, <1>8, <2>1, <2>2, <3>1, <3>2, <3>3, <3>4 DEF ToRevoke
  <2> QED
    BY <2>3, <2>4
<1> QED
  BY <1>7, <1>8

\* A step of a worker keeps what is about jobs and queue.
LEMMA RestKeeps ==
  ASSUME InstallInv, NEW w \in Install!Workers, NEW f, NEW g, Step(w, f, g),
         GoesOn(f, g) \/ IsDone(f, g)
  PROVE  InstallTypes' /\ JobsFit' /\ Aims(w, g)'
<1>1. /\ worker' = [worker EXCEPT ![w] = g] /\ worker \in [Install!Workers -> Tasks]
      /\ rule' = rule /\ enabled' = enabled /\ queue' = queue /\ check' = check
      /\ filters' \subseteq RulePids /\ g \in Tasks /\ f = worker[w] /\ f.pc # "idle"
  BY DEF Step, Untouched, InstallInv, InstallTypes
<1>2. /\ f \in Tasks /\ f.pid \in RulePids /\ f.op \in {"create", "destroy"} /\ Aims(w, f)
  BY <1>1, AtWork
<1>3. /\ Tasks' = Tasks /\ \A p \in RulePids : Install!NeedsCheck(p)' = Install!NeedsCheck(p)
      /\ \A p \in RulePids : Regular(rule[p])'
  BY <1>1, RulesStay DEF InstallInv, InstallTypes
<1>4. Install!Workers' = Install!Workers
  BY DEF Install!Workers
<1>5. InstallTypes'
  <2>1. worker' \in [Install!Workers -> Tasks]
    BY <1>1
  <2>2. check' = [pc |-> check'.pc, rules |-> check'.rules, cache |-> check'.cache]
        /\ check'.rules \subseteq {p \in RulePids : Install!NeedsCheck(p)}
    BY <1>1 DEF InstallInv, InstallTypes
  <2>3. {p \in RulePids : Install!NeedsCheck(p)}' = {p \in RulePids : Install!NeedsCheck(p)}
    BY <1>3
  <2>4. /\ queue' \in Seq({"enforce", "unenforce", "reenforce"} \X RulePids)
        /\ enabled' \subseteq RulePids /\ IsFiniteSet(enabled')
    BY <1>1 DEF InstallInv, InstallTypes
  <2> QED
    BY <1>1, <1>3, <1>4, <2>1, <2>2, <2>3, <2>4 DEF InstallTypes
<1>6. JobsFit'
  <2>1. \A i \in DOMAIN queue : queue[i][2] \in RulePids
    <3>1. queue \in Seq({"enforce", "unenforce", "reenforce"} \X RulePids)
      BY DEF InstallInv, InstallTypes
    <3> QED
      BY <3>1, ElementOfSeq, LenProperties
  <2> QED
    BY <1>1, <1>3, <2>1 DEF InstallInv, JobsFit
<1>7. Aims(w, g)'
  <2>1. CASE GoesOn(f, g)
    BY <1>1, <1>2, <1>3, <2>1, NoneIsNone DEF GoesOn, Aims
  <2>2. CASE IsDone(f, g) /\ f.then
    <3>1. g.pc = "dns" /\ g.pid = f.pid /\ g.op = "create" /\ ~g.then
      BY <1>2, <2>2, AfterIs DEF IsDone
    <3>2. w = Queue
      BY <1>1, <1>2, <2>2 DEF Aims
    <3> QED
      BY <1>1, <1>2, <1>3, <3>1, <3>2, NoneIsNone DEF Aims
  <2>3. CASE IsDone(f, g) /\ ~f.then
    <3>1. g = Install!Idle
      BY <1>2, <2>3, AfterIs DEF IsDone
    <3> QED
      BY <3>1, IdleIsTask DEF Aims
  <2> QED
    BY <2>1, <2>2, <2>3
<1> QED
  BY <1>5, <1>6, <1>7

\* What a step of worker w does when it turns job f into g.
Fits(w, f, g) ==
    /\ Step(w, f, g) /\ (GoesOn(f, g) \/ IsDone(f, g))
    /\ Holds(g)' /\ HasTaken(g)' /\ PartsFit' /\ MapFits'
    /\ QosFits(worker[Queue])' /\ \A c \in chains' : MarkFits(c, worker[Queue])'

\* A step of a worker that fits keeps the invariant.
LEMMA FitsKeepsInv ==
  ASSUME InstallInv, NEW w \in Install!Workers, NEW f, NEW g, Fits(w, f, g)
  PROVE  InstallInv'
<1>1. InstallTypes' /\ JobsFit' /\ AllRevoked' /\ Aims(w, g)'
  BY RestKeeps, RevokedKeep DEF Fits
<1>2. worker'[w] = g
  BY DEF Fits, Step, InstallInv, InstallTypes
<1>3. \A y \in Install!Workers : Aims(y, worker[y])' /\ Holds(worker[y])' /\ HasTaken(worker[y])'
  <2> TAKE y \in Install!Workers
  <2>1. CASE y = w
    BY <1>1, <1>2, <2>1 DEF Fits, Aims, Holds, HasTaken, Coming, EntryOf
  <2>2. CASE y # w
    <3>1. PICK e : e = worker[y]
      OBVIOUS
    <3>2. worker'[y] = e /\ Aims(y, e)' /\ Holds(e)' /\ HasTaken(e)'
      BY <2>2, <3>1, OthersKeep DEF Fits
    <3> QED
      BY <3>2 DEF Aims, Holds, HasTaken, Coming, EntryOf
  <2> QED
    BY <2>1, <2>2
<1>4. Install!Workers' = Install!Workers
  BY DEF Install!Workers
<1> QED
  BY <1>1, <1>3, <1>4 DEF InstallInv, Fits

\* Steps that leave map and classes alone.
LEMMA QueueFits ==
  ASSUME InstallInv, NEW w \in Install!Workers, NEW f, NEW g, Step(w, f, g),
         UNCHANGED <<handlerOf, policyOf, class>>,
         GoesOn(f, g) \/ IsDone(f, g), IsQos(f.pid) => QosFits(g)'
  PROVE  MapFits' /\ QosFits(worker[Queue])'
<1>1. /\ worker' = [worker EXCEPT ![w] = g] /\ worker \in [Install!Workers -> Tasks]
      /\ rule' = rule /\ worker[w] = f /\ f.pc # "idle"
  BY DEF Step, Untouched, InstallInv, InstallTypes
<1>2. f.pid \in RulePids /\ f \in Tasks
  BY <1>1, AtWork
<1>3. \A p \in RulePids : IsQos(p)' = IsQos(p) /\ Install!Calls(p)' = Install!Calls(p)
  BY <1>1, RulesStay
<1>4. MapFits'
  <2>1. Install!Handlers' = Install!Handlers /\ Marks' = Marks
    BY DEF Install!Handlers, Marks
  <2> QED
    BY <1>3, <2>1 DEF InstallInv, MapFits
<1>5. QosFits(worker[Queue])'
  <2>1. CASE w = Queue
    <3>1. worker'[Queue] = g
      BY <1>1, <2>1
    <3>2. CASE IsQos(f.pid)
      BY <3>1, <3>2 DEF QosFits
    <3>3. CASE ~IsQos(f.pid)
      <4>1. g.pc # "idle" => g.pid = f.pid
        BY <1>2, AfterIs, IdleIsTask DEF GoesOn, IsDone
      <4> QED
        BY <1>2, <1>3, <3>1, <3>3, <4>1 DEF QosFits
    <3> QED
      BY <3>2, <3>3
  <2>2. CASE w # Queue
    <3>1. worker'[Queue] = worker[Queue] /\ worker[Queue] \in Tasks
      BY <1>1, <2>2, NoneIsNone
    <3>2. QosFits(worker[Queue])
      BY DEF InstallInv
    <3>3. Aims(Queue, worker[Queue])
      BY NoneIsNone DEF InstallInv
    <3>4. worker[Queue].pc # "idle" => worker[Queue].pid \in RulePids
      BY <3>1, <3>3 DEF Tasks, Aims
    <3> QED
      BY <1>3, <3>1, <3>2, <3>4 DEF QosFits
  <2> QED
    BY <2>1, <2>2
<1> QED
  BY <1>4, <1>5

\* Steps that leave map, classes and chains alone, but the last one of a revocation.
LEMMA QuietFits ==
  ASSUME InstallInv, NEW w \in Install!Workers, NEW f, NEW g, Step(w, f, g),
         UNCHANGED <<handlerOf, policyOf, class, chains>>,
         f.pc # "release", f.pc = "element" => f.elems # <<>>,
         GoesOn(f, g) \/ IsDone(f, g), IsQos(f.pid) => QosFits(g)'
  PROVE  MapFits' /\ QosFits(worker[Queue])' /\ \A c \in chains' : MarkFits(c, worker[Queue])'
<1>1. /\ worker' = [worker EXCEPT ![w] = g] /\ worker \in [Install!Workers -> Tasks]
      /\ worker[w] = f /\ f.pc # "idle"
  BY DEF Step, Untouched, InstallInv, InstallTypes
<1>2. MapFits' /\ QosFits(worker[Queue])'
  BY QueueFits
<1>6. ASSUME NEW c \in chains PROVE MarkFits(c, worker[Queue])'
  <2>1. MarkFits(c, worker[Queue])
    BY DEF InstallInv
  <2>2. CASE w = Queue
    BY <1>1, <2>1, <2>2 DEF MarkFits
  <2>3. CASE w # Queue
    <3>1. worker'[Queue] = worker[Queue]
      BY <1>1, <2>3, NoneIsNone
    <3> QED
      BY <2>1, <3>1 DEF MarkFits
  <2> QED
    BY <2>2, <2>3
<1> QED
  BY <1>2, <1>6

\* Parts of rules that are untouched.
LEMMA PartsKeep ==
  ASSUME InstallInv, NEW p \in RulePids, Untouched(p),
         p \in filters' => Install!FiltersDns(p),
         \A m \in ipset' : m[1] = Install!Own(p) => m \in ipset \/
             (Install!Fills(p) /\ ~Install!Plain(p)
              /\ \E t \in rule[p].target : m = <<Install!Own(p), t>>),
         \A c \in chains' : c.pid = p => Shaped(c)
  PROVE  PartsFit'
<1>1. rule' = rule /\ filters' \subseteq RulePids
  BY DEF Untouched
<1>2. \A q \in RulePids : /\ Install!FiltersDns(q)' = Install!FiltersDns(q)
                          /\ Install!Own(q)' = Install!Own(q) /\ Install!Fills(q)' = Install!Fills(q)
                          /\ Install!Plain(q)' = Install!Plain(q)
  BY <1>1, RulesStay
<1>3. \A q \in filters' : Install!FiltersDns(q)'
  BY <1>1, <1>2 DEF Untouched, InstallInv, PartsFit
<1>4. ASSUME NEW m \in ipset', NEW q \in RulePids, m[1] = Install!Own(q)
      PROVE  /\ Install!Fills(q) /\ ~Install!Plain(q)
             /\ \E t \in rule[q].target : m = <<Install!Own(q), t>>
  <2>1. CASE m \in ipset
    BY <1>4, <2>1 DEF InstallInv, PartsFit
  <2>2. CASE m \notin ipset
    <3>1. q = p
      BY <1>4, <2>2 DEF Untouched
    <3> QED
      BY <1>4, <2>2, <3>1
  <2> QED
    BY <2>1, <2>2
<1>5. ASSUME NEW c \in chains' PROVE Shaped(c)'
  <2>1. Shaped(c)
    BY DEF Untouched, InstallInv, PartsFit
  <2>2. c.pid \in RulePids
    BY <2>1, EntryHas DEF Shaped, AllEntries
  <2> QED
    BY <1>1, <2>1, <2>2, RulesStay
<1> QED
  BY <1>1, <1>2, <1>3, <1>4, <1>5 DEF PartsFit
-----------------------------------------------------------------------------
(* The steps of _enforce and _unenforce *)

\* Where a job ends, by the code.
LEMMA FinishedIs == \A w : Install!Finished(w) = After(worker[w])
BY DEF Install!Finished, After

\* Something of a job that has just begun, or nothing at all.
LEMMA AfterFits ==
  ASSUME NEW f \in Tasks, rule' = rule
  PROVE  Holds(After(f))' /\ HasTaken(After(f))' /\ QosFits(After(f))'
<1>1. /\ After(f).calls = <<>> /\ After(f).elems = <<>> /\ After(f).found = {}
      /\ After(f).pc = "dns" \/ After(f) = Install!Idle
  BY AfterIs
<1>2. After(f).pc = "dns" => After(f).op = "create"
  BY AfterIs, IdleIsTask
<1>3. Coming(After(f)) = {}
  BY <1>1, ComingAre, EmptySeq
<1> QED
  BY <1>1, <1>2, <1>3, IdleIsTask DEF Holds, HasTaken, QosFits, QosSteps, Coming

\* The entry in dnsmasq's filter.
LEMMA DnsFits ==
  ASSUME InstallInv, NEW w \in Install!Workers, Install!Dns(w)
  PROVE  \E f, g : Fits(w, f, g)
<1> PICK f : f = worker[w]
  OBVIOUS
<1> DEFINE p == f.pid
           last == f.op = "create" /\ rule[p].type = "domain" /\ Install!Filtering(p) /\ Install!DnsOnly(p)
<1>1. /\ f.pc = "dns" /\ worker' = [worker EXCEPT ![w] = IF last THEN After(f) ELSE [f EXCEPT !.pc = "set"]]
      /\ filters' = IF ~Install!FiltersDns(p) THEN filters
                    ELSE IF f.op = "create" THEN filters \cup {p} ELSE filters \ {p}
      /\ UNCHANGED <<rule, enabled, queue, check, ipset, chains, class, handlerOf, policyOf>>
  BY FinishedIs DEF Install!Dns, Install!map, Install!box
<1>2. /\ f \in Tasks /\ p \in RulePids /\ f.op \in {"create", "destroy"} /\ Regular(rule[p])
      /\ Aims(w, f) /\ Holds(f) /\ HasTaken(f)
  BY <1>1, AtWork
<1> PICK g : g = IF last THEN After(f) ELSE [f EXCEPT !.pc = "set"]
  OBVIOUS
<1>3. g \in Tasks
  BY <1>2, AfterIs DEF Tasks, Steps
<1>4. Untouched(p)
  <2>1. filters' \subseteq RulePids
    BY <1>1, <1>2 DEF InstallInv, InstallTypes
  <2> QED
    BY <1>1, <2>1 DEF Untouched
<1>5. Step(w, f, g)
  BY <1>1, <1>3, <1>4 DEF Step
<1>6. GoesOn(f, g) \/ IsDone(f, g)
  <2>1. CASE last
    BY <2>1 DEF IsDone
  <2>2. CASE ~last
    BY <1>2, <2>2 DEF GoesOn, Tasks
  <2> QED
    BY <2>1, <2>2
<1>7. CASE last
  <2>1. Holds(g)' /\ HasTaken(g)' /\ QosFits(g)'
    BY <1>1, <1>2, <1>7, AfterFits
  <2>2. PartsFit'
    BY <1>1, <1>2, <1>4, <1>7, PartsKeep DEF InstallInv, PartsFit
  <2> QED
    BY <1>1, <1>5, <1>6, <2>1, <2>2, QuietFits DEF Fits
<1>8. CASE ~last
  <2>1. g = [f EXCEPT !.pc = "set"] /\ g.pc = "set"
    BY <1>2, <1>8 DEF Tasks
  <2>2. /\ g.pid = p /\ g.op = f.op /\ g.then = f.then /\ g.calls = f.calls /\ g.elems = f.elems
        /\ g.found = f.found
    BY <1>2, <2>1 DEF Tasks
  <2>3. Holds(g)'
    <3>1. Holds(g)
      BY <1>1, <1>2, <2>1, <2>2 DEF Holds, QosSteps, Coming
    <3> QED
      BY <1>1, <1>2, <2>2, <3>1, HeldIsHeld
  <2>4. HasTaken(g)'
    <3>1. f.op = "destroy" => p \notin filters'
      BY <1>1, <1>2 DEF InstallInv, PartsFit
    <3> QED
      BY <2>1, <2>2, <3>1 DEF HasTaken
  <2>5. PartsFit'
    BY <1>1, <1>2, <1>4, PartsKeep DEF InstallInv, PartsFit
  <2>6. QosFits(g)'
    BY <1>1, <1>2, <2>1, <2>2 DEF Holds, QosFits
  <2> QED
    BY <1>1, <1>5, <1>6, <2>3, <2>4, <2>5, <2>6, QuietFits DEF Fits
<1> QED
  BY <1>7, <1>8

\* What the entries in the chains are like.
LEMMA ShapedIs ==
  ASSUME NEW c, Shaped(c)
  PROVE  /\ c.pid \in RulePids /\ c.mark \in Marks /\ EntryOf(c, Ends(c.pid))
         /\ c.mark = None <=> ~IsQos(c.pid)
BY EntryHas DEF Shaped, AllEntries, EntryOf

\* The entries of a rule are like that.
LEMMA EntryIsShaped ==
  ASSUME NEW p \in RulePids, NEW e \in Ends(p), NEW m \in Marks, NEW c \in Entry(p, e, m),
         m = None <=> ~IsQos(p)
  PROVE  Shaped(c) /\ c.pid = p /\ c.mark = m
BY EntryHas DEF Shaped, AllEntries

\* A rule that fills a set, and is not plain, fills its own.
LEMMA OwnIsName ==
  ASSUME NEW p \in RulePids, Install!Fills(p), ~Install!Plain(p)
  PROVE  SetName(p) = Install!Own(p)
BY DEF Install!Fills, SetName

\* The members of the set.
LEMMA FillFits ==
  ASSUME InstallInv, NEW w \in Install!Workers, Install!Fill(w)
  PROVE  \E f, g : Fits(w, f, g)
<1> PICK f : f = worker[w]
  OBVIOUS
<1> DEFINE p == f.pid
           M == Install!Members(p, f.op)
<1>1. /\ f.pc = "set"
      /\ worker' = [worker EXCEPT ![w] = IF Install!Simple(p, f.op) THEN After(f)
                                         ELSE [f EXCEPT !.pc = "call", !.calls = Install!Calls(p)]]
      /\ ipset' = IF f.op = "create" THEN ipset \cup M ELSE ipset \ M
      /\ UNCHANGED <<rule, enabled, queue, check, filters, chains, class, handlerOf, policyOf>>
  BY FinishedIs DEF Install!Fill, Install!map, Install!box
<1>2. /\ f \in Tasks /\ p \in RulePids /\ f.op \in {"create", "destroy"} /\ Regular(rule[p])
      /\ Aims(w, f) /\ Holds(f) /\ HasTaken(f)
  BY <1>1, AtWork
<1>s. Install!Simple(p, f.op) <=> Install!Plain(p)
  BY <1>2, RuleIs
<1> PICK g : g = IF Install!Plain(p) THEN After(f) ELSE [f EXCEPT !.pc = "call", !.calls = Install!Calls(p)]
  OBVIOUS
<1>c. Install!Calls(p) \in Seq(Seq(Things)) /\ Install!Calls(p) # <<>>
  BY <1>2, CallsAre
<1>3. g \in Tasks
  BY <1>2, <1>c, AfterIs DEF Tasks, Steps
<1>m. \A m \in M : Install!Fills(p) /\ \E t \in rule[p].target : m = <<SetName(p), t>>
  BY <1>2, MembersAre
<1>4. Untouched(p)
  <2>1. filters' \subseteq RulePids
    BY <1>1 DEF InstallInv, InstallTypes
  <2>2. ASSUME NEW q \in RulePids \ {p}, NEW m \in ipset', m[1] = Install!Own(q) PROVE m \in ipset
    <3>1. CASE m \in M
      <4>1. m[1] = SetName(p)
        BY <1>m, <3>1
      <4> QED
        BY <1>2, <2>2, <4>1, OwnSets
    <3> QED
      BY <1>1, <3>1
  <2> HIDE DEF M
  <2> QED
    BY <1>1, <2>1, <2>2 DEF Untouched
<1>5. Step(w, f, g)
  BY <1>1, <1>3, <1>4, <1>s DEF Step
<1>6. GoesOn(f, g) \/ IsDone(f, g)
  <2>1. CASE Install!Plain(p)
    BY <1>2, <2>1, RuleIs DEF IsDone
  <2>2. CASE ~Install!Plain(p)
    BY <1>2, <2>2 DEF GoesOn, Tasks
  <2> QED
    BY <2>1, <2>2
<1>7. PartsFit'
  <2>1. ASSUME NEW m \in ipset', m[1] = Install!Own(p), m \notin ipset
        PROVE  /\ Install!Fills(p) /\ ~Install!Plain(p)
               /\ \E t \in rule[p].target : m = <<Install!Own(p), t>>
    <3>1. m \in M
      BY <1>1, <2>1
    <3>2. PICK t \in rule[p].target : m = <<SetName(p), t>> /\ Install!Fills(p)
      BY <1>m, <3>1
    <3>3. SetName(p) = Install!Own(p)
      BY <2>1, <3>2
    <3> QED
      BY <1>2, <3>2, <3>3, OwnSets
  <2>2. p \in filters' => Install!FiltersDns(p)
    BY <1>1 DEF InstallInv, PartsFit
  <2>3. \A c \in chains' : Shaped(c)
    BY <1>1 DEF InstallInv, PartsFit
  <2> HIDE DEF M, p
  <2> QED
    BY <1>2, <1>4, <2>1, <2>2, <2>3, PartsKeep
<1>8. CASE Install!Plain(p)
  <2>1. g = After(f)
    BY <1>8
  <2>2. Holds(g)' /\ HasTaken(g)' /\ QosFits(g)'
    BY <1>1, <1>2, <2>1, AfterFits
  <2> QED
    BY <1>1, <1>5, <1>6, <1>7, <2>2, QuietFits DEF Fits
<1>9. CASE ~Install!Plain(p)
  <2>1. g = [f EXCEPT !.pc = "call", !.calls = Install!Calls(p)]
    BY <1>9
  <2>2. /\ g.pc = "call" /\ g.pid = p /\ g.op = f.op /\ g.then = f.then /\ g.calls = Install!Calls(p)
        /\ g.elems = f.elems /\ g.found = f.found
    BY <1>2, <2>1 DEF Tasks
  <2>3. f.elems = <<>>
    BY <1>1, <1>2 DEF Holds
  <2>4. Coming(g) = Ends(p)
    <3>1. Install!Range(<<>>) = {}
      BY RangeOf, EmptySeq
    <3> QED
      BY <2>2, <2>3, <3>1 DEF Coming, Ends
  <2>5. Holds(g)'
    <3>1. Holds(g)
      BY <1>1, <1>2, <1>9, <2>2, <2>3, <2>4 DEF Holds, QosSteps
    <3> QED
      BY <1>1, <1>2, <2>2, <3>1, HeldIsHeld
  <2>6. HasTaken(g)'
    <3> SUFFICES ASSUME f.op = "destroy", ~Install!NeedsCheck(p)'
                 PROVE  HasTaken(g)'
      BY <2>2 DEF HasTaken
    <3>r. /\ Install!NeedsCheck(p)' = Install!NeedsCheck(p) /\ IsQos(p)' = IsQos(p)
          /\ Install!Own(p)' = Install!Own(p) /\ \A d, m : Entry(p, d, m)' = Entry(p, d, m)
          /\ Ends(p)' = Ends(p)
      BY <1>1, <1>2, RulesStay
    <3>1. p \notin filters'
      BY <1>1, <1>2, <3>r DEF HasTaken
    <3>2. ASSUME NEW m \in ipset', m[1] = Install!Own(p) PROVE FALSE
      <4>1. m \in ipset /\ m \notin M
        BY <1>1, <1>2
      <4>2. PICK t \in rule[p].target : m = <<Install!Own(p), t>> /\ Install!Fills(p)
        BY <1>2, <3>2, <4>1 DEF InstallInv, PartsFit
      <4>3. SetName(p) = Install!Own(p)
        BY <1>2, <1>9, <4>2, OwnIsName
      <4>4. <<SetName(p), t>> \in M
        BY <1>2, <4>2, MembersAre
      <4> QED
        BY <4>1, <4>2, <4>3, <4>4
    <3>3. ASSUME NEW c \in chains', c.pid = p PROVE EntryOf(c, Coming(g))'
      <4>1. EntryOf(c, Ends(p))
        BY <1>1, <3>3, ShapedIs DEF InstallInv, PartsFit
      <4>2. Coming(g)' = Ends(p)
        BY <2>4 DEF Coming
      <4> QED
        BY <3>3, <3>r, <4>1, <4>2 DEF EntryOf
    <3> HIDE DEF M
    <3> QED
      BY <1>c, <2>2, <3>r, <3>1, <3>2, <3>3 DEF HasTaken
  <2>7. QosFits(g)'
    <3>1. Install!Calls(p)' = Install!Calls(p)
      BY <1>1, <1>2, RulesStay
    <3> QED
      BY <2>2, <2>3, <3>1 DEF QosFits
  <2> QED
    BY <1>1, <1>5, <1>6, <1>7, <2>5, <2>6, <2>7, QuietFits DEF Fits
<1> QED
  BY <1>8, <1>9

\* A rule of QoS has one thing it is for.
LEMMA QosCallsAre ==
  ASSUME NEW p \in RulePids, Regular(rule[p]), IsQos(p)
  PROVE  /\ Head(Install!Calls(p)) = Install!Calls(p)[1] /\ Tail(Install!Calls(p)) = <<>>
         /\ Install!Calls(p)[1] # <<>> /\ Tail(Install!Calls(p)[1]) = <<>>
         /\ Ends(p) = {Head(Install!Calls(p)[1])}
<1>1. PICK e \in Things : Install!Calls(p) = << <<e>> >>
  BY CallsAre
<1>2. /\ Head(<< <<e>> >>) = <<e>> /\ << <<e>> >>[1] = <<e>> /\ Tail(<< <<e>> >>) = <<>>
      /\ <<e>> # <<>> /\ Tail(<<e>>) = <<>> /\ Head(<<e>>) = e
      /\ << <<e>> >> # <<>> /\ <<e>> \in Seq(Things) /\ << <<e>> >> \in Seq(Seq(Things))
  OBVIOUS
<1>3. Install!Range(<<e>>) = {e}
  <2>1. Install!Range(<<e>>) = {Head(<<e>>)} \cup Install!Range(Tail(<<e>>))
    BY <1>2, RangeOf
  <2> QED
    BY <1>2, <2>1, RangeOf
<1>4. Install!Range(<< <<e>> >>) = {<<e>>}
  <2>1. Install!Range(<< <<e>> >>) = {Head(<< <<e>> >>)} \cup Install!Range(Tail(<< <<e>> >>))
    BY <1>2, RangeOf
  <2> QED
    BY <1>2, <2>1, RangeOf
<1>5. Ends(p) = {e}
  BY <1>1, <1>3, <1>4 DEF Ends
<1> QED
  BY <1>1, <1>2, <1>5

\* What is left of a rule without entries, members and handler: nothing.
LEMMA NothingLeft ==
  ASSUME MapFits, NEW p \in RulePids, p \notin filters, handlerOf[p] = None,
         \A m \in ipset : m[1] # Install!Own(p), \A c \in chains : c.pid # p
  PROVE  Install!Gone(p)
<1>1. \A h \in Install!Handlers : policyOf[h] # p
  BY NoneIsNone DEF MapFits
<1>2. \A h \in Install!Handlers : class[h] # p
  BY <1>1, NoneIsNone DEF MapFits
<1> QED
  BY <1>1, <1>2 DEF Install!Gone, Install!Handlers

\* The next call, or the end of the job.
LEMMA NextCallFits ==
  ASSUME InstallInv, NEW w \in Install!Workers, Install!NextCall(w)
  PROVE  \E f, g : Fits(w, f, g)
<1> PICK f : f = worker[w]
  OBVIOUS
<1> DEFINE p == f.pid
           next == [f EXCEPT !.pc = "element", !.found = {}, !.elems = Head(f.calls), !.calls = Tail(f.calls)]
<1>1. /\ f.pc = "call"
      /\ f.calls # <<>> => worker' = [worker EXCEPT ![w] = next] /\ ipset' = ipset
      /\ f.calls = <<>> => worker' = [worker EXCEPT ![w] = After(f)] /\ ipset' \subseteq ipset
      /\ UNCHANGED <<rule, enabled, queue, check, filters, chains, class, handlerOf, policyOf>>
  BY FinishedIs DEF Install!NextCall, Install!map, Install!box
<1>2. /\ f \in Tasks /\ p \in RulePids /\ f.op \in {"create", "destroy"} /\ Regular(rule[p])
      /\ Aims(w, f) /\ Holds(f) /\ HasTaken(f) /\ (IsQos(p) => w = Queue)
  BY <1>1, AtWork
<1>q. IsQos(p) => QosFits(f)
  BY <1>2 DEF InstallInv
<1>3. /\ f.elems = <<>> /\ Coming(f) \subseteq Ends(p) /\ ~Install!Plain(p)
      /\ f.calls \in Seq(Seq(Things)) /\ f.elems \in Seq(Things)
  BY <1>1, <1>2 DEF Holds, Tasks
<1>4. Untouched(p)
  <2>1. filters' \subseteq RulePids
    BY <1>1 DEF InstallInv, InstallTypes
  <2>2. ipset' \subseteq ipset
    BY <1>1
  <2> QED
    BY <1>1, <2>1, <2>2 DEF Untouched
<1>r. /\ Install!NeedsCheck(p)' = Install!NeedsCheck(p) /\ IsQos(p)' = IsQos(p)
      /\ Install!Own(p)' = Install!Own(p) /\ \A d, m : Entry(p, d, m)' = Entry(p, d, m)
      /\ Ends(p)' = Ends(p) /\ Install!Calls(p)' = Install!Calls(p)
  BY <1>1, <1>2, RulesStay
<1>5. PartsFit'
  <2>1. p \in filters' => Install!FiltersDns(p)
    BY <1>1 DEF InstallInv, PartsFit
  <2>2. \A c \in chains' : Shaped(c)
    BY <1>1 DEF InstallInv, PartsFit
  <2>3. ipset' \subseteq ipset
    BY <1>1
  <2> QED
    BY <1>2, <1>4, <2>1, <2>2, <2>3, PartsKeep
<1>6. CASE f.calls # <<>>
  <2> PICK g : g = next
    OBVIOUS
  <2>1. Head(f.calls) \in Seq(Things) /\ Tail(f.calls) \in Seq(Seq(Things))
    BY <1>3, <1>6, HeadTailProperties
  <2>2. /\ g.pc = "element" /\ g.pid = p /\ g.op = f.op /\ g.then = f.then /\ g.calls = Tail(f.calls)
        /\ g.elems = Head(f.calls) /\ g.found = {} /\ g \in Tasks
    BY <1>2, <2>1 DEF Tasks, Steps
  <2>3. Step(w, f, g) /\ GoesOn(f, g)
    BY <1>1, <1>4, <1>6, <2>2 DEF Step, GoesOn
  <2>4. Coming(g) = Coming(f)
    <3>1. f.elems = <<>> /\ f.calls # <<>> /\ g.elems = Head(f.calls) /\ g.calls = Tail(f.calls)
      BY <1>3, <1>6, <2>2
    <3>2. f.elems \in Seq(Things) /\ f.calls \in Seq(Seq(Things))
      BY <1>3
    <3> HIDE DEF next, p
    <3> QED
      BY <3>1, <3>2, ComingAre
  <2>5. Holds(g)'
    <3>1. Holds(g)
      BY <1>3, <2>2, <2>4 DEF Holds, QosSteps
    <3> QED
      BY <1>1, <1>2, <2>2, <3>1, HeldIsHeld
  <2>q. IsQos(p) => g.elems = Install!Calls(p)[1] /\ g.calls = <<>> /\ g.elems # <<>>
    BY <1>1, <1>2, <1>6, <1>q, <2>2, QosCallsAre DEF QosFits
  <2>6. HasTaken(g)'
    <3>1. Coming(g)' = Coming(f)
      BY <2>4 DEF Coming
    <3>2. \A c : c.pid = p => (EntryOf(c, Coming(g))' <=> EntryOf(c, Coming(f)))
      BY <1>r, <3>1 DEF EntryOf
    <3> QED
      BY <1>1, <1>2, <1>6, <1>r, <2>2, <2>q, <3>2 DEF HasTaken
  <2>7. IsQos(p) => QosFits(g)'
    BY <1>r, <2>2, <2>q DEF QosFits
  <2> QED
    BY <1>1, <1>5, <2>3, <2>5, <2>6, <2>7, QuietFits DEF Fits
<1>7. CASE f.calls = <<>>
  <2> PICK g : g = After(f)
    OBVIOUS
  <2>1. g \in Tasks
    BY <1>2, AfterIs
  <2>2. Step(w, f, g)
    BY <1>1, <1>4, <1>7, <2>1 DEF Step
  <2>3. ASSUME f.op = "destroy", ~Install!NeedsCheck(p) PROVE Install!Gone(p)'
    <3>1. p \notin filters /\ \A m \in ipset : m[1] # Install!Own(p)
      BY <1>1, <1>2, <2>3 DEF HasTaken
    <3>2. \A c \in chains : c.pid # p
      <4>1. CASE IsQos(p)
        BY <1>1, <1>2, <1>7, <2>3, <4>1 DEF HasTaken
      <4>2. CASE ~IsQos(p)
        <5>1. Coming(f) = {}
          BY <1>3, <1>7, ComingAre
        <5> QED
          BY <1>1, <1>2, <2>3, <4>2, <5>1 DEF HasTaken, EntryOf
      <4> QED
        BY <4>1, <4>2
    <3>3. handlerOf[p] = None
      <4>1. CASE IsQos(p)
        BY <1>1, <1>2, <1>7, <2>3, <4>1 DEF HasTaken
      <4>2. CASE ~IsQos(p)
        BY <1>2, <4>2 DEF InstallInv, MapFits
      <4> QED
        BY <4>1, <4>2
    <3>4. Install!Gone(p)
      BY <1>2, <3>1, <3>2, <3>3, NothingLeft DEF InstallInv
    <3> QED
      BY <1>1, <1>7, <1>r, <3>4 DEF Install!Gone, Install!Handlers
  <2>4. IsDone(f, g)
    BY <2>3 DEF IsDone
  <2>5. Holds(g)' /\ HasTaken(g)' /\ QosFits(g)'
    BY <1>1, <1>2, AfterFits
  <2> QED
    BY <1>1, <1>5, <2>2, <2>4, <2>5, QuietFits DEF Fits
<1> QED
  BY <1>6, <1>7

\* An element of a call, and the entries after the last.
LEMMA ElementFits ==
  ASSUME InstallInv, NEW w \in Install!Workers, Install!Element(w)
  PROVE  \E f, g : Fits(w, f, g)
<1> PICK f : f = worker[w]
  OBVIOUS
<1> DEFINE p == f.pid
           N == Install!Entries(p, f.op, Head(f.elems), None)
<1>1. /\ f.pc = "element"
      /\ f.elems = <<>> => /\ worker' = [worker EXCEPT ![w].pc = "call"]
                           /\ chains' = IF f.op = "create" THEN chains \cup f.found ELSE chains \ f.found
      /\ f.elems # <<>> =>
            /\ worker' = [worker EXCEPT ![w] =
                   IF IsQos(p) THEN [f EXCEPT !.pc = "allocate"]
                   ELSE [f EXCEPT !.elems = Tail(f.elems), !.found = f.found \cup N]]
            /\ chains' = chains
      /\ UNCHANGED <<rule, enabled, queue, check, filters, ipset, class, handlerOf, policyOf>>
  BY DEF Install!Element, Install!map, Install!box, IsQos
<1>2. /\ f \in Tasks /\ p \in RulePids /\ f.op \in {"create", "destroy"} /\ Regular(rule[p])
      /\ Aims(w, f) /\ Holds(f) /\ HasTaken(f) /\ (IsQos(p) => w = Queue)
  BY <1>1, AtWork
<1>q. IsQos(p) => QosFits(f)
  BY <1>2 DEF InstallInv
<1>3. /\ Coming(f) \subseteq Ends(p) /\ ~Install!Plain(p)
      /\ f.calls \in Seq(Seq(Things)) /\ f.elems \in Seq(Things)
      /\ \A c \in f.found : c.pid = p /\ Shaped(c)
  BY <1>1, <1>2 DEF Holds, Tasks
<1>4. Untouched(p)
  <2>1. filters' \subseteq RulePids
    BY <1>1 DEF InstallInv, InstallTypes
  <2>2. \A c \in chains' : c.pid # p => c \in chains
    BY <1>1, <1>3
  <2> QED
    BY <1>1, <2>1, <2>2 DEF Untouched
<1>r. /\ Install!NeedsCheck(p)' = Install!NeedsCheck(p) /\ IsQos(p)' = IsQos(p)
      /\ Install!Own(p)' = Install!Own(p) /\ \A d, m : Entry(p, d, m)' = Entry(p, d, m)
      /\ Ends(p)' = Ends(p) /\ Install!Calls(p)' = Install!Calls(p)
  BY <1>1, <1>2, RulesStay
<1>5. PartsFit'
  <2>1. p \in filters' => Install!FiltersDns(p)
    BY <1>1 DEF InstallInv, PartsFit
  <2>2. \A c \in chains' : Shaped(c)
    BY <1>1, <1>3 DEF InstallInv, PartsFit
  <2> QED
    BY <1>1, <1>2, <1>4, <2>1, <2>2, PartsKeep
<1>6. CASE f.elems # <<>> /\ IsQos(p)
  <2> PICK g : g = [f EXCEPT !.pc = "allocate"]
    OBVIOUS
  <2>1. /\ g.pc = "allocate" /\ g.pid = p /\ g.op = f.op /\ g.then = f.then /\ g.calls = f.calls
        /\ g.elems = f.elems /\ g.found = f.found /\ g \in Tasks
    BY <1>2 DEF Tasks, Steps
  <2>2. Step(w, f, g) /\ GoesOn(f, g)
    BY <1>1, <1>4, <1>6, <2>1 DEF Step, GoesOn
  <2>3. Holds(g)'
    <3>1. Holds(g)
      BY <1>2, <1>3, <1>6, <2>1 DEF Holds, QosSteps, Coming
    <3> QED
      BY <1>1, <1>2, <2>1, <3>1, HeldIsHeld
  <2>4. HasTaken(g)'
    BY <1>1, <1>2, <1>6, <1>r, <2>1 DEF HasTaken
  <2>5. QosFits(g)'
    BY <1>1, <1>2, <1>6, <1>q, <1>r, <2>1 DEF QosFits
  <2> QED
    BY <1>1, <1>5, <1>6, <2>2, <2>3, <2>4, <2>5, QuietFits DEF Fits
<1>7. CASE f.elems # <<>> /\ ~IsQos(p)
  <2> DEFINE next == [f EXCEPT !.elems = Tail(f.elems), !.found = f.found \cup N]
  <2> PICK g : g = next
    OBVIOUS
  <2>1. N = Entry(p, Head(f.elems), None)
    BY <1>2, RuleIs
  <2>2. Tail(f.elems) \in Seq(Things)
    BY <1>3, <1>7, HeadTailProperties
  <2>3. g.elems = Tail(f.elems) /\ g.calls = f.calls /\ g.found = f.found \cup N
    BY <1>2 DEF Tasks
  <2>4. Coming(f) = {Head(f.elems)} \cup Coming(g)
    <3> HIDE DEF next, N, p
    <3> QED
      BY <1>3, <1>7, <2>3, ComingAre
  <2>5. \A c \in N : Shaped(c) /\ c.pid = p
    <3>1. Head(f.elems) \in Ends(p) /\ None \in Marks
      BY <1>3, <2>4 DEF Marks
    <3> QED
      BY <1>2, <1>7, <2>1, <3>1, EntryIsShaped
  <2>6. f.found \cup N \subseteq AllEntries
    BY <1>3, <2>5 DEF Shaped
  <2>7. /\ g.pc = "element" /\ g.pid = p /\ g.op = f.op /\ g.then = f.then /\ g \in Tasks
    BY <1>1, <1>2, <2>2, <2>6 DEF Tasks, Steps
  <2>8. Step(w, f, g) /\ GoesOn(f, g)
    BY <1>1, <1>4, <1>7, <2>7 DEF Step, GoesOn
  <2>9. Holds(g)'
    <3>1. Holds(g)
      BY <1>3, <2>3, <2>4, <2>5, <2>7 DEF Holds, QosSteps
    <3> QED
      BY <1>1, <1>2, <2>7, <3>1, HeldIsHeld
  <2>10. HasTaken(g)'
    <3> SUFFICES ASSUME f.op = "destroy", ~Install!NeedsCheck(p)
                 PROVE  HasTaken(g)'
      BY <1>r, <2>7 DEF HasTaken
    <3>1. ASSUME NEW c \in chains, c.pid = p, c \notin g.found
          PROVE  EntryOf(c, Coming(g))'
      <4>1. EntryOf(c, Coming(f))
        BY <1>1, <1>2, <1>7, <2>3, <3>1 DEF HasTaken
      <4>2. c.mark = None
        BY <1>2, <1>7, <3>1, ShapedIs DEF InstallInv, PartsFit
      <4>3. c \notin Entry(p, Head(f.elems), c.mark)
        BY <2>1, <2>3, <3>1, <4>2
      <4>4. EntryOf(c, Coming(g))
        BY <2>4, <3>1, <4>1, <4>3 DEF EntryOf
      <4>5. Coming(g)' = Coming(g)
        BY DEF Coming
      <4> QED
        BY <1>r, <3>1, <4>4, <4>5 DEF EntryOf
    <3>2. p \notin filters' /\ \A m \in ipset' : m[1] # Install!Own(p)
      BY <1>1, <1>2 DEF HasTaken
    <3> QED
      BY <1>1, <1>7, <1>r, <2>7, <3>1, <3>2 DEF HasTaken
  <2> QED
    BY <1>1, <1>5, <1>7, <2>8, <2>9, <2>10, QuietFits DEF Fits
<1>8. CASE f.elems = <<>>
  <2> PICK g : g = [f EXCEPT !.pc = "call"]
    OBVIOUS
  <2>1. /\ g.pc = "call" /\ g.pid = p /\ g.op = f.op /\ g.then = f.then /\ g.calls = f.calls
        /\ g.elems = <<>> /\ g.found = f.found /\ g \in Tasks
    BY <1>2, <1>8 DEF Tasks, Steps
  <2>w. worker' = [worker EXCEPT ![w] = g] /\ worker'[w] = g
        /\ \A y \in Install!Workers \ {w} : worker'[y] = worker[y]
    BY <1>1, <1>8 DEF InstallInv, InstallTypes
  <2>2. Step(w, f, g) /\ GoesOn(f, g)
    BY <1>1, <1>4, <2>1, <2>w DEF Step, GoesOn
  <2>3. Coming(g) = Coming(f)
    BY <1>8, <2>1 DEF Coming
  <2>4. Holds(g)'
    <3>1. Holds(g)
      BY <1>3, <2>1, <2>3 DEF Holds, QosSteps
    <3> QED
      BY <1>1, <1>2, <2>1, <3>1, HeldIsHeld
  <2>5. QosFits(g)'
    BY <1>1, <1>2, <1>q, <1>r, <2>1 DEF QosFits
  <2>6. MapFits' /\ QosFits(worker[Queue])'
    BY <1>1, <2>2, <2>5, QueueFits
  <2>7. HasTaken(g)'
    <3> SUFFICES ASSUME f.op = "destroy", ~Install!NeedsCheck(p)
                 PROVE  HasTaken(g)'
      BY <1>r, <2>1 DEF HasTaken
    <3>1. p \notin filters' /\ \A m \in ipset' : m[1] # Install!Own(p)
      BY <1>1, <1>2 DEF HasTaken
    <3>2. chains' = chains \ f.found
      BY <1>1, <1>8
    <3>3. ASSUME ~IsQos(p), NEW c \in chains', c.pid = p PROVE EntryOf(c, Coming(g))'
      <4>1. EntryOf(c, Coming(f))
        BY <1>1, <1>2, <3>2, <3>3 DEF HasTaken
      <4>2. Coming(g)' = Coming(f)
        BY <2>3 DEF Coming
      <4> QED
        BY <1>r, <3>3, <4>1, <4>2 DEF EntryOf
    <3>4. ASSUME IsQos(p) PROVE handlerOf[p] = None /\ \A c \in chains' : c.pid # p
      <4>1. handlerOf[p] = None
        BY <1>1, <1>2, <1>8, <3>4 DEF HasTaken
      <4>2. ASSUME NEW c \in chains', c.pid = p PROVE FALSE
        <5>1. c \in chains /\ c \notin f.found
          BY <3>2
        <5>2. c.mark # None
          BY <3>4, <4>2, <5>1, ShapedIs DEF InstallInv, PartsFit
        <5>3. MarkFits(c, f)
          BY <1>2, <3>4, <5>1 DEF InstallInv
        <5> QED
          BY <4>1, <4>2, <5>1, <5>2, <5>3 DEF MarkFits
      <4> QED
        BY <4>1, <4>2
    <3> QED
      BY <1>1, <1>r, <2>1, <3>1, <3>3, <3>4 DEF HasTaken
  <2>8. ASSUME NEW c \in chains' PROVE MarkFits(c, worker[Queue])'
    <3>1. CASE c \in chains
      <4>1. MarkFits(c, worker[Queue])
        BY <3>1 DEF InstallInv
      <4>2. CASE w = Queue
        BY <1>1, <1>8, <2>w, <4>1, <4>2 DEF MarkFits
      <4>3. CASE w # Queue
        <5>1. worker'[Queue] = worker[Queue]
          BY <2>w, <4>3, NoneIsNone
        <5> QED
          BY <1>1, <4>1, <5>1 DEF MarkFits
      <4> QED
        BY <4>2, <4>3
    <3>2. CASE c \notin chains
      <4>1. c \in f.found /\ f.op = "create" /\ c.pid = p /\ Shaped(c)
        BY <1>1, <1>3, <1>8, <3>2
      <4>2. CASE IsQos(p)
        <5>1. handlerOf[p] = c.mark /\ class[c.mark] = p
          BY <1>1, <1>2, <1>q, <4>1, <4>2 DEF QosFits
        <5> QED
          BY <1>1, <4>1, <5>1 DEF MarkFits
      <4>3. CASE ~IsQos(p)
        <5>1. c.mark = None
          BY <4>1, <4>3, ShapedIs
        <5> QED
          BY <5>1 DEF MarkFits
      <4> QED
        BY <4>2, <4>3
    <3> QED
      BY <3>1, <3>2
  <2> QED
    BY <1>5, <2>2, <2>4, <2>6, <2>7, <2>8 DEF Fits
<1> QED
  BY <1>6, <1>7, <1>8

\* A set of numbers that is not empty has a least one.
LEMMA LeastExists ==
  ASSUME NEW T \in SUBSET Nat, T # {}
  PROVE  \E x \in T : \A y \in T : x <= y
<1>1. IsWellFoundedOn(OpToRel(<, Nat), Nat)
  BY NatLessThanWellFounded
<1>2. PICK x \in T : \A y \in T : ~(<<y, x>> \in OpToRel(<, Nat))
  BY <1>1, WFMin
<1>3. \A y \in T : ~(y < x)
  BY <1>2 DEF OpToRel
<1> QED
  BY <1>3

\* The handler that is taken is free.
LEMMA LowestIs ==
  ASSUME Install!Free # {}
  PROVE  Install!Lowest \in Install!Free
<1>1. Install!Free \in SUBSET Nat
  BY InstallAssumption DEF Install!Free, Install!Handlers
<1>2. \E h \in Install!Free : \A g \in Install!Free : h <= g
  BY <1>1, LeastExists
<1> QED
  BY <1>2, Zenon DEF Install!Lowest

\* A handler is found, or there is none.
LEMMA AllocateFits ==
  ASSUME InstallInv, NEW w \in Install!Workers, Install!Allocate(w)
  PROVE  \E f, g : Fits(w, f, g)
<1> PICK f : f = worker[w]
  OBVIOUS
<1> DEFINE p == f.pid
<1>1. /\ f.pc = "allocate"
      /\ \/ /\ handlerOf[p] # None
            /\ worker' = [worker EXCEPT ![w] = [f EXCEPT !.pc = "class", !.handler = handlerOf[p]]]
         \/ /\ handlerOf[p] = None /\ Install!Free # {}
            /\ worker' = [worker EXCEPT ![w] = [f EXCEPT !.pc = "store", !.handler = Install!Lowest]]
         \/ /\ handlerOf[p] = None /\ worker' = [worker EXCEPT ![w] = After(f)]
      /\ UNCHANGED <<rule, enabled, queue, check, filters, ipset, chains, class, handlerOf, policyOf>>
  BY FinishedIs DEF Install!Allocate, Install!map, Install!box, Install!kernel, Install!Reusable
<1>2. /\ f \in Tasks /\ p \in RulePids /\ f.op \in {"create", "destroy"} /\ Regular(rule[p])
      /\ Aims(w, f) /\ Holds(f) /\ HasTaken(f) /\ (IsQos(p) => w = Queue)
  BY <1>1, AtWork
<1>3. IsQos(p) /\ f.elems # <<>> /\ w = Queue /\ ~Install!NeedsCheck(p)
  BY <1>1, <1>2, RuleIs DEF Holds, QosSteps
<1>q. QosFits(f)
  BY <1>3 DEF InstallInv
<1>4. Untouched(p)
  <2>1. filters' \subseteq RulePids
    BY <1>1 DEF InstallInv, InstallTypes
  <2> QED
    BY <1>1, <2>1 DEF Untouched
<1>r. /\ Install!NeedsCheck(p)' = Install!NeedsCheck(p) /\ IsQos(p)' = IsQos(p)
      /\ Install!Own(p)' = Install!Own(p) /\ Install!Calls(p)' = Install!Calls(p)
  BY <1>1, <1>2, RulesStay
<1>5. PartsFit'
  <2>1. p \in filters' => Install!FiltersDns(p)
    BY <1>1 DEF InstallInv, PartsFit
  <2>2. \A c \in chains' : Shaped(c)
    BY <1>1 DEF InstallInv, PartsFit
  <2> QED
    BY <1>1, <1>2, <1>4, <2>1, <2>2, PartsKeep
<1>6. ASSUME NEW pc \in {"class", "store"}, NEW h \in Install!Handlers,
             worker' = [worker EXCEPT ![w] = [f EXCEPT !.pc = pc, !.handler = h]],
             pc = "class" => handlerOf[p] = h,
             pc = "store" => policyOf[h] = None /\ handlerOf[p] = None
      PROVE  \E g : Fits(w, f, g)
  <2> PICK g : g = [f EXCEPT !.pc = pc, !.handler = h]
    OBVIOUS
  <2>1. /\ g.pc = pc /\ g.handler = h /\ g.pid = p /\ g.op = f.op /\ g.then = f.then
        /\ g.calls = f.calls /\ g.elems = f.elems /\ g.found = f.found /\ g \in Tasks
    BY <1>2 DEF Tasks, Steps, Marks
  <2>2. Step(w, f, g) /\ GoesOn(f, g)
    BY <1>1, <1>4, <1>6, <2>1 DEF Step, GoesOn
  <2>3. Holds(g)'
    <3>1. Holds(g)
      BY <1>1, <1>2, <1>3, <2>1 DEF Holds, QosSteps, Coming
    <3> QED
      BY <1>1, <1>2, <2>1, <3>1, HeldIsHeld
  <2>4. HasTaken(g)'
    BY <1>1, <1>2, <1>3, <1>r, <2>1 DEF HasTaken
  <2>5. QosFits(g)'
    <3>1. h # None
      BY NoneIsNone
    <3> QED
      BY <1>1, <1>3, <1>6, <1>q, <1>r, <2>1, <3>1 DEF QosFits
  <2> QED
    BY <1>1, <1>5, <2>2, <2>3, <2>4, <2>5, QuietFits DEF Fits
<1>7. CASE handlerOf[p] # None
          /\ worker' = [worker EXCEPT ![w] = [f EXCEPT !.pc = "class", !.handler = handlerOf[p]]]
  <2>1. handlerOf[p] \in Install!Handlers
    BY <1>2, <1>7 DEF InstallInv, MapFits, Marks
  <2> QED
    BY <1>6, <1>7, <2>1
<1>8. CASE handlerOf[p] = None /\ Install!Free # {}
          /\ worker' = [worker EXCEPT ![w] = [f EXCEPT !.pc = "store", !.handler = Install!Lowest]]
  <2>1. Install!Lowest \in Install!Handlers /\ policyOf[Install!Lowest] = None
    BY <1>8, LowestIs DEF Install!Free
  <2> QED
    BY <1>6, <1>8, <2>1
<1>9. CASE handlerOf[p] = None /\ worker' = [worker EXCEPT ![w] = After(f)]
  <2> PICK g : g = After(f)
    OBVIOUS
  <2>1. g \in Tasks
    BY <1>2, AfterIs
  <2>2. Step(w, f, g)
    BY <1>1, <1>4, <1>9, <2>1 DEF Step
  <2>3. ASSUME f.op = "destroy" PROVE Install!Gone(p)'
    <3>1. p \notin filters /\ \A m \in ipset : m[1] # Install!Own(p)
      BY <1>1, <1>2, <1>3, <2>3 DEF HasTaken
    <3>2. ASSUME NEW c \in chains, c.pid = p PROVE FALSE
      <4>1. c.mark # None
        BY <1>3, <3>2, ShapedIs DEF InstallInv, PartsFit
      <4>2. MarkFits(c, f)
        BY <1>3, <3>2 DEF InstallInv
      <4> QED
        BY <1>1, <1>9, <3>2, <4>1, <4>2 DEF MarkFits
    <3>3. Install!Gone(p)
      BY <1>2, <1>9, <3>1, <3>2, NothingLeft DEF InstallInv
    <3> QED
      BY <1>1, <1>r, <3>3 DEF Install!Gone, Install!Handlers
  <2>4. IsDone(f, g)
    BY <2>3 DEF IsDone
  <2>5. Holds(g)' /\ HasTaken(g)' /\ QosFits(g)'
    BY <1>1, <1>2, AfterFits
  <2> QED
    BY <1>1, <1>5, <2>2, <2>4, <2>5, QuietFits DEF Fits
<1> QED
  BY <1>1, <1>7, <1>8, <1>9

\* What the three steps that change the map and the classes have in common.
LEMMA MapSteps ==
  ASSUME InstallInv, NEW w \in Install!Workers, NEW f, f = worker[w],
         f.pc \in {"store", "class", "release"}
  PROVE  /\ f \in Tasks /\ f.pid \in RulePids /\ f.op \in {"create", "destroy"}
         /\ Regular(rule[f.pid]) /\ Holds(f) /\ HasTaken(f) /\ QosFits(f) /\ w = Queue
         /\ IsQos(f.pid) /\ ~Install!NeedsCheck(f.pid) /\ f.elems # <<>>
         /\ f.handler \in Install!Handlers /\ f.calls = <<>> /\ f.found = {}
         /\ f.calls \in Seq(Seq(Things)) /\ f.elems \in Seq(Things)
         /\ f.elems = Install!Calls(f.pid)[1] /\ Tail(f.elems) = <<>>
         /\ Ends(f.pid) = {Head(f.elems)}
<1>1. /\ f \in Tasks /\ f.pid \in RulePids /\ f.op \in {"create", "destroy"}
      /\ Regular(rule[f.pid]) /\ Holds(f) /\ HasTaken(f) /\ (IsQos(f.pid) => w = Queue)
  BY AtWork
<1>2. IsQos(f.pid) /\ w = Queue /\ ~Install!NeedsCheck(f.pid) /\ f.elems # <<>>
  BY <1>1, RuleIs DEF Holds, QosSteps
<1>3. QosFits(f)
  BY <1>2 DEF InstallInv
<1>4. /\ f.handler # None /\ f.calls = <<>> /\ f.found = {} /\ f.elems = Install!Calls(f.pid)[1]
  BY <1>2, <1>3 DEF QosFits
<1>5. f.handler \in Install!Handlers /\ f.calls \in Seq(Seq(Things)) /\ f.elems \in Seq(Things)
  BY <1>1, <1>4 DEF Tasks, Marks
<1> QED
  BY <1>1, <1>2, <1>3, <1>4, <1>5, QosCallsAre

\* The handler is stored.
LEMMA StoreFits ==
  ASSUME InstallInv, NEW w \in Install!Workers, Install!Store(w)
  PROVE  \E f, g : Fits(w, f, g)
<1> PICK f : f = worker[w]
  OBVIOUS
<1> PICK p, h : p = f.pid /\ h = f.handler
  OBVIOUS
<1> PICK g : g = [f EXCEPT !.pc = "class"]
  OBVIOUS
<1>1. /\ f.pc = "store" /\ worker' = [worker EXCEPT ![w].pc = "class"]
      /\ handlerOf' = [handlerOf EXCEPT ![p] = h] /\ policyOf' = [policyOf EXCEPT ![h] = p]
      /\ UNCHANGED <<rule, enabled, queue, check, filters, ipset, chains, class>>
  BY DEF Install!Store, Install!box, Install!kernel
<1>2. /\ f \in Tasks /\ p \in RulePids /\ f.op \in {"create", "destroy"} /\ Holds(f) /\ HasTaken(f)
      /\ QosFits(f) /\ w = Queue /\ IsQos(p) /\ ~Install!NeedsCheck(p) /\ f.elems # <<>>
      /\ h \in Install!Handlers
  BY <1>1, MapSteps
<1>3. policyOf[h] = None /\ handlerOf[p] = None /\ h # None /\ p # None
  BY <1>1, <1>2, NoneIsNone DEF QosFits
<1>4. MapFits /\ handlerOf \in [RulePids -> Marks] /\ policyOf \in [Install!Handlers -> RulePids \cup {None}]
  BY DEF InstallInv, MapFits
<1>5. class[h] = None
  BY <1>2, <1>3, <1>4 DEF MapFits
<1>6. /\ handlerOf'[p] = h /\ \A q \in RulePids \ {p} : handlerOf'[q] = handlerOf[q]
      /\ policyOf'[h] = p /\ \A i \in Install!Handlers \ {h} : policyOf'[i] = policyOf[i]
  BY <1>1, <1>2, <1>4
<1>7. Untouched(p)
  <2>1. filters' \subseteq RulePids
    BY <1>1 DEF InstallInv, InstallTypes
  <2>2. ASSUME NEW q \in RulePids \ {p}, NEW i \in Install!Handlers, policyOf'[i] = q
        PROVE  policyOf[i] = q
    BY <1>6, <2>2
  <2> QED
    BY <1>1, <1>6, <2>1, <2>2 DEF Untouched
<1>r. /\ Install!NeedsCheck(p)' = Install!NeedsCheck(p) /\ Install!Own(p)' = Install!Own(p)
      /\ Install!Calls(p)' = Install!Calls(p) /\ \A q \in RulePids : IsQos(q)' = IsQos(q)
  BY <1>1, <1>2, RulesStay
<1>8. /\ g.pc = "class" /\ g.handler = h /\ g.pid = p /\ g.op = f.op /\ g.then = f.then
      /\ g.calls = f.calls /\ g.elems = f.elems /\ g.found = f.found /\ g \in Tasks
  BY <1>2 DEF Tasks, Steps
<1>w. worker' = [worker EXCEPT ![w] = g] /\ worker'[Queue] = g
  BY <1>1, <1>2 DEF InstallInv, InstallTypes
<1>9. Step(w, f, g) /\ GoesOn(f, g)
  BY <1>1, <1>7, <1>8, <1>w DEF Step, GoesOn
<1>10. PartsFit'
  <2>1. p \in filters' => Install!FiltersDns(p)
    BY <1>1 DEF InstallInv, PartsFit
  <2>2. \A c \in chains' : Shaped(c)
    BY <1>1 DEF InstallInv, PartsFit
  <2> QED
    BY <1>1, <1>2, <1>7, <2>1, <2>2, PartsKeep
<1>11. Holds(g)'
  <2>1. Holds(g)
    BY <1>1, <1>2, <1>8 DEF Holds, QosSteps, Coming
  <2> QED
    BY <1>1, <1>2, <1>8, <2>1, HeldIsHeld
<1>12. HasTaken(g)'
  BY <1>1, <1>2, <1>8, <1>r DEF HasTaken
<1>13. QosFits(g)'
  BY <1>1, <1>2, <1>3, <1>6, <1>8, <1>r DEF QosFits
<1>14. MapFits'
  <2>1. Install!Handlers' = Install!Handlers /\ Marks' = Marks /\ h \in Marks
    BY <1>2 DEF Install!Handlers, Marks
  <2>2. /\ handlerOf' \in [RulePids -> Marks]
        /\ policyOf' \in [Install!Handlers -> RulePids \cup {None}]
        /\ class' \in [Install!Handlers -> RulePids \cup {None}]
    BY <1>1, <1>2, <1>4, <2>1 DEF MapFits
  <2>3. ASSUME NEW q \in RulePids, NEW i \in Install!Handlers
        PROVE  handlerOf'[q] = i <=> policyOf'[i] = q
    <3>1. handlerOf[q] = i <=> policyOf[i] = q
      BY <1>4 DEF MapFits
    <3> QED
      BY <1>3, <1>6, <3>1, NoneIsNone
  <2>4. \A q \in RulePids : handlerOf'[q] # None => IsQos(q)'
    BY <1>2, <1>4, <1>6, <1>r DEF MapFits
  <2>5. \A i \in Install!Handlers : class'[i] # None => policyOf'[i] = class'[i]
    BY <1>1, <1>4, <1>5, <1>6 DEF MapFits
  <2> QED
    BY <2>1, <2>2, <2>3, <2>4, <2>5 DEF MapFits
<1>15. ASSUME NEW c \in chains' PROVE MarkFits(c, worker[Queue])'
  <2>1. MarkFits(c, f) /\ c.pid \in RulePids
    BY <1>1, <1>2, ShapedIs DEF InstallInv, PartsFit
  <2>2. c.mark # None => c.pid # p /\ handlerOf[c.pid] = c.mark /\ class[c.mark] = c.pid
    BY <1>1, <1>3, <2>1 DEF MarkFits
  <2> QED
    BY <1>1, <1>6, <1>w, <2>1, <2>2 DEF MarkFits
<1>16. QosFits(worker[Queue])'
  BY <1>13, <1>w DEF QosFits
<1> QED
  BY <1>9, <1>10, <1>11, <1>12, <1>14, <1>15, <1>16 DEF Fits

\* A worker without elements and calls has nothing to come.
LEMMA NothingComes ==
  ASSUME NEW f, f.elems = <<>>, f.calls = <<>>
  PROVE  Coming(f) = {}
<1>1. Install!Range(<<>>) = {}
  BY RangeOf, EmptySeq
<1> QED
  BY <1>1 DEF Coming

\* The class of the handler.
LEMMA ClassFits ==
  ASSUME InstallInv, NEW w \in Install!Workers, Install!Class(w)
  PROVE  \E f, g : Fits(w, f, g)
<1> PICK f : f = worker[w]
  OBVIOUS
<1> PICK p, h : p = f.pid /\ h = f.handler
  OBVIOUS
<1> PICK N : N = Install!Entries(p, f.op, Head(f.elems), h)
  OBVIOUS
<1> PICK k : k = [f EXCEPT !.pc = "element", !.elems = Tail(f.elems), !.found = f.found \cup N]
  OBVIOUS
<1> PICK g : g = IF f.op = "destroy" THEN [f EXCEPT !.pc = "release"] ELSE k
  OBVIOUS
<1>1. /\ f.pc = "class" /\ worker' = [worker EXCEPT ![w] = g]
      /\ class' = [class EXCEPT ![h] = IF f.op = "create" THEN p ELSE None]
      /\ UNCHANGED <<rule, enabled, queue, check, filters, ipset, chains, handlerOf, policyOf>>
  BY DEF Install!Class, Install!box, Install!map
<1>2. /\ f \in Tasks /\ p \in RulePids /\ f.op \in {"create", "destroy"} /\ Holds(f) /\ HasTaken(f)
      /\ QosFits(f) /\ w = Queue /\ IsQos(p) /\ ~Install!NeedsCheck(p) /\ f.elems # <<>>
      /\ h \in Install!Handlers /\ f.calls = <<>> /\ f.found = {} /\ Tail(f.elems) = <<>>
      /\ Ends(p) = {Head(f.elems)} /\ Regular(rule[p]) /\ f.elems = Install!Calls(p)[1]
  BY <1>1, MapSteps
<1>3. handlerOf[p] = h /\ h # None /\ p # None
  BY <1>1, <1>2, NoneIsNone DEF QosFits
<1>4. MapFits
  BY DEF InstallInv
<1>5. /\ class'[h] = IF f.op = "create" THEN p ELSE None
      /\ \A i \in Install!Handlers \ {h} : class'[i] = class[i]
  BY <1>1, <1>2, <1>4 DEF MapFits
<1>7. Untouched(p)
  <2>1. filters' \subseteq RulePids
    BY <1>1 DEF InstallInv, InstallTypes
  <2>2. ASSUME NEW q \in RulePids \ {p}, NEW i \in Install!Handlers, class'[i] = q
        PROVE  class[i] = q
    BY <1>2, <1>5, <2>2, NoneIsNone
  <2> QED
    BY <1>1, <2>1, <2>2 DEF Untouched
<1>r. /\ Install!NeedsCheck(p)' = Install!NeedsCheck(p) /\ Install!Own(p)' = Install!Own(p)
      /\ Install!Calls(p)' = Install!Calls(p) /\ \A q \in RulePids : IsQos(q)' = IsQos(q)
  BY <1>1, <1>2, RulesStay
<1>n. /\ N = Entry(p, Head(f.elems), h) /\ N \subseteq AllEntries
      /\ \A c \in N : c.pid = p /\ c.mark = h /\ Shaped(c)
  <2>1. N = Entry(p, Head(f.elems), h)
    BY <1>2, RuleIs
  <2>2. Head(f.elems) \in Ends(p) /\ h \in Marks
    BY <1>2 DEF Marks
  <2>3. \A c \in N : c.pid = p /\ c.mark = h /\ Shaped(c)
    BY <1>2, <1>3, <2>1, <2>2, EntryIsShaped
  <2> QED
    BY <2>1, <2>3 DEF Shaped
<1>8. /\ g.handler = h /\ g.pid = p /\ g.op = f.op /\ g.then = f.then /\ g.calls = <<>>
      /\ f.op = "destroy" => g.pc = "release" /\ g.elems = f.elems /\ g.found = {}
      /\ f.op = "create" => g.pc = "element" /\ g.elems = <<>> /\ g.found = N
      /\ g \in Tasks
  <2>1. f.found \cup N = N /\ N \in SUBSET AllEntries /\ <<>> \in Seq(Things)
    BY <1>2, <1>n, EmptySeq
  <2>2. CASE f.op = "destroy"
    <3>1. g = [f EXCEPT !.pc = "release"]
      BY <2>2
    <3> QED
      BY <1>2, <2>2, <3>1 DEF Tasks, Steps
  <2>3. CASE f.op = "create"
    <3>0. k = [f EXCEPT !.pc = "element", !.elems = <<>>, !.found = N]
      BY <1>2, <2>1
    <3>1. k \in Tasks
      BY <1>2, <2>1, <3>0 DEF Tasks, Steps
    <3>2. k.pc = "element" /\ k.elems = <<>> /\ k.found = N
      BY <1>2, <3>0 DEF Tasks
    <3>3. k.handler = h /\ k.pid = p /\ k.op = f.op /\ k.then = f.then /\ k.calls = f.calls
      BY <1>2 DEF Tasks
    <3>4. g = k
      BY <2>3
    <3> QED
      BY <1>2, <2>3, <3>1, <3>2, <3>3, <3>4
  <2> QED
    BY <1>2, <2>2, <2>3
<1>w. worker'[Queue] = g
  BY <1>1, <1>2 DEF InstallInv, InstallTypes
<1>9. Step(w, f, g) /\ GoesOn(f, g)
  BY <1>1, <1>2, <1>7, <1>8 DEF Step, GoesOn
<1>10. PartsFit'
  <2>1. p \in filters' => Install!FiltersDns(p)
    BY <1>1 DEF InstallInv, PartsFit
  <2>2. \A c \in chains' : Shaped(c)
    BY <1>1 DEF InstallInv, PartsFit
  <2> QED
    BY <1>1, <1>2, <1>7, <2>1, <2>2, PartsKeep
<1>11. Holds(g)'
  <2>1. CASE f.op = "destroy"
    <3>1. Holds(g)
      BY <1>1, <1>2, <1>8, <2>1 DEF Holds, QosSteps, Coming
    <3> QED
      BY <1>1, <1>2, <1>8, <3>1, HeldIsHeld
  <2>2. CASE f.op = "create"
    <3>1. Coming(g) = {}
      BY <1>8, <2>2, NothingComes
    <3>2. ~Install!Plain(p)
      BY <1>1, <1>2 DEF Holds, QosSteps
    <3>3. Holds(g)
      BY <1>2, <1>8, <1>n, <2>2, <3>1, <3>2 DEF Holds, QosSteps
    <3> QED
      BY <1>1, <1>2, <1>8, <3>3, HeldIsHeld
  <2> QED
    BY <1>2, <2>1, <2>2
<1>12. HasTaken(g)'
  BY <1>1, <1>2, <1>8, <1>r, SMTT(40) DEF HasTaken
<1>13. QosFits(g)'
  <2>1. CASE f.op = "destroy"
    BY <1>1, <1>2, <1>3, <1>5, <1>8, <1>r, <2>1 DEF QosFits
  <2>2. CASE f.op = "create"
    BY <1>1, <1>2, <1>3, <1>5, <1>8, <1>n, <2>2, SMTT(90) DEF QosFits
  <2> QED
    BY <1>2, <2>1, <2>2
<1>14. MapFits'
  <2>1. Install!Handlers' = Install!Handlers /\ Marks' = Marks
    BY DEF Install!Handlers, Marks
  <2>2. class' \in [Install!Handlers -> RulePids \cup {None}]
    BY <1>1, <1>2, <1>4 DEF MapFits
  <2>3. policyOf[h] = p
    BY <1>2, <1>3, <1>4 DEF MapFits
  <2>4. \A i \in Install!Handlers : class'[i] # None => policyOf'[i] = class'[i]
    BY <1>1, <1>4, <1>5, <2>3 DEF MapFits
  <2> QED
    BY <1>1, <1>4, <1>r, <2>1, <2>2, <2>4 DEF MapFits
<1>15. ASSUME NEW c \in chains' PROVE MarkFits(c, worker[Queue])'
  <2>1. MarkFits(c, f) /\ c.pid \in RulePids /\ c.mark \in Marks
    BY <1>1, <1>2, ShapedIs DEF InstallInv, PartsFit
  <2> SUFFICES ASSUME c.mark # None PROVE MarkFits(c, worker[Queue])'
    BY DEF MarkFits
  <2>2. handlerOf[c.pid] = c.mark /\ class[c.mark] = c.pid /\ c.mark \in Install!Handlers
    BY <1>1, <2>1 DEF MarkFits, Marks
  <2>3. CASE c.pid = p
    <3>1. c.mark = h
      BY <1>3, <2>2, <2>3
    <3>2. class'[h] = p \/ g.pc = "release"
      BY <1>2, <1>5, <1>8
    <3> QED
      BY <1>1, <1>3, <1>8, <1>w, <2>3, <3>1, <3>2 DEF MarkFits
  <2>4. CASE c.pid # p
    <3>1. c.mark # h
      BY <1>2, <1>3, <1>4, <2>1, <2>2, <2>4 DEF MapFits
    <3> QED
      BY <1>1, <1>5, <2>2, <3>1 DEF MarkFits
  <2> QED
    BY <2>3, <2>4
<1>16. QosFits(worker[Queue])'
  BY <1>13, <1>w DEF QosFits
<1> QED
  BY <1>9, <1>10, <1>11, <1>12, <1>14, <1>15, <1>16 DEF Fits

\* The handler is given back.
LEMMA ReleaseFits ==
  ASSUME InstallInv, NEW w \in Install!Workers, Install!Release(w)
  PROVE  \E f, g : Fits(w, f, g)
<1> PICK f : f = worker[w]
  OBVIOUS
<1> PICK p, h : p = f.pid /\ h = f.handler
  OBVIOUS
<1> PICK N : N = Install!Entries(p, f.op, Head(f.elems), h)
  OBVIOUS
<1> PICK g : g = [f EXCEPT !.pc = "element", !.elems = Tail(f.elems), !.found = f.found \cup N]
  OBVIOUS
<1>1. /\ f.pc = "release" /\ worker' = [worker EXCEPT ![w] = g]
      /\ handlerOf' = [handlerOf EXCEPT ![p] = None]
      /\ policyOf' = [i \in Install!Handlers |-> IF i = handlerOf[p] THEN None ELSE policyOf[i]]
      /\ UNCHANGED <<rule, enabled, queue, check, filters, ipset, chains, class>>
  BY DEF Install!Release, Install!box, Install!kernel
<1>2. /\ f \in Tasks /\ p \in RulePids /\ Holds(f) /\ HasTaken(f)
      /\ QosFits(f) /\ w = Queue /\ IsQos(p) /\ ~Install!NeedsCheck(p) /\ f.elems # <<>>
      /\ h \in Install!Handlers /\ f.calls = <<>> /\ f.found = {} /\ Tail(f.elems) = <<>>
      /\ Ends(p) = {Head(f.elems)} /\ Regular(rule[p]) /\ f.elems = Install!Calls(p)[1]
  BY <1>1, MapSteps
<1>3. handlerOf[p] = h /\ h # None /\ p # None /\ f.op = "destroy" /\ class[h] = None
  BY <1>1, <1>2, NoneIsNone DEF QosFits
<1>4. MapFits
  BY DEF InstallInv
<1>5. /\ handlerOf'[p] = None /\ \A q \in RulePids \ {p} : handlerOf'[q] = handlerOf[q]
      /\ policyOf'[h] = None /\ \A i \in Install!Handlers \ {h} : policyOf'[i] = policyOf[i]
  BY <1>1, <1>2, <1>3, <1>4 DEF MapFits
<1>6. policyOf[h] = p
  BY <1>2, <1>3, <1>4 DEF MapFits
<1>7. Untouched(p)
  <2>1. filters' \subseteq RulePids
    BY <1>1 DEF InstallInv, InstallTypes
  <2>2. ASSUME NEW q \in RulePids \ {p}, NEW i \in Install!Handlers, policyOf'[i] = q
        PROVE  policyOf[i] = q
    BY <1>5, <2>2, NoneIsNone
  <2> QED
    BY <1>1, <1>5, <2>1, <2>2 DEF Untouched
<1>r. /\ Install!NeedsCheck(p)' = Install!NeedsCheck(p) /\ Install!Own(p)' = Install!Own(p)
      /\ Install!Calls(p)' = Install!Calls(p) /\ \A q \in RulePids : IsQos(q)' = IsQos(q)
  BY <1>1, <1>2, RulesStay
<1>n. /\ N = Entry(p, Head(f.elems), h) /\ N \subseteq AllEntries
      /\ \A c \in N : c.pid = p /\ c.mark = h /\ Shaped(c)
  <2>1. N = Entry(p, Head(f.elems), h)
    BY <1>2, <1>3, RuleIs
  <2>2. Head(f.elems) \in Ends(p) /\ h \in Marks
    BY <1>2 DEF Marks
  <2>3. \A c \in N : c.pid = p /\ c.mark = h /\ Shaped(c)
    BY <1>2, <1>3, <2>1, <2>2, EntryIsShaped
  <2> QED
    BY <2>1, <2>3 DEF Shaped
<1>8. /\ g.pc = "element" /\ g.pid = p /\ g.op = "destroy" /\ g.then = f.then /\ g.calls = <<>>
      /\ g.elems = <<>> /\ g.found = N /\ g \in Tasks
  <2>1. f.found \cup N \subseteq AllEntries /\ Tail(f.elems) \in Seq(Things)
    BY <1>2, <1>n, EmptySeq
  <2> QED
    BY <1>2, <1>3, <2>1, ZenonT(60) DEF Tasks, Steps
<1>w. worker'[Queue] = g
  BY <1>1, <1>2 DEF InstallInv, InstallTypes
<1>9. Step(w, f, g) /\ GoesOn(f, g)
  BY <1>1, <1>3, <1>7, <1>8 DEF Step, GoesOn
<1>10. PartsFit'
  <2>1. p \in filters' => Install!FiltersDns(p)
    BY <1>1 DEF InstallInv, PartsFit
  <2>2. \A c \in chains' : Shaped(c)
    BY <1>1 DEF InstallInv, PartsFit
  <2> QED
    BY <1>1, <1>2, <1>7, <2>1, <2>2, PartsKeep
<1>11. Holds(g)'
  <2>1. Coming(g) = {}
    BY <1>8, NothingComes
  <2>2. ~Install!Plain(p)
    BY <1>1, <1>2 DEF Holds, QosSteps
  <2>3. Holds(g)
    BY <1>2, <1>8, <1>n, <2>1, <2>2 DEF Holds, QosSteps
  <2> QED
    BY <1>1, <1>2, <1>8, <2>3, HeldIsHeld
<1>12. HasTaken(g)'
  BY <1>1, <1>2, <1>3, <1>5, <1>8, <1>r, SMTT(40) DEF HasTaken
<1>13. QosFits(g)'
  BY <1>8 DEF QosFits
<1>14. MapFits'
  <2>1. Install!Handlers' = Install!Handlers /\ Marks' = Marks /\ None \in Marks
    BY DEF Install!Handlers, Marks
  <2>2. /\ handlerOf' \in [RulePids -> Marks]
        /\ policyOf' \in [Install!Handlers -> RulePids \cup {None}]
    BY <1>1, <1>2, <1>4, <2>1 DEF MapFits
  <2>3. ASSUME NEW q \in RulePids, NEW i \in Install!Handlers
        PROVE  handlerOf'[q] = i <=> policyOf'[i] = q
    <3>1. handlerOf[q] = i <=> policyOf[i] = q
      BY <1>4 DEF MapFits
    <3> QED
      BY <1>3, <1>5, <1>6, <3>1, NoneIsNone
  <2>4. \A q \in RulePids : handlerOf'[q] # None => IsQos(q)'
    BY <1>2, <1>4, <1>5, <1>r DEF MapFits
  <2>5. \A i \in Install!Handlers : class'[i] # None => policyOf'[i] = class'[i]
    BY <1>1, <1>3, <1>4, <1>5 DEF MapFits
  <2> QED
    BY <1>1, <1>4, <2>1, <2>2, <2>3, <2>4, <2>5 DEF MapFits
<1>15. ASSUME NEW c \in chains' PROVE MarkFits(c, worker[Queue])'
  <2>1. MarkFits(c, f) /\ c.pid \in RulePids /\ EntryOf(c, Ends(c.pid))
    BY <1>1, <1>2, ShapedIs DEF InstallInv, PartsFit
  <2> SUFFICES ASSUME c.mark # None PROVE MarkFits(c, worker[Queue])'
    BY DEF MarkFits
  <2>2. handlerOf[c.pid] = c.mark /\ (c.pid # p => class[c.mark] = c.pid)
    BY <1>1, <2>1 DEF MarkFits
  <2>3. CASE c.pid = p
    <3>1. c \in N
      BY <1>2, <1>3, <1>n, <2>1, <2>2, <2>3 DEF EntryOf
    <3> QED
      BY <1>8, <1>w, <2>3, <3>1 DEF MarkFits
  <2>4. CASE c.pid # p
    BY <1>1, <1>5, <2>1, <2>2, <2>4 DEF MarkFits
  <2> QED
    BY <2>3, <2>4
<1>16. QosFits(worker[Queue])'
  BY <1>13, <1>w DEF QosFits
<1> QED
  BY <1>9, <1>10, <1>11, <1>12, <1>14, <1>15, <1>16 DEF Fits

\* Every step of a worker keeps the invariant.
LEMMA WorkKeepsInv ==
  ASSUME InstallInv, NEW w \in Install!Workers, Install!Work(w)
  PROVE  InstallInv'
<1>1. \E f, g : Fits(w, f, g)
  BY DnsFits, FillFits, NextCallFits, ElementFits, AllocateFits, StoreFits, ClassFits, ReleaseFits
     DEF Install!Work
<1> QED
  BY <1>1, FitsKeepsInv
-----------------------------------------------------------------------------
(* The rest of the steps *)

\* What the policy queue holds.
QueueJobs == {"enforce", "unenforce", "reenforce"} \X RulePids

\* What workers hold and what they are at stays while rules and parts stay.
LEMMA AsideKeeps ==
  ASSUME InstallInv, UNCHANGED <<rule, ipset, chains, filters, handlerOf, policyOf, class>>
  PROVE  /\ \A w \in Install!Workers : Holds(worker[w])' \/ worker'[w] # worker[w]
         /\ \A w \in Install!Workers : HasTaken(worker[w])' \/ worker'[w] # worker[w]
         /\ \A w \in Install!Workers : worker[w].pc # "idle" => worker[w].pid \in RulePids
         /\ PartsFit' /\ MapFits' /\ (QosFits(worker[Queue])' \/ worker'[Queue] # worker[Queue])
         /\ \A p \in RulePids : Install!Gone(p)' = Install!Gone(p)
<1>1. /\ \A p \in RulePids : /\ IsQos(p)' = IsQos(p) /\ Install!Own(p)' = Install!Own(p)
                             /\ Install!Calls(p)' = Install!Calls(p)
                             /\ Install!NeedsCheck(p)' = Install!NeedsCheck(p)
                             /\ Install!FiltersDns(p)' = Install!FiltersDns(p)
                             /\ Install!Fills(p)' = Install!Fills(p)
                             /\ Install!Plain(p)' = Install!Plain(p)
                             /\ \A e, m : Entry(p, e, m)' = Entry(p, e, m)
      /\ \A c : c.pid \in RulePids => Shaped(c)' = Shaped(c)
      /\ Install!Handlers' = Install!Handlers /\ Marks' = Marks
  BY RulesStay DEF Install!Handlers, Marks
<1>2. \A w \in Install!Workers : worker[w].pc # "idle" => worker[w].pid \in RulePids
  BY DEF InstallInv, InstallTypes, Tasks, Aims
<1>3. ASSUME NEW w \in Install!Workers, worker'[w] = worker[w] PROVE Holds(worker[w])'
  <2> PICK f : f = worker[w]
    OBVIOUS
  <2>1. Holds(f)'
    BY <1>2, HeldIsHeld DEF InstallInv
  <2> QED
    BY <1>3, <2>1 DEF Holds, Coming
<1>4. ASSUME NEW w \in Install!Workers, worker'[w] = worker[w] PROVE HasTaken(worker[w])'
  <2> PICK f : f = worker[w]
    OBVIOUS
  <2>1. HasTaken(f) /\ (f.pc # "idle" => f.pid \in RulePids)
    BY <1>2 DEF InstallInv
  <2>2. Coming(f)' = Coming(f)
    BY DEF Coming
  <2>3. \A c : f.pid \in RulePids /\ c.pid = f.pid => (EntryOf(c, Coming(f))' <=> EntryOf(c, Coming(f)))
    BY <1>1, <2>2 DEF EntryOf
  <2>4. HasTaken(f)'
    BY <1>1, <2>1, <2>2, <2>3 DEF HasTaken
  <2> QED
    BY <1>4, <2>4 DEF HasTaken, Coming, EntryOf
<1>5. PartsFit'
  <2>1. \A c \in chains : c.pid \in RulePids /\ Shaped(c)
    BY ShapedIs DEF InstallInv, PartsFit
  <2>2. filters \subseteq RulePids
    BY DEF InstallInv, InstallTypes
  <2> QED
    BY <1>1, <2>1, <2>2 DEF InstallInv, PartsFit
<1>6. MapFits'
  BY <1>1 DEF InstallInv, MapFits
<1>7. QosFits(worker[Queue])' \/ worker'[Queue] # worker[Queue]
  BY <1>1, <1>2, NoneIsNone DEF InstallInv, QosFits
<1>8. \A p \in RulePids : Install!Gone(p)' = Install!Gone(p)
  BY <1>1 DEF Install!Gone
<1> QED
  BY <1>2, <1>3, <1>4, <1>5, <1>6, <1>7, <1>8

\* Jobs are added to the queue, and nothing else happens to the rules.
LEMMA GrowKeepsInv ==
  ASSUME InstallInv, NEW s \in Seq(QueueJobs), queue' = queue \o s,
         UNCHANGED <<rule, worker, ipset, chains, filters, handlerOf, policyOf, class>>,
         enabled' \subseteq RulePids, IsFiniteSet(enabled'),
         \A p \in RulePids : rule[p].cronTime => (p \in enabled' <=> p \in enabled),
         check' = [pc |-> check'.pc, rules |-> check'.rules, cache |-> check'.cache],
         check'.rules \subseteq {p \in RulePids : Install!NeedsCheck(p)},
         \A i \in DOMAIN s : rule[s[i][2]].cronTime => Install!NeedsCheck(s[i][2]),
         \A p \in RulePids \ enabled' : ~Install!NeedsCheck(p) =>
             \/ p \notin enabled /\ \A i \in DOMAIN s : s[i][2] # p
             \/ s = << <<"unenforce", p>> >> /\ ~rule[p].cronTime
  PROVE  InstallInv'
<1>1. queue \in Seq(QueueJobs) /\ worker \in [Install!Workers -> Tasks]
  BY DEF InstallInv, InstallTypes, QueueJobs
<1>2. /\ queue' \in Seq(QueueJobs) /\ Len(queue') = Len(queue) + Len(s)
      /\ \A i \in 1 .. Len(queue) + Len(s) : queue'[i] = IF i <= Len(queue) THEN queue[i] ELSE s[i - Len(queue)]
  BY <1>1, ConcatProperties
<1>3. /\ DOMAIN queue = 1 .. Len(queue) /\ DOMAIN s = 1 .. Len(s)
      /\ DOMAIN queue' = 1 .. Len(queue) + Len(s) /\ Len(queue) \in Nat /\ Len(s) \in Nat
  BY <1>1, <1>2, LenProperties
<1>4. /\ \A i \in DOMAIN queue : i \in DOMAIN queue' /\ queue'[i] = queue[i]
      /\ \A i \in DOMAIN queue' : i \in DOMAIN queue \/ (i - Len(queue) \in DOMAIN s /\ queue'[i] = s[i - Len(queue)])
      /\ \A i \in DOMAIN s : i + Len(queue) \in DOMAIN queue' /\ queue'[i + Len(queue)] = s[i]
      /\ \A i \in DOMAIN queue' : i <= Len(queue) + Len(s)
  BY <1>2, <1>3
<1>r. /\ \A p \in RulePids : Install!NeedsCheck(p)' = Install!NeedsCheck(p)
      /\ \A p \in RulePids : Regular(rule[p])'
      /\ Tasks' = Tasks /\ Install!Workers' = Install!Workers
  BY RulesStay DEF InstallInv, InstallTypes, Install!Workers
<1>5. InstallTypes'
  <2>1. {p \in RulePids : Install!NeedsCheck(p)}' = {p \in RulePids : Install!NeedsCheck(p)}
    BY <1>r
  <2>2. filters' \subseteq RulePids /\ worker' \in [Install!Workers -> Tasks]
    BY <1>1 DEF InstallInv, InstallTypes
  <2>3. queue' \in Seq({"enforce", "unenforce", "reenforce"} \X RulePids)
    BY <1>2 DEF QueueJobs
  <2>4. /\ check' = [pc |-> check'.pc, rules |-> check'.rules, cache |-> check'.cache]
        /\ check'.rules \subseteq {p \in RulePids : Install!NeedsCheck(p)}
        /\ enabled' \subseteq RulePids /\ IsFiniteSet(enabled')
    OBVIOUS
  <2> QED
    BY <1>r, <2>1, <2>2, <2>3, <2>4 DEF InstallTypes
<1>6. \A w \in Install!Workers : Aims(w, worker[w])' /\ Holds(worker[w])' /\ HasTaken(worker[w])'
  <2> TAKE w \in Install!Workers
  <2>1. Holds(worker[w])' /\ HasTaken(worker[w])'
    BY AsideKeeps
  <2>2. Aims(w, worker[w]) /\ (worker[w].pc # "idle" => worker[w].pid \in RulePids)
    BY AsideKeeps DEF InstallInv
  <2>3. Aims(w, worker[w])'
    <3>1. w # Queue => w \in RulePids
      BY NoneIsNone
    <3> QED
      BY <1>r, <2>2, <3>1 DEF Aims
  <2> QED
    BY <2>1, <2>3
<1>7. PartsFit' /\ MapFits' /\ QosFits(worker[Queue])'
  BY AsideKeeps
<1>8. \A c \in chains' : MarkFits(c, worker[Queue])'
  BY DEF InstallInv, MarkFits
<1>9. JobsFit'
  <2>1. ASSUME NEW i \in DOMAIN queue', NEW p \in RulePids, p = queue'[i][2], rule[p].cronTime
        PROVE  Install!NeedsCheck(p)
    BY <1>4, <2>1, ZenonT(60) DEF InstallInv, JobsFit
  <2>2. \A i \in DOMAIN queue' : queue'[i][2] \in RulePids
    <3>1. \A i \in DOMAIN queue' : queue'[i] \in QueueJobs
      BY <1>2, ElementOfSeq, LenProperties
    <3> QED
      BY <3>1 DEF QueueJobs
  <2>3. ASSUME NEW i \in DOMAIN queue', NEW p, p = queue'[i][2], rule[p].cronTime
        PROVE  Install!NeedsCheck(p)'
    BY <1>r, <2>1, <2>2, <2>3
  <2> QED
    BY <2>3 DEF JobsFit
<1>10. AllRevoked'
  <2> SUFFICES ASSUME NEW p \in RulePids, p \notin enabled', ~Install!NeedsCheck(p)
               PROVE  ToRevoke(p)'
    BY <1>r DEF AllRevoked
  <2>1. Install!Gone(p)' = Install!Gone(p)
    BY AsideKeeps
  <2>2. CASE p \notin enabled /\ \A i \in DOMAIN s : s[i][2] # p
    <3>1. ToRevoke(p)
      BY <2>2 DEF InstallInv, AllRevoked
    <3>2. \A i \in DOMAIN queue' : queue'[i][2] = p => i \in DOMAIN queue
      BY <1>4, <2>2
    <3>3. Revocation(p)' = Revocation(p)
      <4>1. \A j \in DOMAIN queue' : queue'[j] = <<"unenforce", p>> => j \in DOMAIN queue
        BY <3>2
      <4> QED
        BY <1>4, <4>1 DEF Revocation
    <3>4. CASE rule[p].cronTime
      BY <2>1, <3>1, <3>4 DEF ToRevoke
    <3>5. CASE ~rule[p].cronTime
      <4>1. \A i \in DOMAIN queue' : queue'[i][2] = p => \E j \in Revocation(p) : j >= i
        BY <1>4, <3>1, <3>2, <3>5 DEF ToRevoke
      <4> QED
        BY <2>1, <3>1, <3>3, <3>5, <4>1 DEF ToRevoke
    <3> QED
      BY <3>4, <3>5
  <2>3. CASE s = << <<"unenforce", p>> >> /\ ~rule[p].cronTime
    <3>1. Len(s) = 1 /\ 1 \in DOMAIN s /\ s[1] = <<"unenforce", p>>
      BY <2>3
    <3>2. Len(queue) + 1 \in Revocation(p)'
      BY <1>3, <1>4, <3>1 DEF Revocation
    <3>3. \A i \in DOMAIN queue' : Len(queue) + 1 >= i
      BY <1>3, <3>1
    <3> QED
      BY <2>3, <3>2, <3>3 DEF ToRevoke
  <2> QED
    BY <2>2, <2>3
<1> QED
  BY <1>5, <1>6, <1>7, <1>8, <1>9, <1>10, <1>r DEF InstallInv

\* Append adds a sequence of one job.
LEMMA OneJob ==
  ASSUME NEW q \in Seq(QueueJobs), NEW e \in QueueJobs
  PROVE  Append(q, e) = q \o <<e>> /\ <<e>> \in Seq(QueueJobs)
<1>1. Append(q, e) = q \o <<e>>
  BY AppendIsConcat
<1>2. <<e>> \in Seq(QueueJobs)
  <2> HIDE DEF QueueJobs
  <2> QED
    OBVIOUS
<1> QED
  BY <1>1, <1>2

\* The app enables or disables a policy.
LEMMA ToggleKeepsInv ==
  ASSUME InstallInv, NEW p \in RulePids, Install!Toggle(p)
  PROVE  InstallInv'
<1> PICK s : s = << <<IF p \in enabled THEN "unenforce" ELSE "enforce", p>> >>
  OBVIOUS
<1>1. /\ ~rule[p].cronTime /\ queue' = Append(queue, <<IF p \in enabled THEN "unenforce" ELSE "enforce", p>>)
      /\ enabled' = IF p \in enabled THEN enabled \ {p} ELSE enabled \cup {p}
      /\ UNCHANGED <<rule, worker, ipset, chains, filters, handlerOf, policyOf, class, check>>
  BY DEF Install!Toggle, Install!Recurring, Install!kernel, Install!map, Install!box
<1>2. /\ queue \in Seq(QueueJobs) /\ enabled \subseteq RulePids /\ IsFiniteSet(enabled)
      /\ check = [pc |-> check.pc, rules |-> check.rules, cache |-> check.cache]
      /\ check.rules \subseteq {q \in RulePids : Install!NeedsCheck(q)}
  BY DEF InstallInv, InstallTypes, QueueJobs
<1>3. s \in Seq(QueueJobs) /\ queue' = queue \o s
  <2>1. <<IF p \in enabled THEN "unenforce" ELSE "enforce", p>> \in QueueJobs
    BY DEF QueueJobs
  <2> QED
    BY <1>1, <1>2, <2>1, OneJob
<1>4. enabled' \subseteq RulePids /\ IsFiniteSet(enabled')
  BY <1>1, <1>2, FS_AddElement, FS_RemoveElement
<1>5. \A q \in RulePids : rule[q].cronTime => (q \in enabled' <=> q \in enabled)
  BY <1>1
<1>6. \A i \in DOMAIN s : s[i][2] = p
  OBVIOUS
<1>7. \A q \in RulePids \ enabled' :
          \/ q \notin enabled /\ \A i \in DOMAIN s : s[i][2] # q
          \/ s = << <<"unenforce", q>> >> /\ ~rule[q].cronTime
  BY <1>1, <1>6
<1> QED
  BY <1>1, <1>2, <1>3, <1>4, <1>5, <1>6, <1>7, GrowKeepsInv, ZenonT(60)

\* A step of RuleCheckSensor.
LEMMA CheckStepKeepsInv ==
  ASSUME InstallInv, Install!CheckStep
  PROVE  InstallInv'
<1>1. /\ queue \in Seq(QueueJobs) /\ enabled \subseteq RulePids /\ IsFiniteSet(enabled)
      /\ check = [pc |-> check.pc, rules |-> check.rules, cache |-> check.cache]
      /\ check.rules \subseteq {q \in RulePids : Install!NeedsCheck(q)}
  BY DEF InstallInv, InstallTypes, QueueJobs
<1>2. queue = queue \o <<>> /\ <<>> \in Seq(QueueJobs)
  BY <1>1, ConcatEmptySeq
<1>3. /\ UNCHANGED <<rule, worker, ipset, chains, filters, handlerOf, policyOf, class, enabled>>
      /\ check' = [pc |-> check'.pc, rules |-> check'.rules, cache |-> check'.cache]
      /\ check'.rules \subseteq {q \in RulePids : Install!NeedsCheck(q)}
      /\ \/ queue' = queue
         \/ \E p \in RulePids : Install!NeedsCheck(p) /\ queue' = Append(queue, <<"reenforce", p>>)
  <2>1. CASE Install!CheckLoad
    BY <1>1, <2>1 DEF Install!CheckLoad, Install!kernel, Install!map, Install!box, Install!bounds
  <2>2. CASE Install!CheckRead
    BY <1>1, <2>2 DEF Install!CheckRead, Install!kernel, Install!map, Install!box, Install!bounds
  <2>3. ASSUME NEW p \in RulePids, Install!CheckRule(p)
        PROVE  /\ UNCHANGED <<rule, worker, ipset, chains, filters, handlerOf, policyOf, class, enabled>>
               /\ check' = [pc |-> check'.pc, rules |-> check'.rules, cache |-> check'.cache]
               /\ check'.rules \subseteq {q \in RulePids : Install!NeedsCheck(q)}
               /\ \/ queue' = queue
                  \/ Install!NeedsCheck(p) /\ queue' = Append(queue, <<"reenforce", p>>)
    BY <1>1, <2>3 DEF Install!CheckRule, Install!kernel, Install!map, Install!box, Install!bounds
  <2>4. CASE Install!CheckDone
    BY <1>1, <2>4 DEF Install!CheckDone, Install!NoCheck, Install!kernel, Install!map, Install!box,
       Install!bounds
  <2> QED
    BY <2>1, <2>2, <2>3, <2>4 DEF Install!CheckStep
<1>4. CASE queue' = queue
  <2> PICK s : s = <<>>
    OBVIOUS
  <2>1. queue' = queue \o s /\ s \in Seq(QueueJobs) /\ DOMAIN s = {}
    BY <1>2, <1>4
  <2> QED
    BY <1>1, <1>3, <2>1, GrowKeepsInv
<1>5. ASSUME NEW p \in RulePids, Install!NeedsCheck(p), queue' = Append(queue, <<"reenforce", p>>)
      PROVE  InstallInv'
  <2> PICK s : s = << <<"reenforce", p>> >>
    OBVIOUS
  <2>1. <<"reenforce", p>> \in QueueJobs
    BY DEF QueueJobs
  <2>2. s \in Seq(QueueJobs) /\ queue' = queue \o s
    BY <1>1, <1>5, <2>1, OneJob
  <2>3. \A i \in DOMAIN s : s[i][2] = p
    OBVIOUS
  <2>4. \A q \in RulePids \ enabled' : ~Install!NeedsCheck(q) =>
           q \notin enabled /\ \A i \in DOMAIN s : s[i][2] # q
    BY <1>3, <1>5, <2>3
  <2> QED
    BY <1>1, <1>3, <1>5, <2>2, <2>3, <2>4, GrowKeepsInv, ZenonT(60)
<1> QED
  BY <1>3, <1>4, <1>5

\* smart_block is switched.
LEMMA SmartBlockKeepsInv ==
  ASSUME InstallInv, Install!ToggleSmartBlock
  PROVE  InstallInv'
<1> PICK S : S = enabled \ Install!Recurring
  OBVIOUS
<1>1. PICK order \in Install!Orders(S) : queue' = queue \o [i \in DOMAIN order |-> <<"reenforce", order[i]>>]
  BY DEF Install!ToggleSmartBlock
<1>2. UNCHANGED <<rule, worker, ipset, chains, filters, handlerOf, policyOf, class, enabled, check>>
  BY DEF Install!ToggleSmartBlock, Install!kernel, Install!map
<1>3. /\ queue \in Seq(QueueJobs) /\ enabled \subseteq RulePids /\ IsFiniteSet(enabled)
      /\ check = [pc |-> check.pc, rules |-> check.rules, cache |-> check.cache]
      /\ check.rules \subseteq {q \in RulePids : Install!NeedsCheck(q)}
  BY DEF InstallInv, InstallTypes, QueueJobs
<1>4. /\ S \subseteq enabled /\ \A q \in S : q \in RulePids /\ ~rule[q].cronTime
  BY <1>3 DEF Install!Recurring
<1>5. PICK n \in Nat : order \in [1 .. n -> S]
  <2>1. S \in SUBSET enabled
    BY <1>4
  <2>2. IsFiniteSet(S)
    BY <1>3, <2>1, FS_Subset
  <2>3. Cardinality(S) \in Nat
    BY <2>2, FS_CardinalityType
  <2>4. order \in [1 .. Cardinality(S) -> S]
    <3>1. order \in [1 .. Install!Cardinality(S) -> S]
      BY <1>1 DEF Install!Orders
    <3>2. Install!Cardinality(S) = Cardinality(S)
      BY DEF Cardinality, Install!Cardinality
    <3> QED
      BY <3>1, <3>2
  <2> QED
    BY <2>3, <2>4
<1> PICK s : s = [i \in DOMAIN order |-> <<"reenforce", order[i]>>]
  OBVIOUS
<1>6. s \in [1 .. n -> QueueJobs] /\ \A i \in DOMAIN s : s[i][2] \in S
  BY <1>4, <1>5 DEF QueueJobs
<1>7. s \in Seq(QueueJobs)
  BY <1>6, FunctionIsSeq
<1>8. queue' = queue \o s
  BY <1>1
<1>9. \A q \in RulePids \ enabled' : q \notin enabled /\ \A i \in DOMAIN s : s[i][2] # q
  BY <1>2, <1>4, <1>6
<1>10. \A i \in DOMAIN s : ~rule[s[i][2]].cronTime
  BY <1>4, <1>6
<1> QED
  BY <1>2, <1>3, <1>7, <1>8, <1>9, <1>10, GrowKeepsInv, ZenonT(60)

\* A job that has just begun.
JobAt(p, op, then) == [Install!Idle EXCEPT !.pc = "dns", !.pid = p, !.op = op, !.then = then]

\* Nothing has been done in a job that has just begun.
LEMMA BegunIs ==
  ASSUME NEW g, g.pc = "dns", g.calls = <<>>, g.elems = <<>>, g.found = {}
  PROVE  Holds(g)' /\ HasTaken(g)' /\ QosFits(g)'
<1>1. Coming(g) = {}
  BY NothingComes
<1> QED
  BY <1>1 DEF Holds, HasTaken, QosFits, QosSteps, Coming

\* A recurring rule is switched.
LEMMA TickKeepsInv ==
  ASSUME InstallInv, NEW p \in RulePids, Install!Tick(p)
  PROVE  InstallInv'
<1> PICK op : op = IF p \in enabled THEN "destroy" ELSE "create"
  OBVIOUS
<1> PICK g : g = JobAt(p, op, FALSE)
  OBVIOUS
<1>1. /\ rule[p].cronTime /\ worker[p].pc = "idle" /\ worker' = [worker EXCEPT ![p] = g]
      /\ enabled' = IF p \in enabled THEN enabled \ {p} ELSE enabled \cup {p}
      /\ UNCHANGED <<rule, queue, ipset, chains, filters, handlerOf, policyOf, class, check>>
  BY DEF Install!Tick, Install!Begin, JobAt, Install!Recurring, Install!kernel, Install!map, Install!box
<1>2. /\ op \in {"create", "destroy"} /\ g \in Tasks /\ g.pc = "dns" /\ g.pid = p /\ g.op = op /\ ~g.then
      /\ Holds(g)' /\ HasTaken(g)'
  <2>1. op \in {"create", "destroy"} /\ FALSE \in BOOLEAN
    OBVIOUS
  <2>2. /\ g \in Tasks /\ g.pc = "dns" /\ g.pid = p /\ g.op = op /\ ~g.then
        /\ g.calls = <<>> /\ g.elems = <<>> /\ g.found = {}
    BY <2>1, IdleIsTask DEF Tasks, Steps, JobAt
  <2> QED
    BY <2>1, <2>2, BegunIs
<1>3. /\ worker \in [Install!Workers -> Tasks] /\ worker' \in [Install!Workers -> Tasks]
      /\ p \in Install!Workers /\ p # Queue /\ worker'[p] = g
      /\ \A w \in Install!Workers \ {p} : worker'[w] = worker[w]
  BY <1>1, <1>2, NoneIsNone DEF InstallInv, InstallTypes
<1>4. enabled' \subseteq RulePids /\ IsFiniteSet(enabled')
  <2>1. enabled \subseteq RulePids /\ IsFiniteSet(enabled)
    BY DEF InstallInv, InstallTypes
  <2> QED
    BY <1>1, <2>1, FS_AddElement, FS_RemoveElement
<1>r. /\ \A q \in RulePids : Install!NeedsCheck(q)' = Install!NeedsCheck(q)
      /\ \A q \in RulePids : Regular(rule[q])'
      /\ Tasks' = Tasks /\ Install!Workers' = Install!Workers
  BY <1>1, RulesStay DEF InstallInv, InstallTypes, Install!Workers
<1>5. InstallTypes'
  <2>1. {q \in RulePids : Install!NeedsCheck(q)}' = {q \in RulePids : Install!NeedsCheck(q)}
    BY <1>r
  <2>2. /\ queue' \in Seq({"enforce", "unenforce", "reenforce"} \X RulePids) /\ filters' \subseteq RulePids
        /\ check' = [pc |-> check'.pc, rules |-> check'.rules, cache |-> check'.cache]
        /\ check'.rules \subseteq {q \in RulePids : Install!NeedsCheck(q)}
    BY <1>1 DEF InstallInv, InstallTypes
  <2> QED
    BY <1>3, <1>4, <1>r, <2>1, <2>2 DEF InstallTypes
<1>6. \A w \in Install!Workers : Aims(w, worker[w])' /\ Holds(worker[w])' /\ HasTaken(worker[w])'
  <2> TAKE w \in Install!Workers
  <2>1. CASE w = p
    <3>1. Aims(p, g)'
      BY <1>1, <1>2, <1>3, NoneIsNone, ZenonT(60) DEF Aims
    <3> QED
      BY <1>2, <1>3, <2>1, <3>1 DEF Aims, Holds, HasTaken, Coming, EntryOf
  <2>2. CASE w # p
    <3>1. worker'[w] = worker[w] /\ Holds(worker[w])' /\ HasTaken(worker[w])'
      BY <1>1, <1>3, <2>2, AsideKeeps
    <3>2. Aims(w, worker[w]) /\ (worker[w].pc # "idle" => worker[w].pid \in RulePids)
      BY <1>1, AsideKeeps DEF InstallInv
    <3>3. w \in enabled' <=> w \in enabled
      BY <1>1, <2>2
    <3>4. Aims(w, worker[w])'
      BY <1>1, <1>r, <3>1, <3>2, <3>3 DEF Aims
    <3> QED
      BY <3>1, <3>4
  <2> QED
    BY <2>1, <2>2
<1>7. worker'[Queue] = worker[Queue]
  BY <1>3, NoneIsNone
<1>8. PartsFit' /\ MapFits' /\ QosFits(worker[Queue])'
  BY <1>1, <1>7, AsideKeeps
<1>9. \A c \in chains' : MarkFits(c, worker[Queue])'
  BY <1>1, <1>7 DEF InstallInv, MarkFits
<1>10. JobsFit'
  <2>1. \A i \in DOMAIN queue : queue[i][2] \in RulePids
    <3>1. queue \in Seq(QueueJobs)
      BY DEF InstallInv, InstallTypes, QueueJobs
    <3>2. \A i \in DOMAIN queue : queue[i] \in QueueJobs
      BY <3>1, ElementOfSeq, LenProperties
    <3> QED
      BY <3>2 DEF QueueJobs
  <2> QED
    BY <1>1, <1>r, <2>1 DEF InstallInv, JobsFit
<1>11. AllRevoked'
  <2> SUFFICES ASSUME NEW q \in RulePids, q \notin enabled', ~Install!NeedsCheck(q)
               PROVE  ToRevoke(q)'
    BY <1>r DEF AllRevoked
  <2>1. CASE q = p
    BY <1>1, <1>2, <1>3, <2>1 DEF ToRevoke
  <2>2. CASE q # p
    <3>1. ToRevoke(q)
      BY <1>1, <2>2 DEF InstallInv, AllRevoked
    <3>2. Install!Gone(q)' = Install!Gone(q) /\ worker'[q] = worker[q]
      BY <1>1, <1>3, <2>2, AsideKeeps, NoneIsNone
    <3>3. Revocation(q)' = Revocation(q)
      BY <1>1 DEF Revocation
    <3> QED
      BY <1>1, <1>7, <3>1, <3>2, <3>3 DEF ToRevoke
  <2> QED
    BY <2>1, <2>2
<1> QED
  BY <1>5, <1>6, <1>8, <1>9, <1>10, <1>11, <1>r DEF InstallInv

\* The queue takes the next job.
LEMMA TakeJobKeepsInv ==
  ASSUME InstallInv, Install!TakeJob
  PROVE  InstallInv'
<1>0. /\ queue \in Seq(QueueJobs) /\ worker \in [Install!Workers -> Tasks]
      /\ queue # <<>> /\ worker[Queue].pc = "idle"
  BY DEF InstallInv, InstallTypes, QueueJobs, Install!TakeJob
<1>h. /\ Head(queue) \in QueueJobs /\ Tail(queue) \in Seq(QueueJobs) /\ Len(Tail(queue)) = Len(queue) - 1
      /\ \A i \in 1 .. Len(Tail(queue)) : Tail(queue)[i] = queue[i + 1]
      /\ Head(queue) = queue[1] /\ Len(queue) \in Nat /\ Len(queue) # 0 /\ DOMAIN queue = 1 .. Len(queue)
      /\ DOMAIN Tail(queue) = 1 .. Len(Tail(queue))
  BY <1>0, HeadTailProperties, EmptySeq, LenProperties
<1> PICK k \in {"enforce", "unenforce", "reenforce"}, p \in RulePids : Head(queue) = <<k, p>>
  BY <1>h DEF QueueJobs
<1> PICK op, then : op = (IF k = "enforce" THEN "create" ELSE "destroy") /\ then = (k = "reenforce")
  OBVIOUS
<1> PICK g : g = JobAt(p, op, then)
  OBVIOUS
<1>1. /\ worker' = [worker EXCEPT ![Queue] = g] /\ queue' = Tail(queue)
      /\ UNCHANGED <<rule, enabled, ipset, chains, filters, handlerOf, policyOf, class, check>>
  <2>1. Install!Begin(Queue, Head(queue)[2], IF Head(queue)[1] = "enforce" THEN "create" ELSE "destroy",
                      Head(queue)[1] = "reenforce")
    BY DEF Install!TakeJob
  <2>2. Head(queue)[1] = k /\ Head(queue)[2] = p
    OBVIOUS
  <2>3. Install!Begin(Queue, p, op, then)
    BY <2>1, <2>2
  <2>4. worker' = [worker EXCEPT ![Queue] = g]
    BY <2>3 DEF Install!Begin, JobAt
  <2> QED
    BY <2>4 DEF Install!TakeJob, Install!kernel, Install!map, Install!box, Install!bounds
<1>2. /\ op \in {"create", "destroy"} /\ then \in BOOLEAN
      /\ g \in Tasks /\ g.pc = "dns" /\ g.pid = p /\ g.op = op /\ g.then = then
      /\ Holds(g)' /\ HasTaken(g)' /\ QosFits(g)'
  <2>1. op \in {"create", "destroy"} /\ then \in BOOLEAN
    OBVIOUS
  <2>2. /\ g \in Tasks /\ g.pc = "dns" /\ g.pid = p /\ g.op = op /\ g.then = then
        /\ g.calls = <<>> /\ g.elems = <<>> /\ g.found = {}
    BY <2>1, IdleIsTask DEF Tasks, Steps, JobAt
  <2> QED
    BY <2>1, <2>2, BegunIs
<1>3. /\ worker' \in [Install!Workers -> Tasks] /\ worker'[Queue] = g
      /\ \A w \in Install!Workers \ {Queue} : worker'[w] = worker[w]
  BY <1>0, <1>1, <1>2, NoneIsNone
<1>4. /\ DOMAIN queue' = 1 .. (Len(queue) - 1) /\ queue[1] = <<k, p>>
      /\ \A i \in DOMAIN queue' : i + 1 \in DOMAIN queue /\ queue'[i] = queue[i + 1]
      /\ \A j \in DOMAIN queue : j # 1 => j - 1 \in DOMAIN queue' /\ queue'[j - 1] = queue[j]
  BY <1>1, <1>h
<1>r. /\ \A q \in RulePids : Install!NeedsCheck(q)' = Install!NeedsCheck(q)
      /\ \A q \in RulePids : Regular(rule[q])'
      /\ Tasks' = Tasks /\ Install!Workers' = Install!Workers
  BY <1>1, RulesStay DEF InstallInv, InstallTypes, Install!Workers
<1>5. InstallTypes'
  <2>1. {q \in RulePids : Install!NeedsCheck(q)}' = {q \in RulePids : Install!NeedsCheck(q)}
    BY <1>r
  <2>2. /\ filters' \subseteq RulePids /\ enabled' \subseteq RulePids /\ IsFiniteSet(enabled')
        /\ check' = [pc |-> check'.pc, rules |-> check'.rules, cache |-> check'.cache]
        /\ check'.rules \subseteq {q \in RulePids : Install!NeedsCheck(q)}
    BY <1>1 DEF InstallInv, InstallTypes
  <2>3. queue' \in Seq({"enforce", "unenforce", "reenforce"} \X RulePids)
    BY <1>1, <1>h DEF QueueJobs
  <2> QED
    BY <1>3, <1>r, <2>1, <2>2, <2>3 DEF InstallTypes
<1>c. rule[p].cronTime => Install!NeedsCheck(p)
  <2>1. 1 \in DOMAIN queue /\ queue[1][2] = p
    BY <1>h, <1>4
  <2> QED
    BY <2>1 DEF InstallInv, JobsFit
<1>6. \A w \in Install!Workers : Aims(w, worker[w])' /\ Holds(worker[w])' /\ HasTaken(worker[w])'
  <2> TAKE w \in Install!Workers
  <2>1. CASE w = Queue
    <3>1. Aims(Queue, g)'
      BY <1>1, <1>2, <1>c, <1>r, NoneIsNone, ZenonT(60) DEF Aims
    <3> QED
      BY <1>2, <1>3, <2>1, <3>1 DEF Aims, Holds, HasTaken, Coming, EntryOf
  <2>2. CASE w # Queue
    <3>1. worker'[w] = worker[w] /\ Holds(worker[w])' /\ HasTaken(worker[w])'
      BY <1>1, <1>3, <2>2, AsideKeeps
    <3>2. Aims(w, worker[w]) /\ (worker[w].pc # "idle" => worker[w].pid \in RulePids)
      BY <1>1, AsideKeeps DEF InstallInv
    <3>3. Aims(w, worker[w])'
      BY <1>1, <1>r, <3>1, <3>2 DEF Aims
    <3> QED
      BY <3>1, <3>3
  <2> QED
    BY <2>1, <2>2
<1>7. PartsFit' /\ MapFits' /\ QosFits(worker[Queue])'
  BY <1>1, <1>2, <1>3, AsideKeeps DEF QosFits
<1>8. ASSUME NEW c \in chains' PROVE MarkFits(c, worker[Queue])'
  <2>1. MarkFits(c, worker[Queue]) /\ Holds(worker[Queue]) /\ c.pid \in RulePids
    BY <1>1, ShapedIs, NoneIsNone DEF InstallInv, PartsFit
  <2>2. worker[Queue].pid = None
    BY <1>0, <2>1, IdleIsTask DEF Holds
  <2> QED
    BY <1>1, <2>1, <2>2, NoneIsNone DEF MarkFits
<1>9. JobsFit'
  <2>1. ASSUME NEW i \in DOMAIN queue', NEW q, q = queue'[i][2], rule[q].cronTime
        PROVE  Install!NeedsCheck(q)'
    <3>1. i + 1 \in DOMAIN queue /\ q = queue[i + 1][2]
      BY <1>4, <2>1
    <3>2. Install!NeedsCheck(q)
      BY <2>1, <3>1 DEF InstallInv, JobsFit
    <3>3. q \in RulePids
      <4>1. queue[i + 1] \in QueueJobs
        BY <1>0, <3>1, ElementOfSeq, LenProperties
      <4> QED
        BY <3>1, <4>1 DEF QueueJobs
    <3> QED
      BY <1>r, <3>2, <3>3
  <2> QED
    BY <1>1, <2>1 DEF JobsFit
<1>10. AllRevoked'
  <2> SUFFICES ASSUME NEW q \in RulePids, q \notin enabled, ~Install!NeedsCheck(q)
               PROVE  ToRevoke(q)'
    BY <1>1, <1>r DEF AllRevoked
  <2>1. ToRevoke(q) /\ (Install!Gone(q)' <=> Install!Gone(q))
    BY <1>1, AsideKeeps DEF InstallInv, AllRevoked
  <2>2. CASE rule[q].cronTime
    <3>1. worker'[q] = worker[q]
      BY <1>3, NoneIsNone
    <3> QED
      BY <1>1, <2>1, <2>2, <3>1 DEF ToRevoke
  <2>3. CASE ~rule[q].cronTime
    <3>1. ASSUME NEW j \in Revocation(q), j # 1 PROVE j - 1 \in Revocation(q)'
      BY <1>4, <3>1 DEF Revocation
    <3>2. 1 \in Revocation(q) => p = q /\ k = "unenforce"
      BY <1>4 DEF Revocation
    <3>3. \A i \in DOMAIN queue : queue[i][2] = q => \E j \in Revocation(q) : j >= i
      BY <2>1, <2>3 DEF ToRevoke
    <3>4. \A j \in Revocation(q) : j \in 1 .. Len(queue)
      BY <1>h DEF Revocation
    <3>5. ASSUME NEW i \in DOMAIN queue', queue'[i][2] = q PROVE \E j \in Revocation(q)' : j >= i
      <4>1. PICK j \in Revocation(q) : j >= i + 1
        BY <1>4, <3>3, <3>5
      <4>2. j - 1 >= i /\ j # 1
        BY <1>4, <1>h, <3>4, <4>1
      <4> QED
        BY <3>1, <4>2
    <3>6. ASSUME p = q, op = "create" \/ then PROVE Revocation(q)' # {}
      <4>1. PICK j \in Revocation(q) : TRUE
        BY <1>4, <1>h, <3>3, <3>6
      <4>2. j # 1
        BY <3>2, <3>6
      <4> QED
        BY <3>1, <4>2
    <3>7. ASSUME p # q, Revocation(q)' = {} PROVE Install!Gone(q)'
      <4>1. Revocation(q) = {}
        BY <3>1, <3>2, <3>7
      <4>2. worker[Queue].pid # q
        <5>1. Holds(worker[Queue])
          BY NoneIsNone DEF InstallInv
        <5> QED
          BY <1>0, <5>1, IdleIsTask, NoneIsNone DEF Holds
      <4> QED
        BY <2>1, <2>3, <4>1, <4>2 DEF ToRevoke
    <3> QED
      BY <1>1, <1>2, <1>3, <2>3, <3>5, <3>6, <3>7 DEF ToRevoke
  <2> QED
    BY <2>2, <2>3
<1> QED
  BY <1>5, <1>6, <1>7, <1>8, <1>9, <1>10, <1>r DEF InstallInv

\* The rules of every box are regular.
Registered == \A box \in Boxes, p \in RulePids : Regular(box[p])

\* Nothing is enforced at the start.
LEMMA InstallStart ==
  ASSUME Registered, RulesInit
  PROVE  InstallInv
<1>1. /\ rule \in Boxes /\ enabled = {} /\ queue = <<>> /\ worker = [w \in Install!Workers |-> Install!Idle]
      /\ ipset = {} /\ chains = {} /\ filters = {} /\ handlerOf = [p \in RulePids |-> None]
      /\ policyOf = [h \in Install!Handlers |-> None] /\ class = [h \in Install!Handlers |-> None]
      /\ check = [pc |-> "idle", rules |-> {}, cache |-> None]
  BY DEF RulesInit, Install!Init, Install!NoCheck
<1>2. \A w \in Install!Workers : worker[w] = Install!Idle
  BY <1>1
<1>3. InstallTypes
  <2>1. worker \in [Install!Workers -> Tasks]
    BY <1>1, IdleIsTask
  <2>2. \A p \in RulePids : Regular(rule[p])
    BY <1>1 DEF Registered
  <2>3. IsFiniteSet(enabled) /\ enabled \subseteq RulePids /\ filters \subseteq RulePids
    BY <1>1, FS_EmptySet
  <2>4. queue \in Seq({"enforce", "unenforce", "reenforce"} \X RulePids)
    BY <1>1
  <2>5. /\ check = [pc |-> check.pc, rules |-> check.rules, cache |-> check.cache]
        /\ check.rules \subseteq {p \in RulePids : Install!NeedsCheck(p)}
    BY <1>1
  <2> QED
    BY <2>1, <2>2, <2>3, <2>4, <2>5 DEF InstallTypes
<1>4. ASSUME NEW w \in Install!Workers PROVE Aims(w, worker[w]) /\ Holds(worker[w]) /\ HasTaken(worker[w])
  <2> PICK f : f = Install!Idle /\ f = worker[w]
    BY <1>2
  <2> QED
    BY IdleIsTask DEF Aims, Holds, HasTaken, QosSteps
<1>5. PartsFit /\ MapFits /\ \A c \in chains : MarkFits(c, worker[Queue])
  <2>1. \A p \in RulePids, h \in Install!Handlers : handlerOf[p] = None /\ policyOf[h] = None /\ class[h] = None
    BY <1>1
  <2>2. None \in Marks
    BY DEF Marks
  <2> QED
    BY <1>1, <2>1, <2>2, NoneIsNone DEF PartsFit, MapFits
<1>6. QosFits(worker[Queue])
  BY <1>2, NoneIsNone, IdleIsTask DEF QosFits
<1>7. JobsFit
  BY <1>1 DEF JobsFit
<1>8. AllRevoked
  <2> SUFFICES ASSUME NEW p \in RulePids PROVE ToRevoke(p)
    BY DEF AllRevoked
  <2>1. Install!Gone(p)
    BY <1>1, NoneIsNone DEF Install!Gone
  <2>2. worker[Queue].pid # p
    BY <1>2, NoneIsNone, IdleIsTask
  <2>3. DOMAIN queue = {}
    BY <1>1
  <2> QED
    BY <2>1, <2>2, <2>3 DEF ToRevoke
<1> QED
  BY <1>3, <1>4, <1>5, <1>6, <1>7, <1>8 DEF InstallInv

\* The scheduler leaves the rules alone.
LEMMA InstallStutters ==
  ASSUME InstallInv, UNCHANGED installVars
  PROVE  InstallInv'
<1>1. /\ UNCHANGED <<rule, ipset, chains, filters, handlerOf, policyOf, class, enabled, check, worker>>
      /\ queue' = queue /\ queue \in Seq(QueueJobs) /\ enabled \subseteq RulePids /\ IsFiniteSet(enabled)
      /\ check = [pc |-> check.pc, rules |-> check.rules, cache |-> check.cache]
      /\ check.rules \subseteq {q \in RulePids : Install!NeedsCheck(q)}
  BY DEF installVars, InstallInv, InstallTypes, QueueJobs
<1> PICK s : s = <<>>
  OBVIOUS
<1>2. queue' = queue \o s /\ s \in Seq(QueueJobs) /\ DOMAIN s = {}
  BY <1>1, ConcatEmptySeq
<1> QED
  BY <1>1, <1>2, GrowKeepsInv

\* Every step keeps the invariant.
LEMMA InstallKeepsInv ==
  ASSUME InstallInv, [RulesNext]_allVars
  PROVE  InstallInv'
<1>1. CASE OfInstall /\ Install!Next
  <2>1. ASSUME NEW p \in RulePids, Install!Toggle(p) \/ Install!Tick(p) PROVE InstallInv'
    BY <2>1, ToggleKeepsInv, TickKeepsInv
  <2>2. CASE Install!TakeJob
    BY <2>2, TakeJobKeepsInv
  <2>3. ASSUME NEW w \in Install!Workers, Install!Work(w) PROVE InstallInv'
    BY <2>3, WorkKeepsInv
  <2>4. CASE Install!CheckStep
    BY <2>4, CheckStepKeepsInv
  <2>5. CASE Install!ToggleSmartBlock
    BY <2>5, SmartBlockKeepsInv
  <2> QED
    BY <1>1, <2>1, <2>2, <2>3, <2>4, <2>5 DEF Install!Next
<1>2. CASE UNCHANGED installVars
  BY <1>2, InstallStutters
<1> QED
  BY <1>1, <1>2 DEF RulesNext, allVars

\* The invariant of the rules.
LEMMA InstallIsInvariant ==
  ASSUME Registered
  PROVE  RulesSpec => []InstallInv
<1>1. RulesInit => InstallInv
  BY InstallStart
<1>2. InstallInv /\ [RulesNext]_allVars => InstallInv'
  BY InstallKeepsInv
<1> QED
  BY <1>1, <1>2, PTL DEF RulesSpec

(* "flag to indicate that this policy is revoked successfully": a rule that   *)
(* is disabled, with nothing under way for it, has no entry in a chain or in  *)
(* dnsmasq, no member of a set of its own, no handler and no class, however   *)
(* the jobs of the queue, the cron jobs, RuleCheckSensor and switches of      *)
(* smart_block were interleaved; for any rules that are regular.              *)
THEOREM DisabledIsGone ==
  ASSUME Registered
  PROVE  RulesSpec => []UncheckedIsGone
<1>1. ASSUME InstallInv PROVE UncheckedIsGone
  <2> SUFFICES ASSUME NEW p \in RulePids, p \notin enabled, ~Install!Busy(p), ~Install!NeedsCheck(p)
               PROVE  Install!Gone(p)
    BY DEF UncheckedIsGone, Install!UncheckedIsGone
  <2>1. ToRevoke(p)
    BY <1>1 DEF InstallInv, AllRevoked
  <2>2. \A w \in Install!Workers : worker[w].pid # p
    BY DEF Install!Busy
  <2>3. \A j \in DOMAIN queue : queue[j] # <<"unenforce", p>>
    BY DEF Install!Busy
  <2>4. CASE rule[p].cronTime
    <3>1. Aims(p, worker[p]) /\ p \in Install!Workers /\ p # Queue
      BY <1>1, NoneIsNone DEF InstallInv
    <3>2. worker[p].pc = "idle"
      BY <2>2, <3>1 DEF Aims
    <3> QED
      BY <2>1, <2>4, <3>2 DEF ToRevoke
  <2>5. CASE ~rule[p].cronTime
    <3>1. Revocation(p) = {}
      BY <2>3 DEF Revocation
    <3> QED
      BY <2>1, <2>2, <2>5, <3>1, NoneIsNone DEF ToRevoke
  <2> QED
    BY <2>4, <2>5
<1>2. InstallInv => UncheckedIsGone
  BY <1>1
<1>3. RulesSpec => []InstallInv
  BY InstallIsInvariant
<1> QED
  BY <1>2, <1>3, PTL

(* Every mark in the chains is the handler of the rule that set it, in both   *)
(* halves of the map, and the class of that handler is configured for it: no  *)
(* two rules of QoS ever shape traffic with one class.                        *)
THEOREM MarkSelectsItsClass ==
  ASSUME Registered
  PROVE  RulesSpec => []MarksAreOwned
<1>1. ASSUME InstallInv PROVE MarksAreOwned
  <2> SUFFICES ASSUME NEW c \in chains, c.mark # None, ~Install!Busy(c.pid)
               PROVE  handlerOf[c.pid] = c.mark /\ policyOf[c.mark] = c.pid /\ class[c.mark] = c.pid
    BY DEF MarksAreOwned, Install!MarksAreOwned
  <2>1. MarkFits(c, worker[Queue]) /\ worker[Queue].pid # c.pid
    BY <1>1, NoneIsNone DEF InstallInv, Install!Busy
  <2>2. handlerOf[c.pid] = c.mark /\ class[c.mark] = c.pid
    BY <2>1 DEF MarkFits
  <2>3. c.pid \in RulePids /\ c.mark \in Install!Handlers
    BY <1>1, ShapedIs DEF InstallInv, PartsFit, Marks
  <2> QED
    BY <1>1, <2>2, <2>3 DEF InstallInv, MapFits
<1>2. InstallInv => MarksAreOwned
  BY <1>1
<1>3. RulesSpec => []InstallInv
  BY InstallIsInvariant
<1> QED
  BY <1>2, <1>3, PTL
=============================================================================

--------------------------- MODULE PolicyScheduler ---------------------------
(***************************************************************************)
(* The scheduler of recurring policies, extension/scheduler/scheduler.js.  *)
(*                                                                         *)
(* It runs inside FireMain, one JavaScript thread, so every step below is  *)
(* the code between two awaits.  Four kinds of activity interleave:        *)
(*   - the policy queue (one job at a time) registers, deregisters and     *)
(*     re-registers policies;                                              *)
(*   - a CronJob fires and calls apply, which nobody serialises with the   *)
(*     queue;                                                              *)
(*   - the timeout that apply armed expires and revokes the policy;        *)
(*   - a change of timezone deregisters and registers everything again.    *)
(*                                                                         *)
(* One call of apply() and the timeout it creates are one ACTIVATION: it   *)
(* goes through the stages enforcing -> enforced -> armed -> firing ->     *)
(* revoked -> done.  The identity of an activation is the identity of its  *)
(* timeout handle, which is what policyTimers and deregisterPolicy hold.   *)
(***************************************************************************)
EXTENDS Naturals, FiniteSets

CONSTANTS Pids,          \* the recurring policies
          Versions,      \* the contents a policy may have (cronTime, duration)
          Slots,         \* identities of activations and of their timeouts
          Reloads,       \* identities of the runs of the timezone reload loop
          Queue,         \* the one consumer of the policy queue
          None,          \* an absent entry of a JavaScript object
          MaxJobs,       \* bound: jobs taken from the policy queue
          MaxRejections  \* bound: calls of the enforcement callbacks that reject

ASSUME SchedulerAssumption ==
    /\ None \notin Pids \cup Versions \cup Slots
    /\ Queue \notin Reloads
    /\ MaxJobs \in Nat
    /\ MaxRejections \in Nat

VARIABLES runningCronJobs, \* pid -> version of the policy its CronJob was made for
          ticking,         \* pid -> number of started CronJob objects
          policyTimers,    \* pid -> timeout handle
          act,             \* activation -> its policy and stage
          kernel,          \* pid -> are its rules installed
          frame,           \* caller -> where it is in (de)registerPolicy
          todo,            \* reload run -> policyCopy still to be processed
          wanted,          \* pid -> version last asked for by the queue (history)
          rejected,        \* which callbacks have rejected (history)
          jobs,            \* jobs taken so far
          started          \* reload runs that have started

vars == <<runningCronJobs, ticking, policyTimers, act, kernel, frame, todo,
          wanted, rejected, jobs, started>>

Callers == {Queue} \cup Reloads

Stages == {"free", "enforcing", "enforced", "armed", "firing", "revoked", "done"}

Points == {"idle", "unenforcing", "unenforced", "applying"}

\* Which call rejected: an enforce before or after it installed rules, the
\* unenforce of a timeout, of a queue job, of a reload run.
Calls == {"enforce", "partial", "revoke", "deregister", "reload"}

Idle == [pc |-> "idle", pid |-> None, ver |-> None, timer |-> None]

Init ==
    /\ runningCronJobs = [p \in Pids |-> None]
    /\ ticking = [p \in Pids |-> 0]
    /\ policyTimers = [p \in Pids |-> None]
    /\ act = [s \in Slots |-> [pid |-> None, stage |-> "free"]]
    /\ kernel = [p \in Pids |-> FALSE]
    /\ frame = [c \in Callers |-> Idle]
    /\ todo = [r \in Reloads |-> {}]
    /\ wanted = [p \in Pids |-> None]
    /\ rejected = {}
    /\ jobs = 0
    /\ started = {}

\* Between two turns the reload loop does not yield: nothing else can run.
Looping(r) == frame[r].pc = "idle" /\ todo[r] # {}

Yielded == \A r \in Reloads : ~Looping(r)

-----------------------------------------------------------------------------
(* registerPolicy and apply *)

\* apply(policy, duration) up to its first await: the enforce callback starts.
StartApply(acts, s, p) ==
    /\ acts[s].stage = "free"
    /\ act' = [acts EXCEPT ![s] = [pid |-> p, stage |-> "enforcing"]]

\* Variant: the check for an existing job is missing.
AlreadyRegistered_unchecked(crons, p) == FALSE

AlreadyRegistered(crons, p) == crons[p] # None

\* Caller c, if it is a reload run, is done with policy p, or throws.
Turned(c, p) == [r \in Reloads |-> IF r = c THEN {pv \in todo[r] : pv[1] # p}
                                            ELSE todo[r]]

Abandon(c) == [r \in Reloads |-> IF r = c THEN {} ELSE todo[r]]

\* registerPolicy of version v by caller c up to its first await, in a state
\* where the job table is crons, the started jobs ticks, the activations acts.
\* It throws when a job is registered; a throw ends a queue job, and it ends
\* the whole loop of a reload.  Whether the policy should be running now
\* depends on the clock: both outcomes of shouldPolicyBeRunning are possible.
Register(c, p, v, crons, ticks, acts) ==
    \/ /\ AlreadyRegistered(crons, p)
       /\ frame' = [frame EXCEPT ![c] = Idle]
       /\ todo' = Abandon(c)
       /\ runningCronJobs' = crons /\ ticking' = ticks /\ act' = acts
    \/ /\ ~AlreadyRegistered(crons, p)
       /\ runningCronJobs' = [crons EXCEPT ![p] = v]
       /\ ticking' = [ticks EXCEPT ![p] = @ + 1]
       /\ todo' = Turned(c, p)
       /\ \/ frame' = [frame EXCEPT ![c] = Idle] /\ act' = acts
          \/ \E s \in Slots :
                /\ StartApply(acts, s, p)
                /\ frame' = [frame EXCEPT ![c] =
                       [pc |-> "applying", pid |-> p, ver |-> v, timer |-> s]]

\* What caller c does when deregisterPolicy is over: nothing more, or register
\* version v (a reenforce job, a turn of the reload loop) without yielding.
Proceed(c, p, v, crons, ticks, acts) ==
    IF v # None
    THEN Register(c, p, v, crons, ticks, acts)
    ELSE /\ frame' = [frame EXCEPT ![c] = Idle]
         /\ runningCronJobs' = crons /\ ticking' = ticks /\ act' = acts
         /\ todo' = todo

\* The frames that wait for the apply they called on slot s.
Waiting(s) == {c \in Callers : frame[c].pc = "applying" /\ frame[c].timer = s}

\* The enforce callback (PolicyManager2._enforce) installs the rules ...
ApplyEffect(s) ==
    /\ Yielded
    /\ act[s].stage = "enforcing"
    /\ act' = [act EXCEPT ![s].stage = "enforced"]
    /\ kernel' = [kernel EXCEPT ![act[s].pid] = TRUE]
    /\ UNCHANGED <<runningCronJobs, ticking, policyTimers, frame, todo, wanted,
                   rejected, jobs, started>>

\* ... and apply goes on: the timeout is armed and recorded, over any other.
ApplyFinish(s) ==
    /\ Yielded
    /\ act[s].stage = "enforced"
    /\ act' = [act EXCEPT ![s].stage = "armed"]
    /\ policyTimers' = [policyTimers EXCEPT ![act[s].pid] = s]
    /\ frame' = [c \in Callers |-> IF c \in Waiting(s) THEN Idle ELSE frame[c]]
    /\ UNCHANGED <<runningCronJobs, ticking, kernel, todo, wanted, rejected, jobs, started>>

Reject(p, call) ==
    /\ <<p, call>> \notin rejected
    /\ Cardinality(rejected) < MaxRejections
    /\ rejected' = rejected \cup {<<p, call>>}

\* The enforce callback rejects, before or after the rules are installed: no
\* timeout is armed.  A reload run that waits for it loses the rest of its loop.
ApplyReject(s) ==
    /\ Yielded
    /\ act[s].stage \in {"enforcing", "enforced"}
    /\ act' = [act EXCEPT ![s].stage = "done"]
    /\ Reject(act[s].pid, IF act[s].stage = "enforced" THEN "partial" ELSE "enforce")
    /\ frame' = [c \in Callers |-> IF c \in Waiting(s) THEN Idle ELSE frame[c]]
    /\ todo' = [r \in Reloads |-> IF r \in Waiting(s) THEN {} ELSE todo[r]]
    /\ UNCHANGED <<runningCronJobs, ticking, policyTimers, kernel, wanted, jobs, started>>

\* A CronJob fires: apply without anybody waiting for it.
CronTick(p) ==
    /\ Yielded
    /\ ticking[p] > 0
    /\ \E s \in Slots : StartApply(act, s, p)
    /\ UNCHANGED <<runningCronJobs, ticking, policyTimers, kernel, frame, todo,
                   wanted, rejected, jobs, started>>

-----------------------------------------------------------------------------
(* The callback of the timeout *)

TimerFires(s) ==
    /\ Yielded
    /\ act[s].stage = "armed"
    /\ act' = [act EXCEPT ![s].stage = "firing"]
    /\ UNCHANGED <<runningCronJobs, ticking, policyTimers, kernel, frame, todo,
                   wanted, rejected, jobs, started>>

\* Variant: the callback forgets the policy without revoking its rules.
RevokedRules_kept(p) == kernel[p]

RevokedRules(p) == FALSE

RevokeEffect(s) ==
    /\ Yielded
    /\ act[s].stage = "firing"
    /\ act' = [act EXCEPT ![s].stage = "revoked"]
    /\ kernel' = [kernel EXCEPT ![act[s].pid] = RevokedRules(act[s].pid)]
    /\ UNCHANGED <<runningCronJobs, ticking, policyTimers, frame, todo, wanted,
                   rejected, jobs, started>>

\* The unenforce callback rejects; the error is caught and the entry deleted.
RevokeReject(s) ==
    /\ Yielded
    /\ act[s].stage = "firing"
    /\ act' = [act EXCEPT ![s].stage = "revoked"]
    /\ Reject(act[s].pid, "revoke")
    /\ UNCHANGED <<runningCronJobs, ticking, policyTimers, kernel, frame, todo,
                   wanted, jobs, started>>

\* The entry is deleted by pid, whichever timeout it holds by now.
RevokeFinish(s) ==
    /\ Yielded
    /\ act[s].stage = "revoked"
    /\ act' = [act EXCEPT ![s].stage = "done"]
    /\ policyTimers' = [policyTimers EXCEPT ![act[s].pid] = None]
    /\ UNCHANGED <<runningCronJobs, ticking, kernel, frame, todo, wanted,
                   rejected, jobs, started>>

-----------------------------------------------------------------------------
(* deregisterPolicy *)

StoppedJobs(p) == [runningCronJobs EXCEPT ![p] = None]

\* Variant: stop() is called whether or not there is a job.
StartedAfterStop_always(p) == [ticking EXCEPT ![p] = @ - 1]

StartedAfterStop(p) ==
    IF runningCronJobs[p] # None THEN [ticking EXCEPT ![p] = @ - 1] ELSE ticking

\* Up to its first await: the job is stopped and forgotten; a timeout that is
\* recorded is remembered and the unenforce callback starts, else that is all.
\* v is the version to register afterwards.
Deregister(c, p, v) ==
    \/ /\ policyTimers[p] # None
       /\ runningCronJobs' = StoppedJobs(p)
       /\ ticking' = StartedAfterStop(p)
       /\ frame' = [frame EXCEPT ![c] =
              [pc |-> "unenforcing", pid |-> p, ver |-> v, timer |-> policyTimers[p]]]
       /\ UNCHANGED <<act, todo>>
    \/ /\ policyTimers[p] = None
       /\ Proceed(c, p, v, StoppedJobs(p), StartedAfterStop(p), act)

DeregisterEffect(c) ==
    /\ Yielded
    /\ frame[c].pc = "unenforcing"
    /\ frame' = [frame EXCEPT ![c].pc = "unenforced"]
    /\ kernel' = [kernel EXCEPT ![frame[c].pid] = FALSE]
    /\ UNCHANGED <<runningCronJobs, ticking, policyTimers, act, todo, wanted,
                   rejected, jobs, started>>

\* Variant: the timeout that is in the map by now is cleared.
TimerToClear_current(f) == policyTimers[f.pid]

TimerToClear(f) == f.timer

\* clearTimeout has no effect on a timeout that has fired.
Cleared(t) == [s \in Slots |-> IF s = t /\ act[s].stage = "armed"
                                THEN [act[s] EXCEPT !.stage = "done"] ELSE act[s]]

DeregisterFinish(c) ==
    LET f == frame[c] IN
    /\ Yielded
    /\ f.pc = "unenforced"
    /\ policyTimers' = [policyTimers EXCEPT ![f.pid] = None]
    /\ Proceed(c, f.pid, f.ver, runningCronJobs, ticking, Cleared(TimerToClear(f)))
    /\ UNCHANGED <<kernel, wanted, rejected, jobs, started>>

\* Variant: reenforce does not catch the error of its unenforce.
Caught_never(c) == FALSE

\* The queue logs the error, and a reenforce goes on; a reload run ends.
Caught(c) == c = Queue

\* The unenforce callback rejects: the timeout and its entry stay.
DeregisterReject(c) ==
    LET f == frame[c] IN
    /\ Yielded
    /\ f.pc = "unenforcing"
    /\ Reject(f.pid, IF c = Queue THEN "deregister" ELSE "reload")
    /\ \/ Caught(c) /\ Proceed(c, f.pid, f.ver, runningCronJobs, ticking, act)
       \/ /\ ~Caught(c)
          /\ frame' = [frame EXCEPT ![c] = Idle]
          /\ todo' = Abandon(c)
          /\ UNCHANGED <<runningCronJobs, ticking, act>>
    /\ UNCHANGED <<policyTimers, kernel, wanted, jobs, started>>

-----------------------------------------------------------------------------
(* The policy queue: PolicyManager2.enforce and .unenforce for a policy with a *)
(* cronTime.  Its one consumer takes a job when it has finished the last one.  *)

TakeJob(p, v) ==
    /\ Yielded
    /\ frame[Queue].pc = "idle"
    /\ jobs < MaxJobs
    /\ jobs' = jobs + 1
    /\ wanted' = [wanted EXCEPT ![p] = v]

\* A new policy, one that is enabled, or all of them again after a disable-all:
\* the contents of an enforced policy only change through a reenforce.
EnforceJob(p, v) ==
    /\ wanted[p] \in {None, v}
    /\ TakeJob(p, v)
    /\ Register(Queue, p, v, runningCronJobs, ticking, act)
    /\ UNCHANGED <<policyTimers, kernel, rejected, started>>

UnenforceJob(p) ==
    /\ TakeJob(p, None)
    /\ Deregister(Queue, p, None)
    /\ UNCHANGED <<policyTimers, kernel, rejected, started>>

ReenforceJob(p, v) ==
    /\ TakeJob(p, v)
    /\ Deregister(Queue, p, v)
    /\ UNCHANGED <<policyTimers, kernel, rejected, started>>

-----------------------------------------------------------------------------
(* The timezone reload *)

\* Variant: all the jobs are stopped before the loop starts.
ReloadStart_stopAll(r) ==
    /\ Yielded
    /\ r \notin started
    /\ started' = started \cup {r}
    /\ todo' = [todo EXCEPT ![r] =
           {<<p, runningCronJobs[p]>> : p \in {q \in Pids : runningCronJobs[q] # None}}]
    /\ runningCronJobs' = [p \in Pids |-> None]
    /\ ticking' = [p \in Pids |-> 0]
    /\ UNCHANGED <<policyTimers, act, kernel, frame, wanted, rejected, jobs>>

\* The debounced task runs: it copies the registered policies.
ReloadStart(r) ==
    /\ Yielded
    /\ r \notin started
    /\ started' = started \cup {r}
    /\ todo' = [todo EXCEPT ![r] =
           {<<p, runningCronJobs[p]>> : p \in {q \in Pids : runningCronJobs[q] # None}}]
    /\ UNCHANGED <<runningCronJobs, ticking, policyTimers, act, kernel, frame,
                   wanted, rejected, jobs>>

\* The next turn of the loop: deregister, then register what was copied.
ReloadNext(r) ==
    /\ Looping(r)
    /\ \E pv \in todo[r] : Deregister(r, pv[1], pv[2])
    /\ UNCHANGED <<policyTimers, kernel, wanted, rejected, jobs, started>>

-----------------------------------------------------------------------------
CallerStep(c) ==
    \/ DeregisterEffect(c)
    \/ DeregisterFinish(c)
    \/ DeregisterReject(c)

ActivationStep(s) ==
    \/ ApplyEffect(s)
    \/ ApplyFinish(s)
    \/ ApplyReject(s)
    \/ TimerFires(s)
    \/ RevokeEffect(s)
    \/ RevokeReject(s)
    \/ RevokeFinish(s)

Next ==
    \/ \E c \in Callers : CallerStep(c)
    \/ \E s \in Slots : ActivationStep(s)
    \/ \E p \in Pids :
          \/ CronTick(p)
          \/ UnenforceJob(p)
          \/ \E v \in Versions : EnforceJob(p, v) \/ ReenforceJob(p, v)
    \/ \E r \in Reloads : ReloadStart(r) \/ ReloadNext(r)

Spec == Init /\ [][Next]_vars

\* An awaited callback settles, its continuation runs, and a timeout that is
\* armed expires.  Nothing makes jobs, cron ticks or reloads happen.
Fairness ==
    /\ \A s \in Slots : WF_vars(ActivationStep(s))
    /\ \A c \in Callers : WF_vars(CallerStep(c))
    /\ \A r \in Reloads : WF_vars(ReloadNext(r))

FairSpec == Spec /\ Fairness

-----------------------------------------------------------------------------
(* Properties *)

TypeOK ==
    /\ runningCronJobs \in [Pids -> Versions \cup {None}]
    /\ ticking \in [Pids -> Nat]
    /\ policyTimers \in [Pids -> Slots \cup {None}]
    /\ act \in [Slots -> [pid : Pids \cup {None}, stage : Stages]]
    /\ kernel \in [Pids -> BOOLEAN]
    /\ frame \in [Callers -> [pc : Points, pid : Pids \cup {None},
                              ver : Versions \cup {None}, timer : Slots \cup {None}]]
    /\ todo \in [Reloads -> SUBSET (Pids \X Versions)]
    /\ wanted \in [Pids -> Versions \cup {None}]
    /\ rejected \subseteq Pids \X Calls
    /\ jobs \in 0..MaxJobs
    /\ started \subseteq Reloads

\* Every started CronJob can be stopped: a policy has one exactly when
\* runningCronJobs names it, and never two.  A job that registerPolicy or the
\* reload lost would apply a deleted policy for ever.
OneCronJobPerPolicy ==
    \A p \in Pids : ticking[p] = IF runningCronJobs[p] # None THEN 1 ELSE 0

\* A deregisterPolicy has revoked the rules and is about to clear timeout s.
Doomed(s) == \E c \in Callers : frame[c].pc = "unenforced" /\ frame[c].timer = s

\* What will still revoke the rules of p: an activation that is about to arm
\* its timeout, a timeout nobody is about to clear, or its callback.
Revocable(p) ==
    \E s \in Slots : /\ act[s].pid = p
                     /\ \/ act[s].stage \in {"enforced", "firing"}
                        \/ act[s].stage = "armed" /\ ~Doomed(s)

\* The rules of a scheduled policy are never left installed with nothing
\* pending to revoke them, however cron ticks, timeouts, queue jobs and reloads
\* interleave, unless installing them failed half way or the timeout's own
\* unenforce rejected.
ActivationBounded ==
    \A p \in Pids :
        (kernel[p] /\ {<<p, "partial">>, <<p, "revoke">>} \cap rejected = {})
            => Revocable(p)

\* A policy the queue last asked to enforce keeps a cron job when the queue and
\* the reload have finished: neither a reload nor a reenforce, nor both at
\* once, nor an error of one of them leaves it without a schedule.  The one
\* exception is an unenforce that rejects inside the reload loop.
ScheduledStaysScheduled ==
    (\A c \in Callers : frame[c].pc = "idle") =>
        \A p \in Pids :
            (wanted[p] # None /\ <<p, "reload">> \notin rejected)
                => runningCronJobs[p] # None

\* Every activation of a policy comes to an end, unless a callback rejected.
ActivationEnds == \A p \in Pids : kernel[p] ~> ~kernel[p] \/ rejected # {}

Quiet ==
    /\ \A c \in Callers : frame[c].pc = "idle"
    /\ \A s \in Slots : act[s].stage \in {"free", "armed", "done"}

\* What the comment on the enforcement listener asks for, "need to ensure it's
\* serialized": with nothing in flight the schedule that runs is the one the
\* last job asked for.
LastJobWins ==
    (Quiet /\ Yielded) =>
        \A p \in Pids : runningCronJobs[p] = wanted[p]
=============================================================================

---------------------------- MODULE PolicyManager ----------------------------
(***************************************************************************)
(* The life of a policy (a rule), alarm/PolicyManager2.js, seen by several *)
(* processes that share redis and the kernel:                              *)
(*   - clients (FireApi: the messages of the app in controllers/netbot.js) *)
(*     change the record of a policy in redis and then emit an event;      *)
(*   - FireMain turns events into jobs of a queue with one consumer, which *)
(*     enforces and unenforces policies;                                   *)
(*   - timeouts in FireMain revoke a policy that expires and enable again  *)
(*     one that was paused, outside that queue.                            *)
(*                                                                         *)
(* A step is the code between two awaits, so each access to redis is a     *)
(* step of its own and anything may happen between two of them.            *)
(* updatePolicyAsync in particular reads a whole record in one step and    *)
(* writes it whole in a later one.                                         *)
(*                                                                         *)
(* Recurring policies are left to PolicyScheduler; disable-all, screen     *)
(* time and what the rules of a policy are made of are left out.           *)
(***************************************************************************)
EXTENDS Naturals, Sequences, FiniteSets

CONSTANTS Pids,       \* the policies
          Clients,    \* operations of the app that may be under way at a time
          Handlers,   \* calls of the queue's handler that may be under way
          Timers,     \* identities of timeouts
          None,
          Lives,      \* a subset of {"plain", "expiring", "autodelete"}
          Pausing,    \* may the app pause a policy until a given time
          Patient,    \* do clients wait until FireMain has caught up
          MaxOps,     \* bound: operations of clients
          MaxCrashes, \* bound: crashes of FireMain
          MaxTimeouts \* bound: jobs that outlive the 60 s the queue gives them

ASSUME ManagerAssumption ==
    /\ Lives \subseteq {"plain", "expiring", "autodelete"}
    /\ Pausing \in BOOLEAN /\ Patient \in BOOLEAN
    /\ MaxOps \in Nat /\ MaxCrashes \in Nat /\ MaxTimeouts \in Nat
    /\ Clients \cap Handlers = {} /\ (Clients \cup Handlers) \cap Timers = {}
    /\ None \notin Pids \cup Clients \cup Handlers \cup Timers
    /\ IsFiniteSet(Pids)

VARIABLES record,        \* redis policy:<pid>
          active,        \* redis policy_active
          queue,         \* the policy queue
          fireMain,      \* "down", "listening" (booting) or "running"
          current,       \* the handler the queue waits for
          proc,          \* client, handler or timeout -> where its code is
          enabledTimers, \* pid -> timeout
          kernel,        \* pid -> are its rules installed
          ever,          \* pids that have been used (policy:id only grows)
          touched,       \* pids changed by clients or timeouts since the boot (history)
          ops, crashes, timeouts

redis == <<record, active>>
bounds == <<ops, crashes, timeouts>>
vars == <<record, active, queue, fireMain, current, proc, enabledTimers, kernel,
          ever, touched, ops, crashes, timeouts>>

Procs == Clients \cup Handlers \cup Timers

Policy == [disabled : BOOLEAN, idle : BOOLEAN, life : Lives]

ASSUME NoneAssumption == None \notin Policy

\* The partial updates the code makes: the app edits or pauses a policy, the
\* code enables it, disables it or refreshes its activatedTime.
Patches == Lives \cup {"pause", "enable", "disable", "touch"}

Patched(r, patch) ==
    CASE patch = "pause"   -> [r EXCEPT !.disabled = TRUE, !.idle = TRUE]
      [] patch = "enable"  -> [r EXCEPT !.disabled = FALSE, !.idle = FALSE]
      [] patch = "disable" -> [r EXCEPT !.disabled = TRUE]
      [] patch = "touch"   -> r
      [] OTHER             -> [r EXCEPT !.life = patch]

Points == {"idle", "armed", "zadd", "open", "look", "check", "read", "write",
           "reread", "drop", "emit", "install", "remove"}

\* Where a process is: pol is the policy it was called with, next the one a
\* reenforce enforces afterwards, snap what updatePolicyAsync has read, patch
\* what it will change and then what follows it, job the event to emit.
Frame == [pc : Points, pid : Pids \cup {None}, pol : Policy \cup {None},
          next : Policy \cup {None}, snap : Policy \cup {None},
          patch : Patches \cup {None}, then : Points, job : {"enforce", "unenforce", "reenforce", None}]

Idle == [pc |-> "idle", pid |-> None, pol |-> None, next |-> None, snap |-> None,
         patch |-> None, then |-> "idle", job |-> None]

Job == [action : {"enforce", "unenforce", "reenforce"}, pid : Pids,
        policy : Policy, oldPolicy : Policy \cup {None}]

Init ==
    /\ record = [p \in Pids |-> None]
    /\ active = {}
    /\ queue = <<>>
    /\ fireMain = "running"
    /\ current = None
    /\ proc = [x \in Procs |-> Idle]
    /\ enabledTimers = [p \in Pids |-> None]
    /\ kernel = [p \in Pids |-> FALSE]
    /\ ever = {}
    /\ touched = {}
    /\ ops = 0 /\ crashes = 0 /\ timeouts = 0

Goto(x, f) == proc' = [proc EXCEPT ![x] = f]

\* updatePolicyAsync({pid, ...patch}), then the code at point then.
Update(f, patch, then) == [f EXCEPT !.pc = "read", !.patch = patch, !.then = then,
                                    !.snap = None]

\* Nothing is under way for policy p (a timeout that waits is not).
QuietFor(p) ==
    /\ fireMain = "running"
    /\ \A i \in DOMAIN queue : queue[i].pid # p
    /\ \A x \in Procs : proc[x].pid = p => proc[x].pc = "armed"

-----------------------------------------------------------------------------
(* Events and the queue *)

\* tryPolicyEnforcement: nobody hears an event while FireMain is down.
Emitted(job) == IF fireMain = "down" THEN queue ELSE Append(queue, job)

JobOf(action, p, policy, oldPolicy) ==
    [action |-> action, pid |-> p, policy |-> policy, oldPolicy |-> oldPolicy]

\* Timeout t, if it has not fired, is cleared.
ClearTimeout(pr, t) ==
    [x \in Procs |-> IF x = t /\ pr[x].pc = "armed" THEN Idle ELSE pr[x]]

\* Variant: the new timeout is stored first, so the old one is never cleared.
Invalidated_afterStore(pr, p) == pr

\* invalidateExpireTimer(policy), in a state where the processes are at pr.
Invalidated(pr, p) == ClearTimeout(pr, enabledTimers[p])

\* A new timeout for policy p; the one recorded before is cleared.  Its identity
\* is one that nothing refers to any more.
Arm(pr, p, pol) ==
    \E t \in Timers :
        /\ pr[t].pc = "idle"
        /\ \A q \in Pids : enabledTimers[q] # t
        /\ proc' = [Invalidated(pr, p) EXCEPT
                       ![t] = [Idle EXCEPT !.pc = "armed", !.pid = p, !.pol = pol]]
        /\ enabledTimers' = [enabledTimers EXCEPT ![p] = t]

\* enforce(pol) up to its first access to redis.  Whether an expiry is less
\* than a minute away depends on the clock: the code then waits for it instead
\* of arming a timeout.
Enforce(h, p, pol) ==
    LET f == [Idle EXCEPT !.pid = p, !.pol = pol]
        pr == [proc EXCEPT ![h] = Idle]
    IN
    \/ /\ pol.disabled /\ ~pol.idle
       /\ Goto(h, Idle) /\ UNCHANGED enabledTimers
    \/ /\ pol.disabled /\ pol.idle
       /\ \/ /\ Goto(h, [Update(f, "enable", "emit") EXCEPT !.job = "enforce"])
             /\ UNCHANGED enabledTimers
          \/ Arm(pr, p, pol)
    \/ /\ ~pol.disabled /\ pol.life # "plain"
       /\ Goto(h, Update(f, "disable", IF pol.life = "autodelete" THEN "drop" ELSE "idle"))
       /\ UNCHANGED enabledTimers
    \/ /\ ~pol.disabled
       /\ Goto(h, Update(f, "touch", "install")) /\ UNCHANGED enabledTimers

\* unenforce(pol) up to its first access to redis.
Unenforce(x, p, pol, next) ==
    /\ proc' = [Invalidated(proc, p) EXCEPT
                   ![x] = [Idle EXCEPT !.pc = "check", !.pid = p, !.pol = pol, !.next = next]]
    /\ enabledTimers' = [enabledTimers EXCEPT ![p] = None]

\* The queue hands its first job to the handler.
TakeJob(h) ==
    /\ fireMain # "down"
    /\ current = None /\ queue # <<>>
    /\ proc[h].pc = "idle"
    /\ current' = h
    /\ queue' = Tail(queue)
    /\ LET job == Head(queue) IN
         \/ job.action = "enforce" /\ Enforce(h, job.pid, job.policy)
         \/ job.action = "unenforce" /\ Unenforce(h, job.pid, job.policy, None)
         \/ job.action = "reenforce" /\ Unenforce(h, job.pid, job.oldPolicy, job.policy)
    /\ UNCHANGED <<redis, fireMain, kernel, ever, touched, bounds>>

\* The handler has returned: the queue goes on.
JobDone(h) ==
    /\ current = h /\ proc[h].pc = "idle"
    /\ current' = None
    /\ UNCHANGED <<redis, queue, fireMain, proc, enabledTimers, kernel, ever,
                   touched, bounds>>

\* The 60 s of a job are over: the queue goes on and its handler does too.
JobTimeout(h) ==
    /\ current = h /\ proc[h].pc # "idle"
    /\ timeouts < MaxTimeouts
    /\ timeouts' = timeouts + 1
    /\ current' = None
    /\ UNCHANGED <<redis, queue, fireMain, proc, enabledTimers, kernel, ever,
                   touched, ops, crashes>>

-----------------------------------------------------------------------------
(* The steps of a process, each up to its next access to redis or the kernel *)

\* An error ends the code of process x, except that a reenforce goes on to
\* enforce when its unenforce fails.
Thrown(x) ==
    LET f == proc[x] IN
    IF x \in Handlers /\ f.then = "remove" /\ f.next # None
    THEN Enforce(x, f.pid, f.next)
    ELSE Goto(x, Idle) /\ UNCHANGED enabledTimers

\* updatePolicyAsync reads the record.
Read(x) ==
    LET f == proc[x] IN
    /\ f.pc = "read"
    /\ \/ record[f.pid] = None /\ Thrown(x)
       \/ /\ record[f.pid] # None
          /\ Goto(x, [f EXCEPT !.pc = "write", !.snap = record[f.pid]])
          /\ UNCHANGED enabledTimers
    /\ UNCHANGED <<redis, queue, fireMain, current, kernel, ever, touched, bounds>>

\* The record updatePolicyAsync writes: the whole of what it has read, changed.
Written(f) == Patched(f.snap, f.patch)

\* ... and writes it back, whatever the record has become.
Write(x) ==
    LET f == proc[x] IN
    /\ f.pc = "write"
    /\ record' = [record EXCEPT ![f.pid] = Written(f)]
    /\ Goto(x, IF f.then = "idle" THEN Idle
               ELSE [f EXCEPT !.pc = f.then, !.snap = None,
                              !.pol = IF f.then = "reread" THEN @ ELSE Patched(@, f.patch)])
    /\ UNCHANGED <<active, queue, fireMain, current, enabledTimers, kernel, ever,
                   touched, bounds>>

\* Variant: unenforce gives up when the policy is deleted.
Check_stop(x) ==
    LET f == proc[x] IN
    /\ f.pc = "check"
    /\ Goto(x, IF record[f.pid] = None THEN Idle ELSE Update(f, "touch", "remove"))
    /\ UNCHANGED <<redis, queue, fireMain, current, enabledTimers, kernel, ever,
                   touched, bounds>>

\* _removeActivatedTime looks whether the record is still there.
Check(x) ==
    LET f == proc[x] IN
    /\ f.pc = "check"
    /\ Goto(x, IF record[f.pid] = None THEN [f EXCEPT !.pc = "remove"]
               ELSE Update(f, "touch", "remove"))
    /\ UNCHANGED <<redis, queue, fireMain, current, enabledTimers, kernel, ever,
                   touched, bounds>>

\* _unenforce takes the rules out of the kernel; a reenforce goes on with
\* enforce, the callback of an expiry with _disablePolicy and deletePolicy.
RemoveRules(x) ==
    LET f == proc[x] IN
    /\ f.pc = "remove"
    /\ kernel' = [kernel EXCEPT ![f.pid] = FALSE]
    /\ \/ x \in Handlers /\ f.next # None /\ Enforce(x, f.pid, f.next)
       \/ x \in Handlers /\ f.next = None /\ Goto(x, Idle) /\ UNCHANGED enabledTimers
       \/ /\ x \in Timers
          /\ Goto(x, Update(f, "disable", IF f.pol.life = "autodelete" THEN "drop" ELSE "idle"))
          /\ UNCHANGED enabledTimers
    /\ UNCHANGED <<redis, queue, fireMain, current, ever, touched, bounds>>

\* _enforce installs the rules; enforce then arms the timeout of an expiry.
InstallRules(x) ==
    LET f == proc[x] IN
    /\ f.pc = "install"
    /\ kernel' = [kernel EXCEPT ![f.pid] = TRUE]
    /\ IF f.pol.life = "plain" THEN Goto(x, Idle) /\ UNCHANGED enabledTimers
       ELSE Arm([proc EXCEPT ![x] = Idle], f.pid, f.pol)
    /\ UNCHANGED <<redis, queue, fireMain, current, ever, touched, bounds>>

\* Variant: the policy is left in the list.
Dropped_kept(p) == active

\* deletePolicy: one transaction.  disableAndDeletePolicy then emits.
Dropped(p) == active \ {p}

Drop(x) ==
    LET f == proc[x] IN
    /\ f.pc = "drop"
    /\ record' = [record EXCEPT ![f.pid] = None]
    /\ active' = Dropped(f.pid)
    /\ Goto(x, IF x \in Clients THEN [f EXCEPT !.pc = "emit"] ELSE Idle)
    /\ UNCHANGED <<queue, fireMain, current, enabledTimers, kernel, ever, touched, bounds>>

\* tryPolicyEnforcement(policy, action).
Emit(x) ==
    LET f == proc[x] IN
    /\ f.pc = "emit"
    /\ queue' = Emitted(JobOf(f.job, f.pid, f.pol, None))
    /\ Goto(x, Idle)
    /\ UNCHANGED <<redis, fireMain, current, enabledTimers, kernel, ever, touched, bounds>>

-----------------------------------------------------------------------------
(* Timeouts *)

\* The timeout of policy p fires: of an expiry, or of the end of a pause.
TimerFires(t) ==
    LET f == proc[t] IN
    /\ f.pc = "armed"
    /\ Goto(t, IF f.pol.disabled THEN [Update(f, "enable", "emit") EXCEPT !.job = "enforce"]
               ELSE [f EXCEPT !.pc = "look"])
    /\ touched' = touched \cup {f.pid}
    /\ UNCHANGED <<redis, queue, fireMain, current, enabledTimers, kernel, ever, bounds>>

\* The callback of an expiry: is the policy still there and enabled?
Look(t) ==
    LET f == proc[t]
        policy == record[f.pid]
    IN
    /\ f.pc = "look"
    /\ IF policy = None \/ policy.disabled
       THEN Goto(t, Idle) /\ UNCHANGED enabledTimers
       ELSE Unenforce(t, f.pid, policy, None)
    /\ UNCHANGED <<redis, queue, fireMain, current, kernel, ever, touched, bounds>>

-----------------------------------------------------------------------------
(* Clients *)

\* May a client begin an operation on policy p?
Begins(x, p) ==
    /\ proc[x].pc = "idle"
    /\ ops < MaxOps
    /\ Patient => QuietFor(p)

Counted(p) == ops' = ops + 1 /\ touched' = touched \cup {p}

\* savePolicy, up to the hmset of the new policy's record.
Create(x, p, life) ==
    LET policy == [disabled |-> FALSE, idle |-> FALSE, life |-> life] IN
    /\ Begins(x, p) /\ p \notin ever
    /\ record' = [record EXCEPT ![p] = policy]
    /\ ever' = ever \cup {p}
    /\ Goto(x, [Idle EXCEPT !.pc = "zadd", !.pid = p, !.pol = policy, !.job = "enforce"])
    /\ Counted(p)
    /\ UNCHANGED <<active, queue, fireMain, current, enabledTimers, kernel, crashes, timeouts>>

\* addToActiveQueue
AddToActive(x) ==
    LET f == proc[x] IN
    /\ f.pc = "zadd"
    /\ active' = active \cup {f.pid}
    /\ Goto(x, [f EXCEPT !.pc = "emit"])
    /\ UNCHANGED <<record, queue, fireMain, current, enabledTimers, kernel, ever,
                   touched, bounds>>

\* A message about a policy the app knows: enable, disable, update or delete.
Message(x, p) ==
    LET open == [Idle EXCEPT !.pc = "open", !.pid = p] IN
    /\ Begins(x, p) /\ p \in ever
    /\ \A y \in Clients : proc[y].pid = p => proc[y].pc # "zadd"
    /\ \/ Goto(x, [open EXCEPT !.patch = "enable", !.then = "emit", !.job = "enforce"])
       \/ Goto(x, [open EXCEPT !.patch = "disable", !.then = "emit", !.job = "unenforce"])
       \/ Goto(x, [open EXCEPT !.then = "drop", !.job = "unenforce"])
       \/ \E edit \in Lives \cup (IF Pausing THEN {"pause"} ELSE {}) :
             Goto(x, [open EXCEPT !.patch = edit, !.then = "reread", !.job = "reenforce"])
    /\ Counted(p)
    /\ UNCHANGED <<redis, queue, fireMain, current, enabledTimers, kernel, ever,
                   crashes, timeouts>>

\* The handler of the message first loads the policy.
Open(x) ==
    LET f == proc[x]
        policy == record[f.pid]
    IN
    /\ f.pc = "open"
    /\ Goto(x, IF \/ policy = None
                  \/ f.patch = "enable" /\ ~policy.disabled
                  \/ f.patch = "disable" /\ policy.disabled
               THEN Idle
               ELSE [f EXCEPT !.pc = IF f.then = "drop" THEN "drop" ELSE "read",
                              !.pol = policy])
    /\ UNCHANGED <<redis, queue, fireMain, current, enabledTimers, kernel, ever,
                   touched, bounds>>

\* Variant: the policy loaded again is not checked.
Reread_unchecked(x) ==
    LET f == proc[x] IN
    /\ f.pc = "reread"
    /\ queue' = Emitted(JobOf("reenforce", f.pid, record[f.pid], f.pol))
    /\ Goto(x, Idle)
    /\ UNCHANGED <<redis, fireMain, current, enabledTimers, kernel, ever, touched, bounds>>

\* policy:update loads the policy again and emits old and new.
Reread(x) ==
    LET f == proc[x]
        policy == record[f.pid]
    IN
    /\ f.pc = "reread"
    /\ queue' = IF policy = None THEN queue
                ELSE Emitted(JobOf("reenforce", f.pid, policy, f.pol))
    /\ Goto(x, Idle)
    /\ UNCHANGED <<redis, fireMain, current, enabledTimers, kernel, ever, touched, bounds>>

-----------------------------------------------------------------------------
(* FireMain stops and boots *)

\* What it had in memory is gone: handlers, timeouts and the queue's consumer.
Crash ==
    /\ fireMain # "down"
    /\ crashes < MaxCrashes
    /\ crashes' = crashes + 1
    /\ fireMain' = "down"
    /\ current' = None
    /\ proc' = [x \in Procs |-> IF x \in Clients THEN proc[x] ELSE Idle]
    /\ enabledTimers' = [p \in Pids |-> None]
    /\ UNCHANGED <<redis, queue, kernel, ever, touched, ops, timeouts>>

\* Variant: the rules of the previous life stay.
Flushed_not == kernel

\* The boot flushes the kernel's rules and the queue, then listens.
Flushed == [p \in Pids |-> FALSE]

Boot ==
    /\ fireMain = "down"
    /\ fireMain' = "listening"
    /\ kernel' = Flushed
    /\ queue' = <<>>
    /\ touched' = {proc[x].pid : x \in Clients} \ {None}
    /\ UNCHANGED <<redis, current, proc, enabledTimers, ever, bounds>>

\* Variant: paused ones are not loaded.
ToEnforce_enabled == {p \in active : record[p] # None /\ ~record[p].disabled}

\* loadActivePolicies: enabled ones, and the ones that are paused.
ToEnforce == {p \in active : /\ record[p] # None
                             /\ record[p].disabled => record[p].idle}

\* enforceAllPolicies
BootLoad ==
    /\ fireMain = "listening"
    /\ fireMain' = "running"
    /\ \E order \in [1 .. Cardinality(ToEnforce) -> ToEnforce] :
          /\ \A i, j \in DOMAIN order : order[i] = order[j] => i = j
          /\ queue' = queue \o [i \in DOMAIN order |->
                                  JobOf("enforce", order[i], record[order[i]], None)]
    /\ UNCHANGED <<redis, current, proc, enabledTimers, kernel, ever, touched, bounds>>

-----------------------------------------------------------------------------
ClientStep(x) == Open(x) \/ Reread(x) \/ AddToActive(x)

ProcStep(x) == \/ Read(x) \/ Write(x) \/ Check(x) \/ RemoveRules(x) \/ InstallRules(x)
               \/ Drop(x) \/ Emit(x)

Work ==
    \/ \E x \in Procs : ProcStep(x)
    \/ \E x \in Clients : ClientStep(x)
    \/ \E h \in Handlers : TakeJob(h) \/ JobDone(h)
    \/ \E t \in Timers : Look(t)
    \/ Boot \/ BootLoad

Next ==
    \/ Work
    \/ \E x \in Clients, p \in Pids : Message(x, p) \/ \E l \in Lives : Create(x, p, l)
    \/ \E t \in Timers : TimerFires(t)
    \/ \E h \in Handlers : JobTimeout(h)
    \/ Crash

Spec == Init /\ [][Next]_vars

\* Code that has begun goes on, the queue is consumed and FireMain is restarted.
\* Nothing makes the app, a timeout or a crash happen.
Fairness ==
    /\ \A x \in Procs : WF_vars(ProcStep(x))
    /\ \A x \in Clients : WF_vars(ClientStep(x))
    /\ \A h \in Handlers : WF_vars(TakeJob(h) \/ JobDone(h))
    /\ \A t \in Timers : WF_vars(Look(t))
    /\ WF_vars(Boot) /\ WF_vars(BootLoad)

FairSpec == Spec /\ Fairness

-----------------------------------------------------------------------------
(* Properties *)

TypeOK ==
    /\ record \in [Pids -> Policy \cup {None}]
    /\ active \subseteq Pids
    /\ queue \in Seq(Job)
    /\ fireMain \in {"down", "listening", "running"}
    /\ current \in Handlers \cup {None}
    /\ proc \in [Procs -> Frame]
    /\ enabledTimers \in [Pids -> Timers \cup {None}]
    /\ kernel \in [Pids -> BOOLEAN]
    /\ active \subseteq ever /\ touched \subseteq ever
    /\ ever \subseteq Pids
    /\ ops \in 0 .. MaxOps /\ crashes \in 0 .. MaxCrashes /\ timeouts \in 0 .. MaxTimeouts

\* Every policy of the active list has a record to load: whatever processes do
\* at the same time, no policy is listed and lost (policy_active and policy:<pid>
\* are written apart when a policy is created).
ActiveHasRecord == \A p \in active : record[p] # None

\* A timeout that is armed is the one enabledTimers has for its policy, so that
\* unenforce can always clear it; no policy has two.
NoOrphanTimer ==
    \A t \in Timers : proc[t].pc = "armed" => enabledTimers[proc[t].pid] = t

\* When FireMain has restarted and has caught up, a policy nobody has changed
\* since is installed exactly when it is listed and enabled, and its pause still
\* has an end, whatever the crash interrupted.
RestartHeals ==
    crashes > 0 => \A p \in Pids \ touched : QuietFor(p) =>
        /\ kernel[p] <=> p \in active /\ ~record[p].disabled
        /\ p \in active /\ record[p].disabled /\ record[p].idle =>
              \E t \in Timers : proc[t].pc = "armed" /\ proc[t].pid = p

\* When nothing is under way for a policy, its rules are in the kernel exactly
\* when it is listed and enabled (for clients that let FireMain catch up, and as
\* long as FireMain does not crash).
Settled ==
    crashes = 0 => \A p \in Pids : QuietFor(p) => (kernel[p] <=> p \in active /\ ~record[p].disabled)

\* The rules of a policy that is disabled or deleted do not stay in the kernel,
\* even if FireMain crashes and misses the event.
Gone(p) == record[p] = None \/ record[p].disabled
GoneIsRevoked == \A p \in Pids : Gone(p) /\ kernel[p] ~> ~Gone(p) \/ ~kernel[p]

\* "flag to indicate that this policy is revoked successfully" (_disablePolicy):
\* when nothing is under way for a policy that is disabled, its rules are gone.
DisabledMeansRevoked ==
    \A p \in active : QuietFor(p) /\ record[p].disabled => ~kernel[p]
=============================================================================

----------------------------- MODULE DisableAll ------------------------------
(***************************************************************************)
(* The pause of all policies ("disable all") of alarm/PolicyManager2.js.   *)
(* The app turns the flag on, for some minutes or without an end, or off;  *)
(* FireMain takes all rules out of the kernel, and puts them back when the *)
(* flag is turned off or its timeout fires.  The jobs of the policy queue, *)
(* policies that are enabled or disabled meanwhile and restarts of         *)
(* FireMain interleave with that.                                          *)
(*                                                                         *)
(* A step is the code between two awaits; the fields of the flag are read  *)
(* in one step where nothing happens between them, and the policies of an  *)
(* enforceAll are loaded and queued in one.  The clock counts minutes.     *)
(***************************************************************************)
EXTENDS Naturals, Sequences, FiniteSets

CONSTANTS Rules,     \* the policies
          Inbound,   \* those of direction inbound
          Tasks,     \* calls of checkRunPolicies and (un)enforceAll under way
          Timers,    \* identities of timeouts
          None,
          Expiries,  \* lengths of a pause in minutes, 0 for one without an end
          MaxNow, MaxOps, MaxCrashes \* bounds

ASSUME PauseAssumption ==
    /\ IsFiniteSet(Rules) /\ Expiries \subseteq Nat
    /\ MaxNow \in Nat /\ MaxOps \in Nat /\ MaxCrashes \in Nat
    /\ None \notin Tasks \cup Timers \cup (0 .. MaxNow)

VARIABLES flag,      \* redis policy:disableAll: flag, startTime, expire
          enabled,   \* rule -> the record's disabled is not 1
          app,       \* rule -> an operation of the app on it under way
          events,    \* PolicySetDisableAll events that FireMain has not received
          up,        \* is FireMain running
          task,      \* task -> where its code is
          armed,     \* timeout -> when it fires
          disableAllTimer,
          queue,     \* the policy queue
          worker,    \* the job that the handler of the queue is at
          kernel,    \* rule -> is it installed
          now,
          disturbed, \* has something happened before earlier work was done (history)
          ops, crashes

redis == <<flag, enabled>>
timers == <<armed, disableAllTimer>>
history == <<disturbed, ops, crashes>>
vars == <<flag, enabled, app, events, up, task, armed, disableAllTimer, queue, worker,
          kernel, now, disturbed, ops, crashes>>

Flag == [on : BOOLEAN, start : 0 .. MaxNow, expire : Expiries \cup {0}]

\* A task is at pc; a check may be the one of the boot; (un)enforceAll has an action
\* and may turn the flag off when its jobs are done.
Task == [pc : {"idle", "flag", "times", "load", "wait", "off"}, boot : BOOLEAN,
         action : {"enforce", "unenforce"}, thenOff : BOOLEAN]

Idle == [pc |-> "idle", boot |-> FALSE, action |-> "enforce", thenOff |-> FALSE]
Check(boot) == [Idle EXCEPT !.pc = "flag", !.boot = boot]
All(action, thenOff) == [Idle EXCEPT !.pc = "load", !.action = action, !.thenOff = thenOff]

\* by: the task that waits for the job.
Job == [action : {"enforce", "unenforce"}, rule : Rules, by : Tasks \cup {None}]
NoJob == [pc |-> "idle"]
Worker == {NoJob} \cup [pc : {"check", "apply"}, job : Job]

Init ==
    /\ flag = [on |-> FALSE, start |-> 0, expire |-> 0]
    /\ enabled \in [Rules -> BOOLEAN]
    /\ app = [r \in Rules |-> "idle"]
    /\ events = 0
    /\ up = TRUE
    /\ task = [k \in Tasks |-> Idle]
    /\ armed = [t \in Timers |-> None]
    /\ disableAllTimer = None
    /\ queue = <<>>
    /\ worker = NoJob
    /\ kernel = enabled
    /\ now = 0
    /\ disturbed = FALSE
    /\ ops = 0 /\ crashes = 0

\* Variant: the pause does not end by itself.
Paused_always == flag.on

\* isDisableAll (the timeout of the pause fires when this has become false).
Paused == flag.on /\ (flag.expire > 0 => flag.start + flag.expire > now)

Due(t) == armed[t] # None /\ armed[t] <= now

\* Nothing is under way.
Quiet ==
    /\ up /\ events = 0 /\ queue = <<>> /\ worker = NoJob
    /\ \A r \in Rules : app[r] = "idle"
    /\ \A k \in Tasks : task[k] = Idle
    /\ \A t \in Timers : ~Due(t)

Free(k) == task[k] = Idle

-----------------------------------------------------------------------------
(* FireApi *)

Op == /\ ops < MaxOps
      /\ ops' = ops + 1
      /\ disturbed' = (disturbed \/ ~Quiet)
      /\ UNCHANGED crashes

\* setDisableAll; nobody hears the event while FireMain is down.
SetDisableAll(on, expire) ==
    /\ Op /\ now + expire <= MaxNow
    /\ flag' = [on |-> on, start |-> now, expire |-> expire]
    /\ events' = IF up THEN events + 1 ELSE events
    /\ UNCHANGED <<enabled, app, up, task, timers, queue, worker, kernel, now>>

\* _enablePolicy and _disablePolicy write the record ...
Toggle(r) ==
    /\ Op /\ app[r] = "idle"
    /\ enabled' = [enabled EXCEPT ![r] = ~@]
    /\ app' = [app EXCEPT ![r] = IF enabled[r] THEN "disable" ELSE "enable"]
    /\ UNCHANGED <<flag, events, up, task, timers, queue, worker, kernel, now>>

\* ... then enablePolicy looks at the flag, and the event is emitted.
Announce(r) ==
    LET action == IF app[r] = "enable" THEN "enforce" ELSE "unenforce" IN
    /\ app[r] # "idle"
    /\ app' = [app EXCEPT ![r] = "idle"]
    /\ queue' = IF ~up \/ (app[r] = "enable" /\ Paused) THEN queue
                ELSE Append(queue, [action |-> action, rule |-> r, by |-> None])
    /\ UNCHANGED <<redis, events, up, task, timers, worker, kernel, now, history>>

-----------------------------------------------------------------------------
(* FireMain: checkRunPolicies *)

\* Variant: a check without an event.
Receive_unasked(k) ==
    /\ up /\ Free(k)
    /\ events' = events - 1
    /\ task' = [task EXCEPT ![k] = Check(FALSE)]
    /\ UNCHANGED <<redis, app, up, timers, queue, worker, kernel, now, history>>

\* The listener does not wait for the check of the event before.
Receive(k) ==
    /\ up /\ events > 0 /\ Free(k)
    /\ events' = events - 1
    /\ task' = [task EXCEPT ![k] = Check(FALSE)]
    /\ UNCHANGED <<redis, app, up, timers, queue, worker, kernel, now, history>>

\* unenforceAll is not awaited: it becomes a task of its own.  The boot does
\* without it.
Removals(k) ==
    IF task[k].boot THEN {task}
    ELSE {[task EXCEPT ![u] = All("unenforce", FALSE)] : u \in {u \in Tasks : Free(u)}}

\* The flag is read and the timeout, if there is one, is cleared.
ReadFlag(k) ==
    /\ task[k].pc = "flag"
    /\ armed' = [t \in Timers |-> IF t = disableAllTimer THEN None ELSE armed[t]]
    /\ IF flag.on
       THEN \E tasks \in Removals(k) : task' = [tasks EXCEPT ![k] = [@ EXCEPT !.pc = "times"]]
       ELSE task' = [task EXCEPT ![k] = All("enforce", FALSE)]
    /\ UNCHANGED <<redis, app, events, up, disableAllTimer, queue, worker, kernel, now, history>>

\* startTime and expire are read, after unenforceAll has loaded its policies (redis
\* answers in the order it was asked): a pause without an end needs no timeout, and
\* one that ends within a minute ends at once.
ReadTimes(k) ==
    LET end == flag.start + flag.expire IN
    /\ task[k].pc = "times"
    /\ \A u \in Tasks : task[u].pc = "load" => task[u].action # "unenforce"
    /\ \/ /\ flag.expire = 0
          /\ task' = [task EXCEPT ![k] = Idle]
          /\ UNCHANGED timers
       \/ /\ flag.expire > 0 /\ end > now + 1
          /\ \E t \in Timers :
                /\ armed[t] = None
                /\ armed' = [armed EXCEPT ![t] = end]
                /\ disableAllTimer' = t
          /\ task' = [task EXCEPT ![k] = Idle]
       \/ /\ flag.expire > 0 /\ end <= now + 1
          /\ task' = [task EXCEPT ![k] = All("enforce", TRUE)]
          /\ UNCHANGED timers
    /\ UNCHANGED <<redis, app, events, up, queue, worker, kernel, now, history>>

TimerFires(t, k) ==
    /\ Due(t) /\ Free(k)
    /\ armed' = [armed EXCEPT ![t] = None]
    /\ task' = [task EXCEPT ![k] = All("enforce", TRUE)]
    /\ UNCHANGED <<redis, app, events, up, disableAllTimer, queue, worker, kernel, now, history>>

\* enforceAllPolicies and unenforceAllPolicies: a job for each rule.
Load(k) ==
    LET f == task[k]
        rules == {r \in Rules : enabled[r] /\ (f.action = "unenforce" => r \notin Inbound)}
        by == IF f.thenOff THEN k ELSE None
    IN
    /\ f.pc = "load"
    /\ \E order \in [1 .. Cardinality(rules) -> rules] :
          /\ \A i, j \in DOMAIN order : order[i] = order[j] => i = j
          /\ queue' = queue \o [i \in DOMAIN order |->
                                  [action |-> f.action, rule |-> order[i], by |-> by]]
    /\ task' = [task EXCEPT ![k] = IF f.thenOff THEN [@ EXCEPT !.pc = "wait"] ELSE Idle]
    /\ UNCHANGED <<redis, app, events, up, timers, worker, kernel, now, history>>

\* All jobs of the task have been done.
Waited(k) ==
    /\ task[k].pc = "wait"
    /\ worker # NoJob => worker.job.by # k
    /\ \A i \in DOMAIN queue : queue[i].by # k
    /\ task' = [task EXCEPT ![k].pc = "off"]
    /\ UNCHANGED <<redis, app, events, up, timers, queue, worker, kernel, now, history>>

SetOff(k) ==
    /\ task[k].pc = "off"
    /\ flag' = [flag EXCEPT !.on = FALSE]
    /\ task' = [task EXCEPT ![k] = Idle]
    /\ UNCHANGED <<enabled, app, events, up, timers, queue, worker, kernel, now, history>>

-----------------------------------------------------------------------------
(* FireMain: the policy queue *)

TakeJob ==
    /\ up /\ queue # <<>> /\ worker = NoJob
    /\ worker' = [pc |-> IF Head(queue).action = "enforce" THEN "check" ELSE "apply",
                  job |-> Head(queue)]
    /\ queue' = Tail(queue)
    /\ UNCHANGED <<redis, app, events, up, task, timers, kernel, now, history>>

\* Variant: enforce does not look at the flag.
EnforceChecks_not ==
    /\ worker.pc = "check"
    /\ worker' = [worker EXCEPT !.pc = "apply"]
    /\ UNCHANGED <<redis, app, events, up, task, timers, queue, kernel, now, history>>

\* enforce: nothing is done while all policies are paused.
EnforceChecks ==
    /\ worker.pc = "check"
    /\ worker' = IF Paused THEN NoJob ELSE [worker EXCEPT !.pc = "apply"]
    /\ UNCHANGED <<redis, app, events, up, task, timers, queue, kernel, now, history>>

\* _enforce, _unenforce
Apply ==
    /\ worker.pc = "apply"
    /\ kernel' = [kernel EXCEPT ![worker.job.rule] = (worker.job.action = "enforce")]
    /\ worker' = NoJob
    /\ UNCHANGED <<redis, app, events, up, task, timers, queue, now, history>>

-----------------------------------------------------------------------------
(* The clock and restarts *)

Tick ==
    /\ now < MaxNow
    /\ now' = now + 1
    /\ disturbed' = (disturbed \/ ~Quiet)
    /\ UNCHANGED <<redis, app, events, up, task, timers, queue, worker, kernel, ops, crashes>>

Crash ==
    /\ up /\ crashes < MaxCrashes
    /\ crashes' = crashes + 1
    /\ up' = FALSE
    /\ disturbed' = (disturbed \/ flag.on)
    /\ events' = 0
    /\ task' = [k \in Tasks |-> Idle]
    /\ armed' = [t \in Timers |-> None] /\ disableAllTimer' = None
    /\ worker' = NoJob
    /\ UNCHANGED <<redis, app, queue, kernel, now, ops>>

\* Variant: the boot does not look at the flag again.
BootTask_none == Idle

BootTask == Check(TRUE)

\* The boot flushes the kernel and the queue and calls checkRunPolicies(true).
Boot(k) ==
    /\ ~up
    /\ up' = TRUE
    /\ queue' = <<>>
    /\ kernel' = [r \in Rules |-> FALSE]
    /\ task' = [task EXCEPT ![k] = BootTask]
    /\ UNCHANGED <<redis, app, events, timers, worker, now, history>>

-----------------------------------------------------------------------------
TaskStep(k) ==
    \/ ReadFlag(k) \/ ReadTimes(k) \/ Load(k) \/ Waited(k) \/ SetOff(k)

WorkerStep == TakeJob \/ EnforceChecks \/ Apply

Next ==
    \/ \E on \in BOOLEAN, expire \in Expiries : SetDisableAll(on, IF on THEN expire ELSE 0)
    \/ \E r \in Rules : Toggle(r) \/ Announce(r)
    \/ \E k \in Tasks : Receive(k) \/ TaskStep(k) \/ Boot(k) \/ \E t \in Timers : TimerFires(t, k)
    \/ WorkerStep
    \/ Tick \/ Crash

Spec == Init /\ [][Next]_vars

-----------------------------------------------------------------------------
(* Properties *)

TypeOK ==
    /\ flag \in Flag
    /\ enabled \in [Rules -> BOOLEAN] /\ kernel \in [Rules -> BOOLEAN]
    /\ app \in [Rules -> {"idle", "enable", "disable"}]
    /\ events \in 0 .. MaxOps
    /\ up \in BOOLEAN /\ disturbed \in BOOLEAN
    /\ task \in [Tasks -> Task]
    /\ armed \in [Timers -> 0 .. MaxNow \cup {None}]
    /\ disableAllTimer \in Timers \cup {None}
    /\ queue \in Seq(Job)
    /\ worker \in Worker
    /\ now \in 0 .. MaxNow /\ ops \in 0 .. MaxOps /\ crashes \in 0 .. MaxCrashes

\* When nothing is under way in a pause, no outbound rule is installed, however
\* operations of the app, checks, timeouts and restarts overlapped.
PausedMeansRemoved ==
    Quiet /\ Paused => \A r \in Rules \ Inbound : ~kernel[r]

\* "when disableAll flag expires, it will enforce all policy": when nothing is under
\* way outside a pause, the rules that are enabled are installed and no others (as
\* long as each operation finds the work of the one before done and no crash
\* interrupts a pause).
NotPausedMeansInstalled ==
    ~disturbed /\ Quiet /\ ~Paused => kernel = enabled

\* When nothing is under way in a pause with an end, a timeout will end it then,
\* although crashes lose the timeout, checks overlap and clear each other's.
PauseHasEnd ==
    Quiet /\ flag.on /\ flag.expire > 0 =>
        \E t \in Timers : armed[t] = flag.start + flag.expire
=============================================================================

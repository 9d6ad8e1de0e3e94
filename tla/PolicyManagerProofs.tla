------------------------ MODULE PolicyManagerProofs -------------------------
(***************************************************************************)
(* Theorems about PolicyManager, for any number of policies, clients,      *)
(* calls of the queue's handler, timeouts, crashes and job timeouts, and   *)
(* about DomainBlock, for any domain, addresses and lines of answers.      *)
(*                                                                         *)
(* A policy that is being created is written before it is listed.  The     *)
(* invariant behind ActiveHasRecord is that until then it belongs to the   *)
(* client that creates it: nobody else, no job and no list knows it.       *)
(*                                                                         *)
(* What the kernel holds follows from where the work for a policy has got: *)
(* after a restart every policy nobody has changed is in one of the phases *)
(* of Phase; without a crash, and for an app that waits, in one of Stage.  *)
(***************************************************************************)
EXTENDS MCQueues, FiniteSetTheorems, SequenceTheorems, TLAPS

Actions == {"enforce", "unenforce"}

\* The points at which a process needs the policy it was called with.
Holding == {"armed", "zadd", "check", "read", "write", "reread", "drop", "emit",
            "install", "remove"}

\* What the code of process x finds in its frame f at the point where it is.
Good(x, f) ==
    /\ f \in Frame
    /\ f.pc # "idle" => f.pid \in Pids
    /\ f.pc \in Holding => f.pol \in Policy
    /\ f.pc \in {"read", "write"} =>
          f.patch \in Patches /\ f.then \in {"idle", "emit", "drop", "reread", "install", "remove"}
    /\ f.pc = "write" => f.snap \in Policy
    /\ f.pc = "open" =>
          /\ f.then \in {"emit", "drop", "reread"}
          /\ f.then # "drop" => f.patch \in Patches
    /\ f.pc \in {"open", "read", "write"} /\ f.then = "emit" => f.job \in Actions
    /\ f.pc \in {"zadd", "emit"} => f.job \in Actions
    /\ x \in Clients /\ (f.pc = "drop" \/ (f.pc \in {"open", "read", "write"} /\ f.then = "drop")) =>
          f.job \in Actions
    /\ f.pc = "zadd" => x \in Clients

GoodProcs(pr) == /\ pr \in [Procs -> Frame]
                 /\ \A x \in Procs : Good(x, pr[x])

TimerTable == [Pids -> Timers \cup {None}]

\* A timeout that is armed is the one the table has.
Recorded(pr, timers) == \A t \in Timers : pr[t].pc = "armed" => timers[pr[t].pid] = t

\* The jobs of the queue are about policies that have been created.
KnownJob == {j \in Job : /\ j.pid \in ever
                         /\ j.action = "reenforce" => j.oldPolicy \in Policy}

\* From pr to qr processes have begun and ended work for policy p, and nothing else.
OnlyFor(p, pr, qr) ==
    \A x \in Procs : \/ qr[x] = pr[x]
                     \/ qr[x].pid \in {p, None} /\ qr[x].pc # "zadd"

\* A policy that is written and not listed yet is known to its client only.
NewIsPrivate ==
    \A x \in Procs : proc[x].pc = "zadd" =>
        /\ record[proc[x].pid] # None /\ proc[x].pid \notin active
        /\ \A y \in Procs \ {x} : proc[y].pid # proc[x].pid
        /\ \A i \in 1 .. Len(queue) : queue[i].pid # proc[x].pid

TypeInv ==
    /\ TypeOK
    /\ GoodProcs(proc)
    /\ queue \in Seq(KnownJob)
    /\ \A x \in Procs : proc[x].pid \in ever \cup {None}

IInv == TypeInv /\ NoOrphanTimer /\ ActiveHasRecord /\ NewIsPrivate

\* What the steps of a process for policy p keep.
Result(p) ==
    /\ GoodProcs(proc')
    /\ enabledTimers' \in TimerTable
    /\ Recorded(proc', enabledTimers')
    /\ OnlyFor(p, proc, proc')

-----------------------------------------------------------------------------
(* Frames *)

\* A process that has nothing to do.
LEMMA IdleIsGood ==
  /\ Idle \in Frame /\ Idle.pc = "idle" /\ Idle.pid = None
  /\ \A x \in Procs : Good(x, Idle)
  BY DEF Idle, Frame, Good, Points, Holding

\* Every change of a policy gives a policy.
LEMMA PatchedIsPolicy ==
  ASSUME NEW r \in Policy, NEW patch \in Patches
  PROVE  Patched(r, patch) \in Policy
<1>1. CASE patch \in {"pause", "enable", "disable", "touch"}
  BY <1>1 DEF Patched, Policy
<1>2. CASE patch \notin {"pause", "enable", "disable", "touch"}
  <2>1. patch \in Lives
    BY <1>2 DEF Patches
  <2>2. Patched(r, patch) = [r EXCEPT !.life = patch]
    BY <1>2 DEF Patched
  <2> QED
    BY <2>1, <2>2 DEF Policy
<1> QED
  BY <1>1, <1>2

\* updatePolicyAsync begins with the frame of a caller that holds a policy.
LEMMA UpdateIsGood ==
  ASSUME NEW x \in Procs, NEW f \in Frame, f.pid \in Pids, f.pol \in Policy,
         NEW patch \in Patches, NEW then \in {"idle", "drop", "reread", "install", "remove"},
         x \in Clients => then # "drop"
  PROVE  Good(x, Update(f, patch, then))
BY DEF Update, Good, Frame, Points, Holding, Actions

\* The same for a caller that emits an event afterwards.
LEMMA UpdateToEmitIsGood ==
  ASSUME NEW x \in Procs, NEW f \in Frame, f.pid \in Pids, f.pol \in Policy,
         NEW patch \in Patches, NEW job \in Actions
  PROVE  Good(x, [Update(f, patch, "emit") EXCEPT !.job = job])
BY DEF Update, Good, Frame, Points, Holding, Actions

\* Where updatePolicyAsync begins, and for which policy.
LEMMA UpdateGoes ==
  ASSUME NEW f \in Frame, NEW patch \in Patches,
         NEW then \in {"idle", "drop", "reread", "install", "remove"}
  PROVE  Update(f, patch, then).pc = "read" /\ Update(f, patch, then).pid = f.pid
BY DEF Update, Frame

\* The same for a caller that emits an event afterwards.
LEMMA UpdateToEmitGoes ==
  ASSUME NEW f \in Frame, NEW patch \in Patches, NEW job \in Actions
  PROVE  /\ [Update(f, patch, "emit") EXCEPT !.job = job].pc = "read"
         /\ [Update(f, patch, "emit") EXCEPT !.job = job].pid = f.pid
BY DEF Update, Frame

\* Process x goes to frame f, which arms nothing.
LEMMA GotoKeeps ==
  ASSUME GoodProcs(proc), Recorded(proc, enabledTimers), enabledTimers \in TimerTable,
         NEW x \in Procs, NEW f, Good(x, f), f.pc # "armed",
         Goto(x, f), UNCHANGED enabledTimers
  PROVE  /\ GoodProcs(proc') /\ enabledTimers' \in TimerTable
         /\ Recorded(proc', enabledTimers')
         /\ \A y \in Procs : proc'[y] = IF y = x THEN f ELSE proc[y]
<1>1. /\ proc' = [proc EXCEPT ![x] = f] /\ f \in Frame /\ proc \in [Procs -> Frame]
  BY DEF Goto, Good, GoodProcs
<1>2. \A y \in Procs : proc'[y] = IF y = x THEN f ELSE proc[y]
  BY <1>1
<1>3. GoodProcs(proc')
  BY <1>1, <1>2 DEF GoodProcs
<1>4. Recorded(proc', enabledTimers')
  BY <1>2 DEF Recorded, Procs
<1> QED
  BY <1>2, <1>3, <1>4

-----------------------------------------------------------------------------
(* Timeouts *)

\* Once the timeout recorded for p is cleared, no timeout that is armed is p's.
LEMMA InvalidatedKeeps ==
  ASSUME NEW pr, GoodProcs(pr), Recorded(pr, enabledTimers), NEW p \in Pids
  PROVE  /\ GoodProcs(Invalidated(pr, p))
         /\ OnlyFor(p, pr, Invalidated(pr, p))
         /\ \A t \in Timers : Invalidated(pr, p)[t].pc = "armed" =>
               /\ Invalidated(pr, p)[t] = pr[t]
               /\ pr[t].pid # p /\ enabledTimers[pr[t].pid] = t
<1> DEFINE qr == Invalidated(pr, p)
<1>1. qr = [x \in Procs |-> IF x = enabledTimers[p] /\ pr[x].pc = "armed" THEN Idle ELSE pr[x]]
  BY DEF Invalidated, ClearTimeout
<1>2. GoodProcs(qr)
  BY <1>1, IdleIsGood DEF GoodProcs
<1>3. OnlyFor(p, pr, qr)
  BY <1>1, IdleIsGood DEF OnlyFor
<1>4. ASSUME NEW t \in Timers, qr[t].pc = "armed"
      PROVE  qr[t] = pr[t] /\ pr[t].pid # p /\ enabledTimers[pr[t].pid] = t
  <2>1. t \in Procs
    BY DEF Procs
  <2>2. qr[t] = pr[t] /\ t # enabledTimers[p]
    BY <1>1, <1>4, <2>1, IdleIsGood
  <2> QED
    BY <1>4, <2>2 DEF Recorded
<1> QED
  BY <1>2, <1>3, <1>4

\* A new timeout replaces the one recorded, which is cleared.
LEMMA ArmKeeps ==
  ASSUME NEW pr, GoodProcs(pr), Recorded(pr, enabledTimers), enabledTimers \in TimerTable,
         NEW p \in Pids, NEW pol \in Policy, OnlyFor(p, proc, pr), Arm(pr, p, pol)
  PROVE  Result(p)
<1> DEFINE qr == Invalidated(pr, p)
           g == [Idle EXCEPT !.pc = "armed", !.pid = p, !.pol = pol]
<1>1. PICK t \in Timers : /\ proc' = [qr EXCEPT ![t] = g]
                          /\ enabledTimers' = [enabledTimers EXCEPT ![p] = t]
  BY DEF Arm
<1>2. /\ GoodProcs(qr) /\ OnlyFor(p, pr, qr)
      /\ \A u \in Timers : qr[u].pc = "armed" =>
            qr[u].pid # p /\ qr[u].pid \in Pids /\ enabledTimers[qr[u].pid] = u
  <2>1. \A u \in Timers : qr[u].pc = "armed" => qr[u].pid \in Pids
    BY InvalidatedKeeps DEF GoodProcs, Good, Procs
  <2> QED
    BY <2>1, InvalidatedKeeps
<1>3. t \in Procs /\ Good(t, g) /\ g.pc = "armed" /\ g.pid = p /\ g \in Frame
  BY DEF Idle, Good, Frame, Points, Holding, Procs
<1>4. \A y \in Procs : proc'[y] = IF y = t THEN g ELSE qr[y]
  BY <1>1, <1>2 DEF GoodProcs
<1>5. GoodProcs(proc')
  BY <1>1, <1>2, <1>3, <1>4 DEF GoodProcs
<1>6. enabledTimers' \in TimerTable
  BY <1>1 DEF TimerTable
<1>7. Recorded(proc', enabledTimers')
  BY <1>1, <1>2, <1>3, <1>4 DEF Recorded, Procs, TimerTable
<1>8. ASSUME NEW y \in Procs
      PROVE  \/ proc'[y] = proc[y]
             \/ proc'[y].pid \in {p, None} /\ proc'[y].pc # "zadd"
  <2>1. CASE y = t
    BY <1>3, <1>4, <2>1
  <2>2. CASE y # t
    BY <1>2, <1>4, <2>2 DEF OnlyFor
  <2> QED
    BY <2>1, <2>2
<1> QED
  BY <1>5, <1>6, <1>7, <1>8 DEF Result, OnlyFor

\* unenforce(pol) clears the timeout of its policy.
LEMMA UnenforceKeeps ==
  ASSUME GoodProcs(proc), Recorded(proc, enabledTimers), enabledTimers \in TimerTable,
         NEW x \in Procs, NEW p \in Pids, NEW pol \in Policy, NEW next \in Policy \cup {None},
         Unenforce(x, p, pol, next)
  PROVE  Result(p)
<1> DEFINE qr == Invalidated(proc, p)
           g == [Idle EXCEPT !.pc = "check", !.pid = p, !.pol = pol, !.next = next]
<1>1. /\ proc' = [qr EXCEPT ![x] = g]
      /\ enabledTimers' = [enabledTimers EXCEPT ![p] = None]
  BY DEF Unenforce
<1>2. /\ GoodProcs(qr) /\ OnlyFor(p, proc, qr)
      /\ \A u \in Timers : qr[u].pc = "armed" =>
            qr[u].pid # p /\ qr[u].pid \in Pids /\ enabledTimers[qr[u].pid] = u
  <2>1. \A u \in Timers : qr[u].pc = "armed" => qr[u].pid \in Pids
    BY InvalidatedKeeps DEF GoodProcs, Good, Procs
  <2> QED
    BY <2>1, InvalidatedKeeps
<1>3. Good(x, g) /\ g.pc = "check" /\ g.pid = p /\ g \in Frame
  BY DEF Idle, Good, Frame, Points, Holding
<1>4. \A y \in Procs : proc'[y] = IF y = x THEN g ELSE qr[y]
  BY <1>1, <1>2 DEF GoodProcs
<1>5. GoodProcs(proc')
  BY <1>1, <1>2, <1>3, <1>4 DEF GoodProcs
<1>6. enabledTimers' \in TimerTable
  BY <1>1 DEF TimerTable
<1>7. Recorded(proc', enabledTimers')
  BY <1>1, <1>2, <1>3, <1>4 DEF Recorded, Procs, TimerTable
<1>8. OnlyFor(p, proc, proc')
  BY <1>2, <1>3, <1>4 DEF OnlyFor
<1> QED
  BY <1>5, <1>6, <1>7, <1>8 DEF Result

\* enforce(pol) up to its first await, in a handler.
LEMMA EnforceKeeps ==
  ASSUME GoodProcs(proc), Recorded(proc, enabledTimers), enabledTimers \in TimerTable,
         NEW h \in Handlers, NEW p \in Pids, NEW pol \in Policy, Enforce(h, p, pol)
  PROVE  Result(p)
<1> DEFINE f == [Idle EXCEPT !.pid = p, !.pol = pol]
           qr == [proc EXCEPT ![h] = Idle]
<1>1. h \in Procs /\ h \notin Timers /\ h \notin Clients
  BY ManagerAssumption DEF Procs
<1>2. f \in Frame /\ f.pid = p /\ f.pol = pol
  BY DEF Idle, Frame, Points
<1>3. ASSUME NEW g, Good(h, g), g.pc # "armed", g.pc # "zadd", g.pid \in {p, None},
             Goto(h, g), UNCHANGED enabledTimers
      PROVE  Result(p)
  BY <1>1, <1>3, GotoKeeps DEF Result, OnlyFor
<1>4. CASE Goto(h, Idle) /\ UNCHANGED enabledTimers
  BY <1>1, <1>3, <1>4, IdleIsGood
<1>5. CASE /\ Goto(h, [Update(f, "enable", "emit") EXCEPT !.job = "enforce"])
           /\ UNCHANGED enabledTimers
  <2>1. "enable" \in Patches /\ "enforce" \in Actions
    BY DEF Patches, Actions
  <2>2. Good(h, [Update(f, "enable", "emit") EXCEPT !.job = "enforce"])
    BY <1>1, <1>2, <2>1, UpdateToEmitIsGood
  <2> DEFINE g == [Update(f, "enable", "emit") EXCEPT !.job = "enforce"]
  <2>3. g.pc = "read" /\ g.pid = p
    BY <1>2, <2>1, UpdateToEmitGoes
  <2> HIDE DEF g
  <2> QED
    BY <1>3, <1>5, <2>2, <2>3 DEF g
<1>6. CASE Arm(qr, p, pol)
  <2>1. GoodProcs(qr) /\ OnlyFor(p, proc, qr) /\ Recorded(qr, enabledTimers)
    BY <1>1, IdleIsGood DEF GoodProcs, OnlyFor, Recorded, Procs
  <2> QED
    BY <1>6, <2>1, ArmKeeps
<1>7. ASSUME NEW then \in {"drop", "idle"}, Goto(h, Update(f, "disable", then)),
             UNCHANGED enabledTimers
      PROVE  Result(p)
  <2>1. "disable" \in Patches
    BY DEF Patches
  <2>2. Good(h, Update(f, "disable", then))
    BY <1>1, <1>2, <1>7, <2>1, UpdateIsGood
  <2>3. Update(f, "disable", then).pc = "read" /\ Update(f, "disable", then).pid = p
    <3>1. then \in {"idle", "drop", "reread", "install", "remove"}
      BY <1>7
    <3> HIDE DEF f
    <3> QED
      BY <1>2, <2>1, <3>1, UpdateGoes
  <2> QED
    BY <1>3, <1>7, <2>2, <2>3
<1>8. CASE Goto(h, Update(f, "touch", "install")) /\ UNCHANGED enabledTimers
  <2>1. "touch" \in Patches
    BY DEF Patches
  <2>2. Good(h, Update(f, "touch", "install"))
    BY <1>1, <1>2, <2>1, UpdateIsGood
  <2>3. Update(f, "touch", "install").pc = "read" /\ Update(f, "touch", "install").pid = p
    BY <1>2, <2>1, UpdateGoes
  <2> QED
    BY <1>3, <1>8, <2>2, <2>3
<1> QED
  BY <1>4, <1>5, <1>6, <1>7, <1>8 DEF Enforce

\* An error ends the code of a process or makes a reenforce go on to enforce.
LEMMA ThrownKeeps ==
  ASSUME GoodProcs(proc), Recorded(proc, enabledTimers), enabledTimers \in TimerTable,
         NEW x \in Procs, proc[x].pid \in Pids, Thrown(x)
  PROVE  Result(proc[x].pid)
<1>1. CASE x \in Handlers /\ proc[x].then = "remove" /\ proc[x].next # None
  <2>1. proc[x].next \in Policy
    BY <1>1 DEF GoodProcs, Frame
  <2> QED
    BY <1>1, <2>1, EnforceKeeps DEF Thrown
<1>2. CASE ~(x \in Handlers /\ proc[x].then = "remove" /\ proc[x].next # None)
  BY <1>2, GotoKeeps, IdleIsGood DEF Thrown, Result, OnlyFor
<1> QED
  BY <1>1, <1>2

-----------------------------------------------------------------------------
(* Steps for one policy *)

\* The jobs of queue qs are jobs of the queue or jobs for policy p.
Queued(p, qs) ==
    /\ qs \in Seq(KnownJob)
    /\ \A i \in 1 .. Len(qs) : \/ qs[i].pid = p
                               \/ \E j \in 1 .. Len(queue) : qs[i] = queue[j]

\* A step for policy p leaves the others alone and lists p only with its record.
Kept(p) ==
    /\ Result(p)
    /\ p \in ever
    /\ UNCHANGED ever
    /\ record' \in [Pids -> Policy \cup {None}]
    /\ active' \subseteq ever
    /\ Queued(p, queue')
    /\ \A q \in Pids \ {p} : record'[q] = record[q] /\ (q \in active' <=> q \in active)
    /\ p \in active' => record'[p] # None
    /\ \A x \in Procs : proc[x].pc = "zadd" /\ proc[x].pid = p => proc'[x].pc # "zadd"

\* What is left of the type invariant.
RestOK ==
    /\ fireMain \in {"down", "listening", "running"}
    /\ current \in Handlers \cup {None}
    /\ kernel \in [Pids -> BOOLEAN]
    /\ touched \subseteq ever
    /\ ops \in 0 .. MaxOps /\ crashes \in 0 .. MaxCrashes /\ timeouts \in 0 .. MaxTimeouts

\* The parts of the invariant as the lemmas above name them.
LEMMA Parts ==
  ASSUME IInv
  PROVE  /\ GoodProcs(proc) /\ Recorded(proc, enabledTimers) /\ enabledTimers \in TimerTable
         /\ RestOK /\ NewIsPrivate /\ ActiveHasRecord
         /\ record \in [Pids -> Policy \cup {None}] /\ active \subseteq ever /\ ever \subseteq Pids
         /\ queue \in Seq(KnownJob)
         /\ \A x \in Procs : proc[x].pid \in ever \cup {None}
BY DEF IInv, TypeInv, TypeOK, NoOrphanTimer, Recorded, TimerTable, RestOK

\* A step for one policy keeps the invariant.
LEMMA KeptKeeps ==
  ASSUME IInv, NEW p \in Pids, Kept(p), RestOK'
  PROVE  IInv'
<1> USE Parts
<1>1. queue' \in Seq(KnownJob)' /\ queue' \in Seq(Job)
  <2>1. KnownJob' = KnownJob /\ KnownJob \subseteq Job
    BY DEF KnownJob, Kept
  <2> QED
    BY <2>1, SeqMonotonic DEF Kept, Queued
<1>2. \A x \in Procs : proc'[x].pid \in ever' \cup {None}
  BY DEF Kept, Result, OnlyFor
<1>3. TypeInv'
  <2>1. proc' \in [Procs -> Frame] /\ GoodProcs(proc')
    BY DEF Kept, Result, GoodProcs
  <2>2. record' \in [Pids -> Policy \cup {None}] /\ active' \subseteq Pids /\ active' \subseteq ever'
        /\ ever' \subseteq Pids
    BY DEF Kept
  <2>3. enabledTimers' \in [Pids -> Timers \cup {None}]
    BY DEF Kept, Result, TimerTable
  <2> QED
    BY <1>1, <1>2, <2>1, <2>2, <2>3 DEF TypeInv, TypeOK, RestOK
<1>4. NoOrphanTimer'
  BY DEF NoOrphanTimer, Kept, Result, Recorded
<1>5. ActiveHasRecord'
  <2> SUFFICES ASSUME NEW q \in active'
               PROVE  record'[q] # None
    BY DEF ActiveHasRecord
  <2> QED
    BY DEF ActiveHasRecord, Kept
<1>6. NewIsPrivate'
  <2> SUFFICES ASSUME NEW x \in Procs, proc'[x].pc = "zadd"
               PROVE  /\ record'[proc'[x].pid] # None /\ proc'[x].pid \notin active'
                      /\ \A y \in Procs \ {x} : proc'[y].pid # proc'[x].pid
                      /\ \A i \in 1 .. Len(queue') : queue'[i].pid # proc'[x].pid
    BY DEF NewIsPrivate
  <2> DEFINE q == proc[x].pid
  <2>1. proc'[x] = proc[x] /\ proc[x].pc = "zadd" /\ q # p /\ q \in Pids /\ q # None
    <3>1. proc'[x] = proc[x]
      BY DEF Kept, Result, OnlyFor
    <3>2. q # p
      BY <3>1 DEF Kept
    <3>3. q \in Pids
      BY <3>1 DEF GoodProcs, Good
    <3> QED
      BY <3>1, <3>2, <3>3, ManagerAssumption
  <2>2. record'[q] # None /\ q \notin active'
    BY <2>1 DEF NewIsPrivate, Kept
  <2>3. ASSUME NEW y \in Procs \ {x} PROVE proc'[y].pid # q
    BY <2>1 DEF NewIsPrivate, Kept, Result, OnlyFor
  <2>4. ASSUME NEW i \in 1 .. Len(queue') PROVE queue'[i].pid # q
    BY <2>1 DEF NewIsPrivate, Kept, Queued
  <2> QED
    BY <2>1, <2>2, <2>3, <2>4
<1> QED
  BY <1>3, <1>4, <1>5, <1>6 DEF IInv

\* A process past the creation of its policy knows that it is created.
LEMMA CreatedIsKnown ==
  ASSUME IInv, NEW x \in Procs, proc[x].pc \notin {"idle", "zadd"}
  PROVE  /\ proc[x].pid \in ever /\ proc[x].pid \in Pids
         /\ \A y \in Procs : proc[y].pc = "zadd" => proc[y].pid # proc[x].pid
<1>1. proc[x].pid \in ever /\ proc[x].pid \in Pids
  BY Parts, ManagerAssumption DEF GoodProcs, Good
<1>2. ASSUME NEW y \in Procs, proc[y].pc = "zadd" PROVE proc[y].pid # proc[x].pid
  BY Parts, <1>2 DEF NewIsPrivate
<1> QED
  BY <1>1, <1>2

\* The queue is left alone, or gets one more job for p.
LEMMA SameQueue ==
  ASSUME IInv, NEW p, queue' = queue
  PROVE  Queued(p, queue')
BY Parts DEF Queued

\* A job that is emitted joins the queue, or is lost while FireMain is down.
LEMMA EmittedKeeps ==
  ASSUME IInv, NEW p, NEW job \in KnownJob, job.pid = p
  PROVE  Queued(p, Emitted(job))
<1>1. CASE fireMain = "down"
  BY <1>1, Parts DEF Queued, Emitted
<1>2. CASE fireMain # "down"
  <2>1. /\ Append(queue, job) \in Seq(KnownJob)
        /\ \A i \in 1 .. Len(queue) + 1 :
              Append(queue, job)[i] = IF i <= Len(queue) THEN queue[i] ELSE job
        /\ Len(Append(queue, job)) = Len(queue) + 1 /\ Len(queue) \in Nat
    BY Parts
  <2>2. ASSUME NEW i \in 1 .. Len(queue) + 1
        PROVE  \/ Append(queue, job)[i].pid = p
               \/ \E j \in 1 .. Len(queue) : Append(queue, job)[i] = queue[j]
    <3>1. CASE i <= Len(queue)
      BY <2>1, <3>1
    <3>2. CASE ~(i <= Len(queue))
      BY <2>1, <3>2
    <3> QED
      BY <3>1, <3>2
  <2> QED
    BY <1>2, <2>1, <2>2 DEF Queued, Emitted
<1> QED
  BY <1>1, <1>2

\* The steps of a process that change neither redis nor the queue.
LEMMA QuietStep ==
  ASSUME IInv, NEW p \in Pids, p \in ever, Result(p),
         \A y \in Procs : proc[y].pc = "zadd" => proc[y].pid # p,
         UNCHANGED <<redis, queue, ever>>, RestOK'
  PROVE  IInv'
<1>1. Kept(p)
  BY Parts, SameQueue DEF Kept, redis, ActiveHasRecord
<1> QED
  BY <1>1, KeptKeeps

-----------------------------------------------------------------------------
(* Actions *)

\* A process goes to a frame for its own policy, or ends.
LEMMA GotoResult ==
  ASSUME IInv, NEW x \in Procs, NEW f, Good(x, f), f.pc \notin {"armed", "zadd"},
         NEW p, f.pid \in {p, None}, Goto(x, f), UNCHANGED enabledTimers
  PROVE  Result(p)
BY Parts, GotoKeeps DEF Result, OnlyFor

\* A read of updatePolicyAsync keeps the invariant.
LEMMA ReadKeeps ==
  ASSUME IInv, NEW x \in Procs, Read(x)
  PROVE  IInv'
<1> DEFINE f == proc[x]
           g == [f EXCEPT !.pc = "write", !.snap = record[f.pid]]
<1>1. f \in Frame /\ Good(x, f) /\ f.pc = "read"
  BY Parts DEF Read, GoodProcs
<1>2. /\ f.pid \in ever /\ f.pid \in Pids
      /\ \A y \in Procs : proc[y].pc = "zadd" => proc[y].pid # f.pid
  BY <1>1, CreatedIsKnown
<1>3. Result(f.pid)
  <2>1. CASE Thrown(x)
    BY <1>2, <2>1, Parts, ThrownKeeps
  <2>2. CASE record[f.pid] # None /\ Goto(x, g) /\ UNCHANGED enabledTimers
    <3>1. record[f.pid] \in Policy
      BY <1>2, <2>2, Parts
    <3>2. Good(x, g) /\ g.pc = "write" /\ g.pid = f.pid
      BY <1>1, <3>1 DEF Good, Frame, Points, Holding
    <3> HIDE DEF g
    <3> QED
      BY <2>2, <3>2, GotoResult
  <2> QED
    BY <2>1, <2>2 DEF Read
<1> QED
  BY <1>2, <1>3, Parts, QuietStep DEF Read, RestOK, bounds, redis

\* The write of updatePolicyAsync may bring a deleted record back: it does not
\* list it.
LEMMA WriteKeeps ==
  ASSUME IInv, NEW x \in Procs, Write(x)
  PROVE  IInv'
<1> DEFINE f == proc[x]
           g == [f EXCEPT !.pc = f.then, !.snap = None,
                          !.pol = IF f.then = "reread" THEN @ ELSE Patched(@, f.patch)]
<1>1. f \in Frame /\ Good(x, f) /\ f.pc = "write"
  BY Parts DEF Write, GoodProcs
<1>2. /\ f.pid \in ever /\ f.pid \in Pids
      /\ \A y \in Procs : proc[y].pc = "zadd" => proc[y].pid # f.pid
  BY <1>1, CreatedIsKnown
<1>3. Patched(f.pol, f.patch) \in Policy /\ Written(f) \in Policy
  BY <1>1, PatchedIsPolicy DEF Good, Holding, Written
<1>4. Result(f.pid)
  <2>1. CASE f.then = "idle"
    BY <2>1, IdleIsGood, GotoResult DEF Write
  <2>2. CASE f.then # "idle"
    <3>1. Good(x, g) /\ g.pc \notin {"armed", "zadd"} /\ g.pid = f.pid
      BY <1>1, <1>3, <2>2, ZenonT(60) DEF Good, Frame, Points, Holding, Actions
    <3>2. Goto(x, g) /\ UNCHANGED enabledTimers
      BY <2>2 DEF Write
    <3> HIDE DEF g
    <3> QED
      BY <3>1, <3>2, GotoResult
  <2> QED
    BY <2>1, <2>2
<1>5. record' = [record EXCEPT ![f.pid] = Written(f)] /\ active' = active /\ queue' = queue
      /\ ever' = ever
  BY DEF Write
<1>6. Kept(f.pid)
  <2> HIDE DEF f
  <2>1. record' \in [Pids -> Policy \cup {None}] /\ record'[f.pid] # None
        /\ \A q \in Pids \ {f.pid} : record'[q] = record[q]
    BY <1>2, <1>3, <1>5, Parts, NoneAssumption
  <2> QED
    BY <1>2, <1>4, <1>5, <2>1, Parts, SameQueue DEF Kept
<1> QED
  BY <1>2, <1>6, Parts, KeptKeeps DEF Write, RestOK, bounds

\* _removeActivatedTime keeps the invariant.
LEMMA CheckKeeps ==
  ASSUME IInv, NEW x \in Procs, Check(x)
  PROVE  IInv'
<1> DEFINE f == proc[x]
           g == [f EXCEPT !.pc = "remove"]
<1>1. f \in Frame /\ Good(x, f) /\ f.pc = "check"
  BY Parts DEF Check, GoodProcs
<1>2. /\ f.pid \in ever /\ f.pid \in Pids
      /\ \A y \in Procs : proc[y].pc = "zadd" => proc[y].pid # f.pid
  BY <1>1, CreatedIsKnown
<1>3. Result(f.pid)
  <2>1. CASE record[f.pid] = None
    <3>1. Good(x, g) /\ g.pc = "remove" /\ g.pid = f.pid
      BY <1>1 DEF Good, Frame, Points, Holding
    <3>2. Goto(x, g) /\ UNCHANGED enabledTimers
      BY <2>1 DEF Check
    <3> HIDE DEF g
    <3> QED
      BY <3>1, <3>2, GotoResult
  <2>2. CASE record[f.pid] # None
    <3>1. "touch" \in Patches /\ f.pol \in Policy
      BY <1>1 DEF Patches, Good, Holding
    <3>2. Good(x, Update(f, "touch", "remove"))
      BY <1>1, <1>2, <3>1, UpdateIsGood
    <3>3. Update(f, "touch", "remove").pc = "read" /\ Update(f, "touch", "remove").pid = f.pid
      BY <1>1, <3>1, UpdateGoes
    <3>4. Goto(x, Update(f, "touch", "remove")) /\ UNCHANGED enabledTimers
      BY <2>2 DEF Check
    <3> QED
      BY <3>2, <3>3, <3>4, GotoResult
  <2> QED
    BY <2>1, <2>2
<1> QED
  BY <1>2, <1>3, Parts, QuietStep DEF Check, RestOK, bounds, redis

\* Taking rules out, and what follows, keeps the invariant.
LEMMA RemoveRulesKeeps ==
  ASSUME IInv, NEW x \in Procs, RemoveRules(x)
  PROVE  IInv'
<1> DEFINE f == proc[x]
<1>1. f \in Frame /\ Good(x, f) /\ f.pc = "remove" /\ f.pol \in Policy
  BY Parts DEF RemoveRules, GoodProcs, Good, Holding
<1>2. /\ f.pid \in ever /\ f.pid \in Pids
      /\ \A y \in Procs : proc[y].pc = "zadd" => proc[y].pid # f.pid
  BY <1>1, CreatedIsKnown
<1>3. CASE x \in Handlers /\ f.next # None /\ Enforce(x, f.pid, f.next)
  <2>1. f.next \in Policy
    BY <1>1, <1>3 DEF Frame
  <2>2. Result(f.pid)
    BY <1>2, <1>3, <2>1, Parts, EnforceKeeps
  <2> QED
    BY <1>2, <2>2, Parts, QuietStep DEF RemoveRules, RestOK, bounds, redis
<1>4. CASE Goto(x, Idle) /\ UNCHANGED enabledTimers
  <2>1. Result(f.pid)
    BY <1>4, IdleIsGood, GotoResult
  <2> QED
    BY <1>2, <2>1, Parts, QuietStep DEF RemoveRules, RestOK, bounds, redis
<1>5. ASSUME NEW then \in {"drop", "idle"}, x \in Timers, Goto(x, Update(f, "disable", then)),
             UNCHANGED enabledTimers
      PROVE  IInv'
  <2> HIDE DEF f
  <2>1. /\ "disable" \in Patches /\ x \notin Clients
        /\ then \in {"idle", "drop", "reread", "install", "remove"}
    BY <1>5, ManagerAssumption DEF Patches
  <2>2. Good(x, Update(f, "disable", then))
    BY <1>1, <1>2, <2>1, UpdateIsGood
  <2>3. Update(f, "disable", then).pc = "read" /\ Update(f, "disable", then).pid = f.pid
    BY <1>1, <2>1, UpdateGoes
  <2>4. Result(f.pid)
    BY <1>5, <2>2, <2>3, GotoResult
  <2> QED
    BY <1>2, <2>4, Parts, QuietStep DEF RemoveRules, RestOK, bounds, redis, f
<1> QED
  BY <1>3, <1>4, <1>5 DEF RemoveRules

\* Installing rules, and arming the timeout of an expiry, keeps the invariant.
LEMMA InstallRulesKeeps ==
  ASSUME IInv, NEW x \in Procs, InstallRules(x)
  PROVE  IInv'
<1> DEFINE f == proc[x]
           pr == [proc EXCEPT ![x] = Idle]
<1>1. f \in Frame /\ Good(x, f) /\ f.pc = "install" /\ f.pol \in Policy
  BY Parts DEF InstallRules, GoodProcs, Good, Holding
<1>2. /\ f.pid \in ever /\ f.pid \in Pids
      /\ \A y \in Procs : proc[y].pc = "zadd" => proc[y].pid # f.pid
  BY <1>1, CreatedIsKnown
<1>3. CASE Goto(x, Idle) /\ UNCHANGED enabledTimers
  <2>1. Result(f.pid)
    BY <1>3, IdleIsGood, GotoResult
  <2> QED
    BY <1>2, <2>1, Parts, QuietStep DEF InstallRules, RestOK, bounds, redis
<1>4. CASE Arm(pr, f.pid, f.pol)
  <2>1. GoodProcs(pr) /\ OnlyFor(f.pid, proc, pr) /\ Recorded(pr, enabledTimers)
    BY Parts, IdleIsGood DEF GoodProcs, OnlyFor, Recorded, Procs
  <2>2. Result(f.pid)
    BY <1>1, <1>2, <1>4, <2>1, Parts, ArmKeeps
  <2> QED
    BY <1>2, <2>2, Parts, QuietStep DEF InstallRules, RestOK, bounds, redis
<1> QED
  BY <1>3, <1>4 DEF InstallRules

\* Deleting a policy takes it from the list with its record.
LEMMA DropKeeps ==
  ASSUME IInv, NEW x \in Procs, Drop(x)
  PROVE  IInv'
<1> DEFINE f == proc[x]
           g == [f EXCEPT !.pc = "emit"]
<1>1. f \in Frame /\ Good(x, f) /\ f.pc = "drop"
  BY Parts DEF Drop, GoodProcs
<1>2. /\ f.pid \in ever /\ f.pid \in Pids
      /\ \A y \in Procs : proc[y].pc = "zadd" => proc[y].pid # f.pid
  BY <1>1, CreatedIsKnown
<1>3. Result(f.pid)
  <2>1. CASE x \in Clients
    <3>1. Good(x, g) /\ g.pc = "emit" /\ g.pid = f.pid
      BY <1>1, <2>1 DEF Good, Frame, Points, Holding
    <3>2. Goto(x, g) /\ UNCHANGED enabledTimers
      BY <2>1 DEF Drop
    <3> HIDE DEF g
    <3> QED
      BY <3>1, <3>2, GotoResult
  <2>2. CASE x \notin Clients
    BY <2>2, IdleIsGood, GotoResult DEF Drop
  <2> QED
    BY <2>1, <2>2
<1>4. record' = [record EXCEPT ![f.pid] = None] /\ active' = active \ {f.pid} /\ queue' = queue
      /\ ever' = ever
  BY DEF Drop, Dropped
<1>5. Kept(f.pid)
  <2> HIDE DEF f
  <2>1. record' \in [Pids -> Policy \cup {None}] /\ active' \subseteq ever
        /\ \A q \in Pids \ {f.pid} : record'[q] = record[q] /\ (q \in active' <=> q \in active)
    BY <1>2, <1>4, Parts
  <2> QED
    BY <1>2, <1>3, <1>4, <2>1, Parts, SameQueue DEF Kept
<1> QED
  BY <1>2, <1>5, Parts, KeptKeeps DEF Drop, RestOK, bounds

\* Jobs about a policy that has been created are jobs the queue may hold.
LEMMA JobIsKnown ==
  ASSUME IInv, NEW p \in ever, NEW policy \in Policy,
         NEW action \in {"enforce", "unenforce", "reenforce"}, NEW old \in Policy \cup {None},
         action = "reenforce" => old \in Policy
  PROVE  JobOf(action, p, policy, old) \in KnownJob /\ JobOf(action, p, policy, old).pid = p
BY Parts DEF JobOf, KnownJob, Job

\* A step that emits a job for its policy, or nothing, and ends.
LEMMA EmitStep ==
  ASSUME IInv, NEW x \in Procs, proc[x].pc \notin {"idle", "zadd"},
         Queued(proc[x].pid, queue'), Goto(x, Idle),
         UNCHANGED <<redis, fireMain, current, enabledTimers, kernel, ever, touched, bounds>>
  PROVE  IInv'
<1> DEFINE p == proc[x].pid
<1>1. p \in ever /\ p \in Pids /\ \A y \in Procs : proc[y].pc = "zadd" => proc[y].pid # p
  BY CreatedIsKnown
<1>2. Result(p)
  BY IdleIsGood, GotoResult
<1> HIDE DEF p
<1>3. Kept(p)
  BY <1>1, <1>2, Parts DEF Kept, redis, ActiveHasRecord, p
<1> QED
  BY <1>1, <1>3, Parts, KeptKeeps DEF RestOK, bounds

\* Telling FireMain about a policy keeps the invariant.
LEMMA EmitKeeps ==
  ASSUME IInv, NEW x \in Procs, Emit(x)
  PROVE  IInv'
<1> DEFINE f == proc[x]
<1>1. f.pc = "emit" /\ f.pol \in Policy /\ f.job \in Actions
  BY Parts DEF Emit, GoodProcs, Good, Holding
<1>2. f.pid \in ever
  BY <1>1, CreatedIsKnown
<1>3. JobOf(f.job, f.pid, f.pol, None) \in KnownJob /\ JobOf(f.job, f.pid, f.pol, None).pid = f.pid
  BY <1>1, <1>2, JobIsKnown DEF Actions
<1>4. Queued(f.pid, queue')
  BY <1>3, EmittedKeeps DEF Emit
<1> QED
  BY <1>1, <1>4, EmitStep DEF Emit

\* policy:update emits the policy it finds, if it finds one.
LEMMA RereadKeeps ==
  ASSUME IInv, NEW x \in Procs, Reread(x)
  PROVE  IInv'
<1> DEFINE f == proc[x]
           policy == record[f.pid]
<1>1. f.pc = "reread" /\ f.pol \in Policy
  BY Parts DEF Reread, GoodProcs, Good, Holding
<1>2. f.pid \in ever /\ f.pid \in Pids
  BY <1>1, CreatedIsKnown
<1>3. CASE policy = None
  BY <1>1, <1>3, SameQueue, EmitStep DEF Reread
<1>4. CASE policy # None
  <2>1. policy \in Policy
    BY <1>2, <1>4, Parts
  <2>2. /\ JobOf("reenforce", f.pid, policy, f.pol) \in KnownJob
        /\ JobOf("reenforce", f.pid, policy, f.pol).pid = f.pid
    BY <1>1, <1>2, <2>1, JobIsKnown
  <2>3. Queued(f.pid, queue')
    BY <1>4, <2>2, EmittedKeeps DEF Reread
  <2> QED
    BY <1>1, <2>3, EmitStep DEF Reread
<1> QED
  BY <1>3, <1>4

\* A timeout that fires leaves the table as it is: it is no longer armed.
LEMMA TimerFiresKeeps ==
  ASSUME IInv, NEW t \in Timers, TimerFires(t)
  PROVE  IInv'
<1> DEFINE f == proc[t]
           g == [Update(f, "enable", "emit") EXCEPT !.job = "enforce"]
           k == [f EXCEPT !.pc = "look"]
<1>1. t \in Procs /\ f \in Frame /\ Good(t, f) /\ f.pc = "armed" /\ f.pol \in Policy
  BY Parts DEF TimerFires, GoodProcs, Good, Holding, Procs
<1>2. /\ f.pid \in ever /\ f.pid \in Pids
      /\ \A y \in Procs : proc[y].pc = "zadd" => proc[y].pid # f.pid
  BY <1>1, CreatedIsKnown
<1>3. "enable" \in Patches /\ "enforce" \in Actions
  BY DEF Patches, Actions
<1>4. Good(t, g) /\ g.pc = "read" /\ g.pid = f.pid
  BY <1>1, <1>2, <1>3, UpdateToEmitIsGood, UpdateToEmitGoes
<1>5. Good(t, k) /\ k.pc = "look" /\ k.pid = f.pid
  BY <1>1 DEF Good, Frame, Points, Holding
<1>6. (Goto(t, g) \/ Goto(t, k)) /\ UNCHANGED enabledTimers
  BY DEF TimerFires
<1>7. Result(f.pid)
  <2> HIDE DEF g, k
  <2> QED
    BY <1>1, <1>4, <1>5, <1>6, GotoResult
<1> QED
  BY <1>2, <1>7, Parts, QuietStep DEF TimerFires, RestOK, bounds, redis

\* The callback of an expiry goes on only with a policy that is there.
LEMMA LookKeeps ==
  ASSUME IInv, NEW t \in Timers, Look(t)
  PROVE  IInv'
<1> DEFINE f == proc[t]
<1>1. t \in Procs /\ f.pc = "look"
  BY DEF Look, Procs
<1>2. /\ f.pid \in ever /\ f.pid \in Pids
      /\ \A y \in Procs : proc[y].pc = "zadd" => proc[y].pid # f.pid
  BY <1>1, CreatedIsKnown
<1>3. Result(f.pid)
  <2>1. CASE Goto(t, Idle) /\ UNCHANGED enabledTimers
    BY <1>1, <2>1, IdleIsGood, GotoResult
  <2>2. CASE record[f.pid] # None /\ Unenforce(t, f.pid, record[f.pid], None)
    <3>1. record[f.pid] \in Policy
      BY <1>2, <2>2, Parts
    <3> QED
      BY <1>1, <1>2, <2>2, <3>1, Parts, UnenforceKeeps
  <2> QED
    BY <2>1, <2>2 DEF Look
<1> QED
  BY <1>2, <1>3, Parts, QuietStep DEF Look, RestOK, bounds, redis

\* A message ends at once, or goes on with the policy it has loaded.
LEMMA OpenKeeps ==
  ASSUME IInv, NEW x \in Clients, Open(x)
  PROVE  IInv'
<1> DEFINE f == proc[x]
           g == [f EXCEPT !.pc = IF f.then = "drop" THEN "drop" ELSE "read", !.pol = record[f.pid]]
<1>1. x \in Procs /\ f \in Frame /\ Good(x, f) /\ f.pc = "open"
  BY Parts DEF Open, GoodProcs, Procs
<1>2. /\ f.pid \in ever /\ f.pid \in Pids
      /\ \A y \in Procs : proc[y].pc = "zadd" => proc[y].pid # f.pid
  BY <1>1, CreatedIsKnown
<1>3. Result(f.pid)
  <2>1. CASE Goto(x, Idle) /\ UNCHANGED enabledTimers
    BY <1>1, <2>1, IdleIsGood, GotoResult
  <2>2. CASE record[f.pid] # None /\ Goto(x, g) /\ UNCHANGED enabledTimers
    <3>1. record[f.pid] \in Policy
      BY <1>2, <2>2, Parts
    <3>2. Good(x, g) /\ g.pc \notin {"armed", "zadd"} /\ g.pid = f.pid
      BY <1>1, <3>1, ZenonT(60) DEF Good, Frame, Points, Holding
    <3> HIDE DEF g
    <3> QED
      BY <1>1, <2>2, <3>2, GotoResult
  <2> QED
    BY <2>1, <2>2 DEF Open
<1> QED
  BY <1>2, <1>3, Parts, QuietStep DEF Open, RestOK, bounds, redis

\* addToActiveQueue: the list gets a policy whose record only its client knows.
LEMMA AddToActiveKeeps ==
  ASSUME IInv, NEW x \in Clients, AddToActive(x)
  PROVE  IInv'
<1> DEFINE f == proc[x]
           g == [f EXCEPT !.pc = "emit"]
<1>1. x \in Procs /\ f \in Frame /\ Good(x, f) /\ f.pc = "zadd"
  BY Parts DEF AddToActive, GoodProcs, Procs
<1>2. f.pid \in ever /\ f.pid \in Pids /\ record[f.pid] # None
  BY <1>1, Parts, ManagerAssumption DEF Good, NewIsPrivate
<1>3. Good(x, g) /\ g.pc = "emit" /\ g.pid = f.pid
  BY <1>1 DEF Good, Frame, Points, Holding
<1>4. Result(f.pid) /\ proc'[x].pc # "zadd"
  <2> HIDE DEF g
  <2>1. Goto(x, g) /\ UNCHANGED enabledTimers
    BY DEF AddToActive, g
  <2> QED
    BY <1>1, <1>3, <2>1, Parts, GotoKeeps DEF Result, OnlyFor
<1>5. \A y \in Procs : proc[y].pc = "zadd" /\ proc[y].pid = f.pid => y = x
  BY <1>1, Parts DEF NewIsPrivate
<1>6. Kept(f.pid)
  <2> HIDE DEF f
  <2> QED
    BY <1>2, <1>4, <1>5, Parts, SameQueue DEF Kept, AddToActive, f
<1> QED
  BY <1>2, <1>6, Parts, KeptKeeps DEF AddToActive, RestOK, bounds

\* A message begins work for a policy that is created and listed.
LEMMA MessageKeeps ==
  ASSUME IInv, NEW x \in Clients, NEW p \in Pids, Message(x, p)
  PROVE  IInv'
<1>1. /\ x \in Procs /\ p \in ever /\ proc[x].pc = "idle"
      /\ \A y \in Clients : proc[y].pid = p => proc[y].pc # "zadd"
  BY DEF Message, Begins, Procs
<1>2. \A y \in Procs : proc[y].pc = "zadd" => proc[y].pid # p
  BY <1>1, Parts DEF GoodProcs, Good
<1>3. PICK g : /\ Good(x, g) /\ g.pc = "open" /\ g.pid = p
               /\ Goto(x, g) /\ UNCHANGED enabledTimers
  <2> DEFINE open == [Idle EXCEPT !.pc = "open", !.pid = p]
  <2>1. ASSUME NEW patch \in Patches,
               NEW then \in {"emit", "reread"}, NEW job \in {"enforce", "unenforce", "reenforce"},
               then = "emit" => job \in Actions,
               Goto(x, [open EXCEPT !.patch = patch, !.then = then, !.job = job])
        PROVE  \E g : Good(x, g) /\ g.pc = "open" /\ g.pid = p /\ Goto(x, g)
    <3> DEFINE g == [open EXCEPT !.patch = patch, !.then = then, !.job = job]
    <3>1. Good(x, g) /\ g.pc = "open" /\ g.pid = p
      BY <2>1 DEF Idle, Good, Frame, Points, Holding, Actions
    <3> HIDE DEF g
    <3> QED
      BY <2>1, <3>1 DEF g
  <2>2. CASE Goto(x, [open EXCEPT !.then = "drop", !.job = "unenforce"])
    <3> DEFINE g == [open EXCEPT !.then = "drop", !.job = "unenforce"]
    <3>1. Good(x, g) /\ g.pc = "open" /\ g.pid = p
      BY DEF Idle, Good, Frame, Points, Holding, Actions
    <3> HIDE DEF g
    <3>2. Goto(x, g) /\ UNCHANGED enabledTimers
      BY <2>2 DEF Message, g
    <3> QED
      BY <3>1, <3>2
  <2>3. CASE Goto(x, [open EXCEPT !.patch = "enable", !.then = "emit", !.job = "enforce"])
    BY <2>1, <2>3 DEF Message, Patches, Actions
  <2>4. CASE Goto(x, [open EXCEPT !.patch = "disable", !.then = "emit", !.job = "unenforce"])
    BY <2>1, <2>4 DEF Message, Patches, Actions
  <2>5. ASSUME NEW edit \in Lives \cup {"pause"},
               Goto(x, [open EXCEPT !.patch = edit, !.then = "reread", !.job = "reenforce"])
        PROVE  \E g : Good(x, g) /\ g.pc = "open" /\ g.pid = p /\ Goto(x, g)
    <3>1. edit \in Patches
      BY DEF Patches
    <3> QED
      BY <2>1, <2>5, <3>1
  <2>6. UNCHANGED enabledTimers
    BY DEF Message
  <2> QED
    BY <2>2, <2>3, <2>4, <2>5, <2>6 DEF Message
<1>4. Result(p)
  BY <1>1, <1>3, GotoResult
<1>5. /\ UNCHANGED <<redis, queue, ever>> /\ UNCHANGED <<fireMain, current, kernel, crashes, timeouts>>
      /\ ops < MaxOps /\ ops' = ops + 1 /\ touched' = touched \cup {p}
  BY DEF Message, Begins, Counted
<1>6. RestOK'
  BY <1>1, <1>5, Parts, ManagerAssumption DEF RestOK
<1> QED
  BY <1>1, <1>2, <1>4, <1>5, <1>6, QuietStep

\* The handler of a job begins work for a policy that is created.
LEMMA TakeJobKeeps ==
  ASSUME IInv, NEW h \in Handlers, TakeJob(h)
  PROVE  IInv'
<1> DEFINE job == Head(queue)
           p == job.pid
<1>1. queue # <<>> /\ queue' = Tail(queue) /\ h \in Procs
  BY DEF TakeJob, Procs
<1>2. /\ job \in KnownJob /\ job = queue[1] /\ 1 \in 1 .. Len(queue)
      /\ Tail(queue) \in Seq(KnownJob) /\ Len(Tail(queue)) = Len(queue) - 1
      /\ \A i \in 1 .. Len(Tail(queue)) : Tail(queue)[i] = queue[i + 1]
      /\ Len(queue) \in Nat
  <2>1. /\ job \in KnownJob /\ Tail(queue) \in Seq(KnownJob) /\ Len(Tail(queue)) = Len(queue) - 1
        /\ \A i \in 1 .. Len(Tail(queue)) : Tail(queue)[i] = queue[i + 1]
    BY <1>1, Parts, HeadTailProperties
  <2>2. Len(queue) \in Nat \ {0}
    BY <1>1, Parts, EmptySeq
  <2> QED
    BY <2>1, <2>2
<1>3. /\ p \in ever /\ p \in Pids /\ job.policy \in Policy
      /\ job.action = "reenforce" => job.oldPolicy \in Policy
  BY <1>2 DEF KnownJob, Job
<1>4. \A y \in Procs : proc[y].pc = "zadd" => proc[y].pid # p
  BY <1>2, Parts DEF NewIsPrivate
<1>5. Result(p)
  <2>1. CASE Enforce(h, p, job.policy)
    BY <1>3, <2>1, Parts, EnforceKeeps
  <2>2. CASE Unenforce(h, p, job.policy, None)
    BY <1>1, <1>3, <2>2, Parts, UnenforceKeeps
  <2>3. CASE job.action = "reenforce" /\ Unenforce(h, p, job.oldPolicy, job.policy)
    BY <1>1, <1>3, <2>3, Parts, UnenforceKeeps
  <2> QED
    BY <2>1, <2>2, <2>3 DEF TakeJob
<1>6. Queued(p, queue')
  BY <1>1, <1>2 DEF Queued
<1>7. Kept(p)
  <2> HIDE DEF p
  <2> QED
    BY <1>3, <1>4, <1>5, <1>6, Parts DEF Kept, TakeJob, redis, ActiveHasRecord
<1> QED
  BY <1>3, <1>7, Parts, KeptKeeps DEF TakeJob, RestOK, bounds

\* The queue goes on without its handler.
LEMMA ReleasedKeeps ==
  ASSUME IInv, NEW h \in Handlers, JobDone(h) \/ JobTimeout(h)
  PROVE  IInv'
<1>1. /\ UNCHANGED <<record, active, queue, fireMain, proc, enabledTimers, kernel, ever, touched,
                     ops, crashes>>
      /\ current' = None
      /\ timeouts' = timeouts \/ (timeouts < MaxTimeouts /\ timeouts' = timeouts + 1)
  BY DEF JobDone, JobTimeout, redis, bounds
<1>2. KnownJob' = KnownJob
  BY <1>1 DEF KnownJob
<1>3. timeouts' \in 0 .. MaxTimeouts
  BY <1>1, Parts, ManagerAssumption DEF RestOK
<1>4. TypeInv'
  BY <1>1, <1>2, <1>3 DEF IInv, TypeInv, TypeOK
<1> QED
  BY <1>1, <1>4 DEF IInv, NoOrphanTimer, ActiveHasRecord, NewIsPrivate

\* A policy that is created is new to everyone: its client alone knows it.
LEMMA CreateKeeps ==
  ASSUME IInv, NEW x \in Clients, NEW p \in Pids, NEW life \in Lives, Create(x, p, life)
  PROVE  IInv'
<1> DEFINE policy == [disabled |-> FALSE, idle |-> FALSE, life |-> life]
           g == [Idle EXCEPT !.pc = "zadd", !.pid = p, !.pol = policy, !.job = "enforce"]
<1>1. /\ x \in Procs /\ p \notin ever /\ policy \in Policy /\ policy # None
      /\ record' = [record EXCEPT ![p] = policy] /\ ever' = ever \cup {p}
      /\ Goto(x, g) /\ ops < MaxOps /\ ops' = ops + 1 /\ touched' = touched \cup {p}
      /\ UNCHANGED <<active, queue, fireMain, current, enabledTimers, kernel, crashes, timeouts>>
  <2>1. policy \in Policy
    BY DEF Policy
  <2>2. policy # None
    BY <2>1, NoneAssumption
  <2> QED
    BY <2>1, <2>2 DEF Create, Begins, Counted, Procs
<1>2. Good(x, g) /\ g.pc = "zadd" /\ g.pid = p
  BY <1>1 DEF Idle, Good, Frame, Points, Holding, Actions
<1> HIDE DEF g, policy
<1>3. /\ GoodProcs(proc') /\ enabledTimers' \in TimerTable /\ Recorded(proc', enabledTimers')
      /\ \A y \in Procs : proc'[y] = IF y = x THEN g ELSE proc[y]
  BY <1>1, <1>2, Parts, GotoKeeps
<1>4. KnownJob \subseteq KnownJob' /\ KnownJob' \subseteq Job
  BY <1>1 DEF KnownJob
<1>5. queue' \in Seq(KnownJob)' /\ queue' \in Seq(Job)
  BY <1>1, <1>4, Parts, SeqMonotonic
<1>6. \A y \in Procs : proc'[y].pid \in ever' \cup {None}
  BY <1>1, <1>2, <1>3, Parts
<1>7. record' \in [Pids -> Policy \cup {None}] /\ record'[p] # None
      /\ \A q \in Pids \ {p} : record'[q] = record[q]
  BY <1>1, Parts
<1>8. RestOK'
  BY <1>1, Parts, ManagerAssumption DEF RestOK
<1>9. TypeInv'
  <2>1. active' \subseteq ever' /\ ever' \subseteq Pids /\ active' \subseteq Pids
    BY <1>1, Parts
  <2> QED
    BY <1>3, <1>5, <1>6, <1>7, <1>8, <2>1
       DEF TypeInv, TypeOK, RestOK, TimerTable, GoodProcs
<1>10. NoOrphanTimer'
  BY <1>3 DEF NoOrphanTimer, Recorded
<1>11. ActiveHasRecord'
  BY <1>1, <1>7, Parts DEF ActiveHasRecord
<1>12. NewIsPrivate'
  <2>1. \A q \in active \cup {queue[i].pid : i \in 1 .. Len(queue)} \cup {proc[y].pid : y \in Procs} : q # p
    BY <1>1, Parts, ManagerAssumption DEF KnownJob
  <2> SUFFICES ASSUME NEW y \in Procs, proc'[y].pc = "zadd"
               PROVE  /\ record'[proc'[y].pid] # None /\ proc'[y].pid \notin active'
                      /\ \A z \in Procs \ {y} : proc'[z].pid # proc'[y].pid
                      /\ \A i \in 1 .. Len(queue') : queue'[i].pid # proc'[y].pid
    BY DEF NewIsPrivate
  <2>2. CASE y = x
    BY <1>1, <1>2, <1>3, <1>7, <2>1, <2>2
  <2>3. CASE y # x
    <3>1. proc'[y] = proc[y] /\ proc[y].pc = "zadd" /\ proc[y].pid \in Pids \ {p}
      BY <1>3, <2>1, <2>3, Parts DEF GoodProcs, Good
    <3> QED
      BY <1>1, <1>2, <1>3, <1>7, <3>1, Parts DEF NewIsPrivate
  <2> QED
    BY <2>2, <2>3
<1> QED
  BY <1>9, <1>10, <1>11, <1>12 DEF IInv

\* A crash of FireMain leaves the clients, redis and the queue.
LEMMA CrashKeeps ==
  ASSUME IInv, Crash
  PROVE  IInv'
<1>1. /\ UNCHANGED <<record, active, queue, kernel, ever, touched, ops, timeouts>>
      /\ fireMain' = "down" /\ current' = None
      /\ crashes < MaxCrashes /\ crashes' = crashes + 1
      /\ proc' = [x \in Procs |-> IF x \in Clients THEN proc[x] ELSE Idle]
      /\ enabledTimers' = [p \in Pids |-> None]
  BY DEF Crash, redis
<1>2. \A x \in Procs : proc'[x] = IF x \in Clients THEN proc[x] ELSE Idle
  BY <1>1
<1>3. GoodProcs(proc')
  BY <1>1, <1>2, Parts, IdleIsGood DEF GoodProcs
<1>4. \A t \in Timers : proc'[t].pc = "idle"
  BY <1>2, ManagerAssumption, IdleIsGood DEF Procs
<1>5. KnownJob' = KnownJob
  BY <1>1 DEF KnownJob
<1>6. TypeInv'
  <2>1. \A x \in Procs : proc'[x].pid \in ever' \cup {None}
    BY <1>1, <1>2, Parts, IdleIsGood
  <2>2. crashes' \in 0 .. MaxCrashes
    BY <1>1, Parts, ManagerAssumption DEF RestOK
  <2> QED
    BY <1>1, <1>3, <1>5, <2>1, <2>2 DEF TypeInv, TypeOK, GoodProcs, IInv
<1>7. NewIsPrivate'
  BY <1>1, <1>2, Parts, IdleIsGood, ManagerAssumption DEF NewIsPrivate, GoodProcs, Good
<1>8. NoOrphanTimer' /\ ActiveHasRecord'
  BY <1>1, <1>4, Parts DEF NoOrphanTimer, ActiveHasRecord
<1> QED
  BY <1>6, <1>7, <1>8 DEF IInv

\* The boot forgets the jobs.
LEMMA BootKeeps ==
  ASSUME IInv, Boot
  PROVE  IInv'
<1>1. /\ UNCHANGED <<record, active, current, proc, enabledTimers, ever, ops, crashes, timeouts>>
      /\ fireMain' = "listening" /\ queue' = <<>>
      /\ kernel' \in [Pids -> BOOLEAN]
      /\ touched' = {proc[x].pid : x \in Clients} \ {None}
  BY DEF Boot, Flushed, redis, bounds
<1>2. touched' \subseteq ever'
  BY <1>1, Parts DEF Procs
<1>3. TypeInv'
  <2>1. queue' \in Seq(KnownJob)' /\ queue' \in Seq(Job)
    BY <1>1
  <2> QED
    BY <1>1, <1>2, <2>1 DEF TypeInv, TypeOK, IInv
<1>4. NewIsPrivate'
  BY <1>1, Parts DEF NewIsPrivate
<1>5. NoOrphanTimer' /\ ActiveHasRecord'
  BY <1>1 DEF NoOrphanTimer, ActiveHasRecord, IInv
<1> QED
  BY <1>3, <1>4, <1>5 DEF IInv

\* The boot queues policies that are listed, none that is being created.
LEMMA BootLoadKeeps ==
  ASSUME IInv, BootLoad
  PROVE  IInv'
<1>1. IsFiniteSet(ToEnforce) /\ ToEnforce \subseteq active
  BY Parts, ManagerAssumption, FS_Subset DEF ToEnforce
<1>2. Cardinality(ToEnforce) \in Nat
  BY <1>1, FS_CardinalityType
<1>3. PICK order \in [1 .. Cardinality(ToEnforce) -> ToEnforce] :
         queue' = queue \o [i \in DOMAIN order |->
                              JobOf("enforce", order[i], record[order[i]], None)]
  BY DEF BootLoad
<1> DEFINE n == Cardinality(ToEnforce)
           jobs == [i \in 1 .. n |-> JobOf("enforce", order[i], record[order[i]], None)]
<1>4. queue' = queue \o jobs
  BY <1>3
<1>5. \A i \in 1 .. n : jobs[i] \in KnownJob /\ jobs[i].pid \in active
  <2> SUFFICES ASSUME NEW i \in 1 .. n PROVE jobs[i] \in KnownJob /\ jobs[i].pid \in active
    OBVIOUS
  <2>1. order[i] \in active /\ order[i] \in ever /\ record[order[i]] \in Policy
    BY Parts DEF ToEnforce
  <2>2. jobs[i] = JobOf("enforce", order[i], record[order[i]], None)
    OBVIOUS
  <2> QED
    BY <2>1, <2>2, JobIsKnown
<1>6. jobs \in Seq(KnownJob) /\ Len(jobs) = n
  <2> HIDE DEF n
  <2> QED
    BY <1>2, <1>5 DEF n
<1>7. queue' \in Seq(KnownJob) /\ Len(queue) \in Nat
      /\ Len(queue') = Len(queue) + n
      /\ \A i \in 1 .. Len(queue) + n : queue'[i] =
            IF i <= Len(queue) THEN queue[i] ELSE jobs[i - Len(queue)]
  <2> HIDE DEF jobs, n
  <2> QED
    BY <1>4, <1>6, Parts, ConcatProperties, LenProperties
<1>8. /\ UNCHANGED <<record, active, current, proc, enabledTimers, kernel, ever, touched, ops,
                     crashes, timeouts>>
      /\ fireMain' = "running"
  BY DEF BootLoad, redis, bounds
<1>9. TypeInv'
  <2>1. KnownJob' = KnownJob /\ KnownJob \subseteq Job
    BY <1>8 DEF KnownJob
  <2>2. queue' \in Seq(Job)
    BY <1>7, <2>1, SeqMonotonic
  <2> QED
    BY <1>7, <1>8, <2>1, <2>2 DEF TypeInv, TypeOK, IInv
<1>10. \A i \in 1 .. Len(queue') :
          queue'[i].pid \in active \/ \E j \in 1 .. Len(queue) : queue'[i] = queue[j]
  <2> HIDE DEF jobs, n
  <2> SUFFICES ASSUME NEW i \in 1 .. Len(queue) + n
               PROVE  queue'[i].pid \in active \/ \E j \in 1 .. Len(queue) : queue'[i] = queue[j]
    BY <1>7
  <2>1. CASE i <= Len(queue)
    BY <1>7, <2>1
  <2>2. CASE ~(i <= Len(queue))
    <3>1. i - Len(queue) \in 1 .. n
      BY <1>2, <1>7, <2>2 DEF n
    <3> QED
      BY <1>5, <1>7, <2>2, <3>1
  <2> QED
    BY <2>1, <2>2
<1>11. NewIsPrivate'
  BY <1>8, <1>10, Parts DEF NewIsPrivate
<1>12. NoOrphanTimer' /\ ActiveHasRecord'
  BY <1>8 DEF NoOrphanTimer, ActiveHasRecord, IInv
<1> QED
  BY <1>9, <1>11, <1>12 DEF IInv

-----------------------------------------------------------------------------
(* The invariant *)

\* The invariant holds before anything is created.
LEMMA InitIInv ==
  ASSUME Init
  PROVE  IInv
<1>1. GoodProcs(proc) /\ \A x \in Procs : proc[x] = Idle
  BY IdleIsGood DEF Init, GoodProcs
<1>2. TypeInv
  BY <1>1, IdleIsGood, ManagerAssumption DEF Init, TypeInv, TypeOK, GoodProcs
<1>3. NoOrphanTimer
  BY <1>1, IdleIsGood DEF NoOrphanTimer, Procs
<1>4. ActiveHasRecord /\ NewIsPrivate
  BY <1>1, IdleIsGood DEF Init, ActiveHasRecord, NewIsPrivate
<1> QED
  BY <1>2, <1>3, <1>4 DEF IInv

\* Every step keeps the invariant.
LEMMA NextIInv ==
  ASSUME IInv, [Next]_vars
  PROVE  IInv'
<1>1. CASE UNCHANGED vars
  BY <1>1 DEF vars, redis, bounds, IInv, TypeInv, TypeOK, KnownJob, NoOrphanTimer,
             ActiveHasRecord, NewIsPrivate
<1>2. CASE Work
  <2>1. ASSUME NEW x \in Procs, ProcStep(x)
        PROVE  IInv'
    BY <2>1, ReadKeeps, WriteKeeps, CheckKeeps, RemoveRulesKeeps, InstallRulesKeeps,
       DropKeeps, EmitKeeps DEF ProcStep
  <2>2. ASSUME NEW x \in Clients, ClientStep(x)
        PROVE  IInv'
    BY <2>2, OpenKeeps, RereadKeeps, AddToActiveKeeps DEF ClientStep, Procs
  <2>3. ASSUME NEW h \in Handlers, TakeJob(h) \/ JobDone(h)
        PROVE  IInv'
    BY <2>3, TakeJobKeeps, ReleasedKeeps
  <2>4. ASSUME NEW t \in Timers, Look(t)
        PROVE  IInv'
    BY <2>4, LookKeeps
  <2> QED
    BY <1>2, <2>1, <2>2, <2>3, <2>4, BootKeeps, BootLoadKeeps DEF Work
<1>3. ASSUME NEW x \in Clients, NEW p \in Pids,
             Message(x, p) \/ \E l \in Lives : Create(x, p, l)
      PROVE  IInv'
  BY <1>3, MessageKeeps, CreateKeeps
<1>4. ASSUME NEW t \in Timers, TimerFires(t)
      PROVE  IInv'
  BY <1>4, TimerFiresKeeps
<1>5. ASSUME NEW h \in Handlers, JobTimeout(h)
      PROVE  IInv'
  BY <1>5, ReleasedKeeps
<1> QED
  BY <1>1, <1>2, <1>3, <1>4, <1>5, CrashKeeps DEF Next

\* The inductive invariant holds in every state.
THEOREM Invariance == Spec => []IInv
BY InitIInv, NextIInv, PTL DEF Spec

\* Every state is well formed: in particular a process always finds in its frame
\* what its code uses, and a job of the queue is about a policy that was created.
THEOREM TypeCorrect == Spec => []TypeOK
<1>1. IInv => TypeOK
  BY DEF IInv, TypeInv
<1> QED
  BY <1>1, Invariance, PTL

\* A policy that is listed has a record that can be loaded, in whatever order the
\* accesses of clients, handlers, timeouts and a boot to redis come: savePolicy
\* writes the record before the list, deletePolicy both at once, and
\* updatePolicyAsync may bring a record back but never lists it.
THEOREM ListedIsLoadable == Spec => []ActiveHasRecord
<1>1. IInv => ActiveHasRecord
  BY DEF IInv
<1> QED
  BY <1>1, Invariance, PTL

\* A timeout that is armed is in enabledTimers, under its policy: unenforce and a
\* later enforce always find the timeout they have to clear.
THEOREM ArmedIsRecorded == Spec => []NoOrphanTimer
<1>1. IInv => NoOrphanTimer
  BY DEF IInv
<1> QED
  BY <1>1, Invariance, PTL

-----------------------------------------------------------------------------
(* What a restart brings back *)

\* Queue qs holds no job about p, or just this one.
NoJob(qs, p) == \A i \in 1 .. Len(qs) : qs[i].pid # p
OnlyJob(qs, p, job) == \E i \in 1 .. Len(qs) :
                          /\ qs[i] = job
                          /\ \A j \in 1 .. Len(qs) : qs[j].pid = p => j = i

\* No process works for p, or x alone does.
Nobody(p) == \A x \in Procs : proc[x].pid # p
Alone(p, x) == proc[x].pid = p /\ \A y \in Procs \ {x} : proc[y].pid # p

\* The rules of p are in the kernel exactly when p is listed and enabled.
Right(p) == kernel[p] <=> p \in active /\ ~record[p].disabled

\* Frame f is one of the ways enforce takes with a policy whose record is r.
OnTrack(f, r) ==
    \/ /\ f.pc \in {"read", "write"} /\ f.pol = r /\ (f.pc = "write" => f.snap = r)
       /\ \/ f.patch = "enable" /\ f.then = "emit" /\ f.job = "enforce"
          \/ f.patch = "disable" /\ f.then \in {"drop", "idle"} /\ ~r.disabled
          \/ f.patch = "touch" /\ f.then = "install" /\ ~r.disabled
    \/ f.pc = "emit" /\ f.job = "enforce" /\ f.pol = r /\ ~r.disabled
    \/ f.pc = "drop"
    \/ f.pc = "install" /\ f.pol = r /\ ~r.disabled

\* How far FireMain has got with a policy nobody has changed since it restarted:
\* it has not loaded it yet, it has nothing to do for it, its job is queued, a
\* handler is at it, or its timeout is armed.
Unloaded(p) == fireMain = "listening" /\ NoJob(queue, p) /\ Nobody(p) /\ ~kernel[p]
Done(p) == /\ fireMain = "running" /\ NoJob(queue, p) /\ Nobody(p) /\ Right(p)
           /\ ~(p \in active /\ record[p].disabled /\ record[p].idle)
Ahead(p) == /\ fireMain = "running" /\ p \in active /\ Nobody(p) /\ ~kernel[p]
            /\ record[p].disabled => record[p].idle
            /\ OnlyJob(queue, p, JobOf("enforce", p, record[p], None))
AtWork(p) == /\ fireMain = "running" /\ p \in active /\ NoJob(queue, p) /\ ~kernel[p]
             /\ \E h \in Handlers : Alone(p, h) /\ OnTrack(proc[h], record[p])
Waits(p) == /\ fireMain = "running" /\ NoJob(queue, p) /\ Right(p)
            /\ \E t \in Timers : Alone(p, t) /\ proc[t].pc = "armed"
Phase(p) == Unloaded(p) \/ Done(p) \/ Ahead(p) \/ AtWork(p) \/ Waits(p)

\* A process without work is no policy's, and a timeout is that of one policy.
Tidy(pr, timers) ==
    /\ \A x \in Procs : pr[x].pc = "idle" => pr[x].pid = None
    /\ \A p, q \in Pids : timers[p] = timers[q] /\ timers[p] # None => p = q

\* A policy that is idle is disabled: only a pause sets either.
Paused(r) == r.idle => r.disabled

\* A client neither installs nor removes rules.
ClientAt(f) ==
    /\ f.pc \in {"idle", "zadd", "open", "read", "write", "reread", "drop", "emit"}
    /\ f.pc \in {"open", "read", "write"} => f.then \in {"emit", "drop", "reread"}

Base ==
    /\ Tidy(proc, enabledTimers)
    /\ \A x \in Clients : ClientAt(proc[x])
    /\ \A p \in Pids : record[p] # None => Paused(record[p])
    /\ \A x \in Procs : proc[x].pc = "write" => Paused(proc[x].snap)
    /\ \A x \in Clients : proc[x].pid \in touched \cup {None}
    /\ fireMain = "down" => \A x \in Procs \ Clients : proc[x].pc = "idle"

Healing == crashes > 0 /\ fireMain # "down" => \A p \in Pids \ touched : Phase(p)

HealInv == IInv /\ Base /\ Healing

\* What a step of process x for policy q does to the processes: it changes only
\* processes of q, and of these x and, unless x is a client's, timeouts.
Turns(q, x) ==
    /\ \A y \in Procs : proc'[y] # proc[y] =>
         /\ y = x \/ (y \in Timers /\ x \notin Clients)
         /\ proc[y].pid \in {q, None} /\ proc'[y].pid \in {q, None}
         /\ proc'[y].pc = "write" => Paused(proc'[y].snap)
    /\ Tidy(proc', enabledTimers')
    /\ x \in Clients => ClientAt(proc'[x])

\* What it does to the rest.
Moves(q, x) ==
    /\ Turns(q, x)
    /\ x \in Clients => q \in touched'
    /\ x \notin Clients => fireMain # "down"
    /\ UNCHANGED <<fireMain, crashes>> /\ touched \subseteq touched'
    /\ \A p \in Pids \ {q} : /\ record'[p] = record[p] /\ kernel'[p] = kernel[p]
                             /\ p \in active' <=> p \in active
    /\ record'[q] # None => Paused(record'[q])
    /\ \/ queue' = queue
       \/ \E job \in Job : job.pid = q /\ queue' = Append(queue, job)
       \/ queue # <<>> /\ Head(queue).pid = q /\ queue' = Tail(queue)

-----------------------------------------------------------------------------
(* Queues *)

\* A job about another policy changes nothing for p.
LEMMA AppendOther ==
  ASSUME NEW qs \in Seq(Job), NEW p, NEW job \in Job, job.pid # p
  PROVE  /\ NoJob(qs, p) => NoJob(Append(qs, job), p)
         /\ \A j : OnlyJob(qs, p, j) => OnlyJob(Append(qs, job), p, j)
<1> DEFINE n == Len(qs)
           rs == Append(qs, job)
<1>1. /\ n \in Nat /\ Len(rs) = n + 1
      /\ \A i \in 1 .. n + 1 : rs[i] = IF i <= n THEN qs[i] ELSE job
  OBVIOUS
<1> HIDE DEF rs, n
<1>2. \A i \in 1 .. n + 1 : i \in 1 .. n \/ i = n + 1
  BY <1>1
<1>3. NoJob(qs, p) => NoJob(rs, p)
  BY <1>1, <1>2 DEF NoJob, n
<1>4. ASSUME NEW j, OnlyJob(qs, p, j) PROVE OnlyJob(rs, p, j)
  <2>1. PICK i \in 1 .. n : qs[i] = j /\ \A k \in 1 .. n : qs[k].pid = p => k = i
    BY <1>4 DEF OnlyJob, n
  <2>2. i \in 1 .. n + 1 /\ rs[i] = j
    BY <1>1, <2>1
  <2>3. \A k \in 1 .. n + 1 : rs[k].pid = p => k = i
    BY <1>1, <1>2, <2>1
  <2> QED
    BY <1>1, <2>2, <2>3 DEF OnlyJob
<1> QED
  BY <1>3, <1>4 DEF rs

\* A job joins a queue that has none about its policy.
LEMMA AppendOwn ==
  ASSUME NEW qs \in Seq(Job), NEW job \in Job, NoJob(qs, job.pid)
  PROVE  OnlyJob(Append(qs, job), job.pid, job)
<1> DEFINE n == Len(qs)
           rs == Append(qs, job)
<1>1. /\ n \in Nat /\ Len(rs) = n + 1
      /\ \A i \in 1 .. n + 1 : rs[i] = IF i <= n THEN qs[i] ELSE job
  OBVIOUS
<1> HIDE DEF rs, n
<1>2. rs[n + 1] = job /\ n + 1 \in 1 .. n + 1
  BY <1>1
<1>3. \A k \in 1 .. n + 1 : rs[k].pid = job.pid => k = n + 1
  BY <1>1 DEF NoJob, n
<1>4. OnlyJob(rs, job.pid, job)
  BY <1>1, <1>2, <1>3 DEF OnlyJob
<1> QED
  BY <1>4 DEF rs

\* The first job is taken. If it is about another policy, nothing changes for p.
LEMMA TailKeeps ==
  ASSUME NEW qs \in Seq(Job), qs # <<>>, NEW p
  PROVE  /\ Head(qs) = qs[1] /\ 1 \in 1 .. Len(qs)
         /\ NoJob(qs, p) => NoJob(Tail(qs), p)
         /\ \A j : OnlyJob(qs, p, j) /\ j.pid = p /\ Head(qs).pid # p
                     => OnlyJob(Tail(qs), p, j)
         /\ \A j : OnlyJob(qs, p, j) /\ Head(qs).pid = p => Head(qs) = j /\ NoJob(Tail(qs), p)
<1> DEFINE n == Len(qs)
           rs == Tail(qs)
<1>1. /\ n \in Nat \ {0} /\ Len(rs) = n - 1 /\ Head(qs) = qs[1]
      /\ \A i \in 1 .. n - 1 : rs[i] = qs[i + 1]
  BY EmptySeq, HeadTailProperties
<1> HIDE DEF rs, n
<1>2. 1 \in 1 .. n /\ \A i \in 1 .. n - 1 : i + 1 \in 1 .. n /\ i + 1 # 1
  BY <1>1
<1>3. NoJob(qs, p) => NoJob(rs, p)
  BY <1>1, <1>2 DEF NoJob, n
<1>4. ASSUME NEW j, OnlyJob(qs, p, j), j.pid = p, qs[1].pid # p PROVE OnlyJob(rs, p, j)
  <2>1. PICK i \in 1 .. n : qs[i] = j /\ \A k \in 1 .. n : qs[k].pid = p => k = i
    BY <1>4 DEF OnlyJob, n
  <2>2. i # 1
    BY <1>4, <2>1
  <2>3. i - 1 \in 1 .. n - 1 /\ rs[i - 1] = j
    BY <1>1, <2>1, <2>2
  <2>4. \A k \in 1 .. n - 1 : rs[k].pid = p => k = i - 1
    BY <1>1, <1>2, <2>1
  <2> QED
    BY <1>1, <2>3, <2>4 DEF OnlyJob
<1>5. ASSUME NEW j, OnlyJob(qs, p, j), qs[1].pid = p PROVE qs[1] = j /\ NoJob(rs, p)
  <2>1. PICK i \in 1 .. n : qs[i] = j /\ \A k \in 1 .. n : qs[k].pid = p => k = i
    BY <1>5 DEF OnlyJob, n
  <2>2. i = 1
    BY <1>2, <1>5, <2>1
  <2> QED
    BY <1>1, <1>2, <2>1, <2>2 DEF NoJob
<1> QED
  BY <1>1, <1>2, <1>3, <1>4, <1>5 DEF rs, n

-----------------------------------------------------------------------------
(* What the steps for one policy do to the processes *)

\* A change leaves a policy that is idle disabled.
LEMMA PatchedIsPaused ==
  ASSUME NEW r \in Policy, NEW patch \in Patches, Paused(r)
  PROVE  Paused(Patched(r, patch))
<1>1. CASE patch \in {"pause", "enable", "disable", "touch"}
  BY <1>1 DEF Patched, Policy, Paused
<1>2. CASE patch \notin {"pause", "enable", "disable", "touch"}
  <2>1. Patched(r, patch) = [r EXCEPT !.life = patch]
    BY <1>2 DEF Patched
  <2> QED
    BY <2>1 DEF Policy, Paused
<1> QED
  BY <1>1, <1>2

\* Process x goes to a frame of its policy, or ends.
LEMMA GotoTurns ==
  ASSUME GoodProcs(proc), Tidy(proc, enabledTimers),
         NEW q, NEW x \in Procs, proc[x].pid \in {q, None}, NEW f, f.pid \in {q, None},
         f.pc = "idle" => f.pid = None, f.pc = "write" => Paused(f.snap),
         x \in Clients => ClientAt(f), Goto(x, f), UNCHANGED enabledTimers
  PROVE  Turns(q, x)
<1>1. \A y \in Procs : proc'[y] = IF y = x THEN f ELSE proc[y]
  BY DEF Goto, GoodProcs
<1> QED
  BY <1>1 DEF Turns, Tidy

LEMMA EndTurns ==
  ASSUME GoodProcs(proc), Tidy(proc, enabledTimers),
         NEW q, NEW x \in Procs, proc[x].pid \in {q, None},
         Goto(x, Idle), UNCHANGED enabledTimers
  PROVE  Turns(q, x)
<1>1. ClientAt(Idle)
  BY IdleIsGood DEF ClientAt
<1> QED
  BY <1>1, IdleIsGood, GotoTurns

\* Clearing the timeout recorded for q changes no process of another policy.
LEMMA InvalidatedTurns ==
  ASSUME NEW pr, GoodProcs(pr), Recorded(pr, enabledTimers), Tidy(pr, enabledTimers),
         enabledTimers \in TimerTable, NEW q \in Pids
  PROVE  /\ \A y \in Procs : \/ Invalidated(pr, q)[y] = pr[y]
                             \/ /\ Invalidated(pr, q)[y] = Idle
                                /\ y \in Timers /\ pr[y].pid = q
         /\ DOMAIN Invalidated(pr, q) = Procs
         /\ Tidy(Invalidated(pr, q), enabledTimers)
<1> DEFINE qr == Invalidated(pr, q)
<1>0. DOMAIN pr = Procs
  BY DEF GoodProcs
<1>1. /\ qr = [y \in Procs |-> IF y = enabledTimers[q] /\ pr[y].pc = "armed" THEN Idle ELSE pr[y]]
      /\ None \notin Procs /\ enabledTimers[q] \in Timers \cup {None}
  BY ManagerAssumption DEF Invalidated, ClearTimeout, TimerTable, Procs
<1>2. ASSUME NEW y \in Procs, qr[y] # pr[y]
      PROVE  qr[y] = Idle /\ y \in Timers /\ pr[y].pid = q
  <2>1. y = enabledTimers[q] /\ pr[y].pc = "armed" /\ qr[y] = Idle /\ y \in Timers
    BY <1>1, <1>2
  <2>2. pr[y].pid \in Pids /\ enabledTimers[pr[y].pid] = y
    BY <2>1 DEF GoodProcs, Good, Recorded
  <2> QED
    BY <1>1, <2>1, <2>2 DEF Tidy
<1>3. Tidy(qr, enabledTimers)
  <2> HIDE DEF qr
  <2> QED
    BY <1>2, IdleIsGood DEF Tidy
<1> QED
  BY <1>1, <1>2, <1>3

\* A timeout is armed for q by a handler that works for q, and is done.
LEMMA ArmTurns ==
  ASSUME GoodProcs(proc), Recorded(proc, enabledTimers), enabledTimers \in TimerTable,
         Tidy(proc, enabledTimers),
         NEW x \in Procs, x \notin Clients, NEW q \in Pids, proc[x].pid \in {q, None},
         NEW pol, Arm([proc EXCEPT ![x] = Idle], q, pol)
  PROVE  /\ Turns(q, x)
         /\ \E t \in Timers :
               /\ proc'[t].pc = "armed" /\ proc'[t].pid = q
               /\ \A y \in Procs \ {t} : y = x \/ proc[y].pid # q => proc'[y].pid # q
<1> DEFINE pr == [proc EXCEPT ![x] = Idle]
           qr == Invalidated(pr, q)
           g == [Idle EXCEPT !.pc = "armed", !.pid = q, !.pol = pol]
<1>1. /\ \A y \in Procs : pr[y] = IF y = x THEN Idle ELSE proc[y]
      /\ GoodProcs(pr)
  BY IdleIsGood DEF GoodProcs
<1>2. Recorded(pr, enabledTimers) /\ Tidy(pr, enabledTimers)
  <2> HIDE DEF pr
  <2> QED
    BY <1>1, IdleIsGood DEF Recorded, Tidy, Procs
<1>3. PICK t \in Timers : /\ pr[t].pc = "idle"
                          /\ \A p \in Pids : enabledTimers[p] # t
                          /\ proc' = [qr EXCEPT ![t] = g]
                          /\ enabledTimers' = [enabledTimers EXCEPT ![q] = t]
  BY DEF Arm
<1> HIDE DEF pr
<1>4. /\ \A y \in Procs : qr[y] = pr[y] \/ (qr[y] = Idle /\ y \in Timers /\ pr[y].pid = q)
      /\ DOMAIN qr = Procs /\ Tidy(qr, enabledTimers)
  BY <1>1, <1>2, InvalidatedTurns
<1> HIDE DEF qr
<1>5. g.pc = "armed" /\ g.pid = q
  BY DEF Idle
<1>6. t \in Procs /\ \A y \in Procs : proc'[y] = IF y = t THEN g ELSE qr[y]
  BY <1>3, <1>4 DEF Procs
<1> HIDE DEF g
<1>7. proc[t].pid \in {q, None}
  BY <1>1, <1>3, <1>6 DEF Tidy
<1>8. ASSUME NEW y \in Procs, proc'[y] # proc[y]
      PROVE  /\ y = x \/ y \in Timers
             /\ proc[y].pid \in {q, None} /\ proc'[y].pid \in {q, None}
             /\ proc'[y].pc # "write"
  <2>1. CASE y = t
    BY <1>5, <1>6, <1>7, <2>1
  <2>2. CASE y # t /\ y = x
    BY <1>1, <1>4, <1>6, <2>2, IdleIsGood
  <2>3. CASE y # t /\ y # x
    BY <1>1, <1>4, <1>6, <1>8, <2>3, IdleIsGood
  <2> QED
    BY <2>1, <2>2, <2>3
<1>9. Tidy(proc', enabledTimers')
  <2>1. \A y \in Procs : proc'[y].pc = "idle" => proc'[y].pid = None
    BY <1>4, <1>5, <1>6 DEF Tidy
  <2>2. \A p \in Pids : enabledTimers'[p] = IF p = q THEN t ELSE enabledTimers[p]
    BY <1>3 DEF TimerTable
  <2>3. \A p, r \in Pids : enabledTimers'[p] = enabledTimers'[r] /\ enabledTimers'[p] # None
                              => p = r
    BY <1>3, <2>2 DEF Tidy
  <2> QED
    BY <2>1, <2>3 DEF Tidy
<1>10. ASSUME NEW y \in Procs \ {t}, y = x \/ proc[y].pid # q
       PROVE  proc'[y].pid # q
  <2>1. q # None
    BY ManagerAssumption
  <2> QED
    BY <1>1, <1>4, <1>6, <1>10, <2>1, IdleIsGood
<1> QED
  BY <1>5, <1>6, <1>8, <1>9, <1>10 DEF Turns

\* unenforce in a handler or a timeout that works for q.
LEMMA UnenforceTurns ==
  ASSUME GoodProcs(proc), Recorded(proc, enabledTimers), enabledTimers \in TimerTable,
         Tidy(proc, enabledTimers),
         NEW x \in Procs, x \notin Clients, NEW q \in Pids, proc[x].pid \in {q, None},
         NEW pol, NEW next, Unenforce(x, q, pol, next)
  PROVE  Turns(q, x)
<1> DEFINE qr == Invalidated(proc, q)
           g == [Idle EXCEPT !.pc = "check", !.pid = q, !.pol = pol, !.next = next]
<1>1. /\ proc' = [qr EXCEPT ![x] = g]
      /\ enabledTimers' = [enabledTimers EXCEPT ![q] = None]
  BY DEF Unenforce
<1>2. /\ \A y \in Procs : qr[y] = proc[y] \/ (qr[y] = Idle /\ y \in Timers /\ proc[y].pid = q)
      /\ DOMAIN qr = Procs /\ Tidy(qr, enabledTimers)
  BY InvalidatedTurns
<1>3. g.pc = "check" /\ g.pid = q
  BY DEF Idle
<1> HIDE DEF qr, g
<1>4. \A y \in Procs : proc'[y] = IF y = x THEN g ELSE qr[y]
  BY <1>1, <1>2
<1>5. Tidy(proc', enabledTimers')
  <2>1. \A p \in Pids : enabledTimers'[p] = IF p = q THEN None ELSE enabledTimers[p]
    BY <1>1 DEF TimerTable
  <2> QED
    BY <1>2, <1>3, <1>4, <2>1 DEF Tidy
<1> QED
  BY <1>2, <1>3, <1>4, <1>5, IdleIsGood DEF Turns

\* enforce in a handler that works for q.
LEMMA EnforceTurns ==
  ASSUME GoodProcs(proc), Recorded(proc, enabledTimers), enabledTimers \in TimerTable,
         Tidy(proc, enabledTimers),
         NEW h \in Handlers, NEW q \in Pids, proc[h].pid \in {q, None},
         NEW pol \in Policy, Enforce(h, q, pol)
  PROVE  Turns(q, h)
<1> DEFINE f == [Idle EXCEPT !.pid = q, !.pol = pol]
<1>1. h \in Procs /\ h \notin Clients
  BY ManagerAssumption DEF Procs
<1>2. f \in Frame /\ f.pid = q
  BY DEF Idle, Frame, Points
<1>3. ASSUME NEW g, Goto(h, g), UNCHANGED enabledTimers, g = Idle \/ (g.pc = "read" /\ g.pid = q)
      PROVE  Turns(q, h)
  BY <1>1, <1>3, GotoTurns, IdleIsGood
<1>4. CASE Goto(h, Idle) /\ UNCHANGED enabledTimers
  BY <1>3, <1>4
<1>5. CASE Arm([proc EXCEPT ![h] = Idle], q, pol)
  BY <1>1, <1>5, ArmTurns
<1>6. CASE /\ Goto(h, [Update(f, "enable", "emit") EXCEPT !.job = "enforce"])
           /\ UNCHANGED enabledTimers
  <2> DEFINE g == [Update(f, "enable", "emit") EXCEPT !.job = "enforce"]
  <2>1. g.pc = "read" /\ g.pid = q
    BY <1>2, UpdateToEmitGoes DEF Patches, Actions
  <2>2. Goto(h, g)
    BY <1>6
  <2> HIDE DEF g
  <2> QED
    BY <1>3, <1>6, <2>1, <2>2
<1>7. ASSUME NEW patch \in {"disable", "touch"}, NEW then \in {"drop", "idle", "install"},
             Goto(h, Update(f, patch, then)), UNCHANGED enabledTimers
      PROVE  Turns(q, h)
  <2> DEFINE g == Update(f, patch, then)
  <2>1. g.pc = "read" /\ g.pid = q
    <3>1. patch \in Patches /\ then \in {"idle", "drop", "reread", "install", "remove"}
      BY <1>7 DEF Patches
    <3> HIDE DEF f
    <3> QED
      BY <1>2, <3>1, UpdateGoes
  <2>2. Goto(h, g)
    BY <1>7
  <2> HIDE DEF g
  <2> QED
    BY <1>3, <1>7, <2>1, <2>2
<1> QED
  BY <1>4, <1>5, <1>6, <1>7 DEF Enforce

-----------------------------------------------------------------------------
(* The steps, as seen from other policies *)

\* What is given in a state of the invariant about a process that is at work.
LEMMA Worker ==
  ASSUME IInv, Base, NEW x \in Procs, proc[x].pc # "idle"
  PROVE  /\ proc[x] \in Frame /\ Good(x, proc[x])
         /\ proc[x].pid \in Pids /\ proc[x].pid # None
         /\ x \in Clients => proc[x].pid \in touched /\ ClientAt(proc[x])
         /\ x \notin Clients => fireMain # "down"
<1>1. Good(x, proc[x]) /\ proc[x] \in Frame /\ proc[x].pid \in Pids /\ proc[x].pid # None
  BY Parts, ManagerAssumption DEF GoodProcs, Good
<1> QED
  BY <1>1 DEF Base

\* updatePolicyAsync, and what follows it when the record is gone.
LEMMA ReadMoves ==
  ASSUME IInv, Base, NEW x \in Procs, Read(x)
  PROVE  Moves(proc[x].pid, x)
<1> DEFINE f == proc[x]
           g == [f EXCEPT !.pc = "write", !.snap = record[f.pid]]
<1>1. f.pc = "read"
  BY DEF Read
<1>2. Turns(f.pid, x)
  <2>1. CASE record[f.pid] # None /\ Goto(x, g) /\ UNCHANGED enabledTimers
    <3>1. /\ g.pc = "write" /\ g.pid = f.pid /\ Paused(g.snap)
          /\ x \in Clients => ClientAt(g)
      BY <1>1, <2>1, Worker DEF Base, Frame, ClientAt
    <3> HIDE DEF g
    <3> QED
      BY <2>1, <3>1, Parts, GotoTurns DEF Base
  <2>2. CASE Thrown(x)
    <3>1. CASE x \in Handlers /\ f.then = "remove" /\ f.next # None
      <4>1. f.next \in Policy /\ f.pid \in Pids
        BY <1>1, <3>1, Worker DEF Frame
      <4>2. Enforce(x, f.pid, f.next)
        BY <2>2, <3>1 DEF Thrown
      <4> QED
        BY <3>1, <4>1, <4>2, Parts, EnforceTurns DEF Base
    <3>2. CASE ~(x \in Handlers /\ f.then = "remove" /\ f.next # None)
      <4>1. Goto(x, Idle) /\ UNCHANGED enabledTimers
        BY <2>2, <3>2 DEF Thrown
      <4> QED
        BY <4>1, Parts, EndTurns DEF Base
    <3> QED
      BY <3>1, <3>2
  <2> QED
    BY <2>1, <2>2 DEF Read
<1> QED
  BY <1>1, <1>2, Worker DEF Moves, Read, redis, bounds, Base

LEMMA WriteMoves ==
  ASSUME IInv, Base, NEW x \in Procs, Write(x)
  PROVE  Moves(proc[x].pid, x)
<1> DEFINE f == proc[x]
           g == [f EXCEPT !.pc = f.then, !.snap = None,
                          !.pol = IF f.then = "reread" THEN @ ELSE Patched(@, f.patch)]
<1>1. f.pc = "write" /\ f \in Frame /\ Good(x, f)
  BY Worker DEF Write
<1>2. Paused(Written(f))
  BY <1>1, PatchedIsPaused DEF Good, Base, Written
<1>3. Turns(f.pid, x)
  <2>1. CASE f.then = "idle"
    BY <2>1, Parts, EndTurns DEF Base, Write
  <2>2. CASE f.then # "idle"
    <3>1. /\ g.pid = f.pid /\ g.pc = f.then /\ f.then \notin {"idle", "write"}
          /\ x \in Clients => ClientAt(g)
      BY <1>1, <2>2, Worker DEF Frame, Good, ClientAt
    <3>2. Goto(x, g) /\ UNCHANGED enabledTimers
      BY <2>2 DEF Write
    <3> HIDE DEF g
    <3> QED
      BY <3>1, <3>2, Parts, GotoTurns DEF Base
  <2> QED
    BY <2>1, <2>2
<1>4. record' = [record EXCEPT ![f.pid] = Written(f)] /\ f.pid \in Pids
  BY <1>1, Worker DEF Write
<1>5. record'[f.pid] = Written(f) /\ \A p \in Pids \ {f.pid} : record'[p] = record[p]
  BY <1>4, Parts
<1> HIDE DEF f
<1> QED
  BY <1>1, <1>2, <1>3, <1>5, Worker DEF Moves, Write, bounds, f

\* The other steps of a process, each for its own policy.
LEMMA CheckMoves ==
  ASSUME IInv, Base, NEW x \in Procs, Check(x)
  PROVE  Moves(proc[x].pid, x)
<1> DEFINE f == proc[x]
<1>1. f.pc = "check" /\ f \in Frame /\ x \notin Clients
  BY Worker DEF Check, ClientAt
<1>2. PICK g : Goto(x, g) /\ g.pid = f.pid /\ g.pc \in {"read", "remove"}
  <2>1. [f EXCEPT !.pc = "remove"].pid = f.pid /\ [f EXCEPT !.pc = "remove"].pc = "remove"
    BY <1>1 DEF Frame
  <2>2. Update(f, "touch", "remove").pc = "read" /\ Update(f, "touch", "remove").pid = f.pid
    BY <1>1, UpdateGoes DEF Patches
  <2> QED
    BY <2>1, <2>2 DEF Check
<1>3. Turns(f.pid, x)
  BY <1>1, <1>2, Parts, GotoTurns DEF Base, Check
<1> QED
  BY <1>1, <1>3, Worker DEF Moves, Check, redis, bounds, Base

LEMMA RemoveRulesMoves ==
  ASSUME IInv, Base, NEW x \in Procs, RemoveRules(x)
  PROVE  Moves(proc[x].pid, x)
<1> DEFINE f == proc[x]
<1>1. f.pc = "remove" /\ f \in Frame /\ f.pid \in Pids /\ x \notin Clients
  BY Worker DEF RemoveRules, ClientAt
<1>2. Turns(f.pid, x)
  <2>1. CASE x \in Handlers /\ f.next # None /\ Enforce(x, f.pid, f.next)
    <3>1. f.next \in Policy
      BY <1>1, <2>1 DEF Frame
    <3> QED
      BY <1>1, <2>1, <3>1, Parts, EnforceTurns DEF Base
  <2>2. CASE Goto(x, Idle) /\ UNCHANGED enabledTimers
    BY <2>2, Parts, EndTurns DEF Base
  <2>3. ASSUME NEW then \in {"drop", "idle"}, Goto(x, Update(f, "disable", then)),
               UNCHANGED enabledTimers
        PROVE  Turns(f.pid, x)
    <3> DEFINE g == Update(f, "disable", then)
    <3>1. g.pc = "read" /\ g.pid = f.pid
      <4>1. then \in {"idle", "drop", "reread", "install", "remove"}
        BY <2>3
      <4> QED
        BY <1>1, <4>1, UpdateGoes DEF Patches
    <3>2. Goto(x, g)
      BY <2>3
    <3> HIDE DEF g
    <3> QED
      BY <1>1, <2>3, <3>1, <3>2, Parts, GotoTurns DEF Base
  <2> QED
    BY <2>1, <2>2, <2>3 DEF RemoveRules
<1>3. \A p \in Pids \ {f.pid} : kernel'[p] = kernel[p]
  BY <1>1 DEF RemoveRules, IInv, TypeInv, TypeOK
<1> QED
  BY <1>1, <1>2, <1>3, Worker DEF Moves, RemoveRules, redis, bounds, Base

LEMMA InstallRulesMoves ==
  ASSUME IInv, Base, NEW x \in Procs, InstallRules(x)
  PROVE  Moves(proc[x].pid, x)
<1> DEFINE f == proc[x]
<1>1. f.pc = "install" /\ f \in Frame /\ f.pid \in Pids /\ x \notin Clients
  BY Worker DEF InstallRules, ClientAt
<1>2. Turns(f.pid, x)
  <2>1. CASE Goto(x, Idle) /\ UNCHANGED enabledTimers
    BY <2>1, Parts, EndTurns DEF Base
  <2>2. CASE Arm([proc EXCEPT ![x] = Idle], f.pid, f.pol)
    BY <1>1, <2>2, Parts, ArmTurns DEF Base
  <2> QED
    BY <2>1, <2>2 DEF InstallRules
<1>3. \A p \in Pids \ {f.pid} : kernel'[p] = kernel[p]
  BY <1>1 DEF InstallRules, IInv, TypeInv, TypeOK
<1> QED
  BY <1>1, <1>2, <1>3, Worker DEF Moves, InstallRules, redis, bounds, Base

LEMMA DropMoves ==
  ASSUME IInv, Base, NEW x \in Procs, Drop(x)
  PROVE  Moves(proc[x].pid, x)
<1> DEFINE f == proc[x]
<1>1. f.pc = "drop" /\ f \in Frame /\ f.pid \in Pids
  BY Worker DEF Drop
<1>2. PICK g : /\ Goto(x, g)
               /\ g = Idle \/ (g.pid = f.pid /\ g.pc = "emit")
  <2>1. [f EXCEPT !.pc = "emit"].pid = f.pid /\ [f EXCEPT !.pc = "emit"].pc = "emit"
    BY <1>1 DEF Frame
  <2> QED
    BY <2>1 DEF Drop
<1>3. Turns(f.pid, x)
  BY <1>2, Parts, EndTurns, GotoTurns DEF Base, Drop, ClientAt
<1>4. /\ record' = [record EXCEPT ![f.pid] = None] /\ active' = active \ {f.pid}
      /\ UNCHANGED <<queue, fireMain, kernel, touched, crashes>>
  BY DEF Drop, Dropped, bounds
<1>5. /\ record'[f.pid] = None
      /\ \A p \in Pids \ {f.pid} : record'[p] = record[p] /\ (p \in active' <=> p \in active)
  BY <1>1, <1>4, Parts
<1> HIDE DEF f
<1> QED
  BY <1>1, <1>3, <1>4, <1>5, Worker DEF Moves, f

\* The queue gets a job about q, or none.
LEMMA EmittedMoves ==
  ASSUME IInv, NEW job \in Job, queue' = Emitted(job)
  PROVE  queue' = queue \/ \E j \in Job : j.pid = job.pid /\ queue' = Append(queue, j)
BY DEF Emitted

LEMMA EmitMoves ==
  ASSUME IInv, Base, NEW x \in Procs, Emit(x)
  PROVE  Moves(proc[x].pid, x)
<1> DEFINE f == proc[x]
           job == JobOf(f.job, f.pid, f.pol, None)
<1>1. f.pc = "emit" /\ f.pid \in Pids /\ f.pol \in Policy /\ f.job \in Actions
  BY Worker DEF Emit, Good, Holding
<1>2. Turns(f.pid, x)
  BY Parts, EndTurns DEF Base, Emit
<1>3. job \in Job /\ job.pid = f.pid
  BY <1>1 DEF JobOf, Job, Actions
<1>4. queue' = Emitted(job)
  BY DEF Emit
<1> HIDE DEF job
<1>5. queue' = queue \/ \E j \in Job : j.pid = f.pid /\ queue' = Append(queue, j)
  BY <1>3, <1>4, EmittedMoves
<1> QED
  BY <1>1, <1>2, <1>5, Worker DEF Moves, Emit, redis, bounds, Base

\* The steps of clients. Each is for a policy that has been touched.
LEMMA ClientMoves ==
  ASSUME IInv, Base, NEW x \in Clients, ClientStep(x)
  PROVE  Moves(proc[x].pid, x)
<1> DEFINE f == proc[x]
<1>1. x \in Procs /\ f.pc \in {"open", "reread", "zadd"}
  BY DEF ClientStep, Open, Reread, AddToActive, Procs
<1>2. /\ f \in Frame /\ Good(x, f) /\ f.pid \in Pids /\ f.pid \in touched /\ f.pid # None
      /\ ClientAt(f)
  BY <1>1, Worker
<1>3. ASSUME NEW g, Goto(x, g), UNCHANGED enabledTimers,
             g = Idle \/ (g.pid = f.pid /\ g.pc \notin {"idle", "write"} /\ ClientAt(g))
      PROVE  Turns(f.pid, x)
  BY <1>1, <1>3, Parts, EndTurns, GotoTurns DEF Base
<1>4. CASE Open(x)
  <2>1. PICK g : /\ Goto(x, g)
                 /\ \/ g = Idle
                    \/ g.pid = f.pid /\ g.pc \notin {"idle", "write"} /\ ClientAt(g)
    <3> DEFINE k == [f EXCEPT !.pc = IF f.then = "drop" THEN "drop" ELSE "read",
                              !.pol = record[f.pid]]
    <3>1. k.pid = f.pid /\ k.pc \in {"drop", "read"} /\ ClientAt(k)
      BY <1>2, <1>4 DEF Frame, ClientAt, Open
    <3>2. Goto(x, Idle) \/ Goto(x, k)
      BY <1>4 DEF Open
    <3> HIDE DEF k
    <3> QED
      BY <3>1, <3>2
  <2> QED
    BY <1>2, <1>3, <1>4, <2>1 DEF Open, Moves, redis, bounds, Base
<1>5. CASE Reread(x)
  <2> DEFINE job == JobOf("reenforce", f.pid, record[f.pid], f.pol)
  <2>1. queue' = queue \/ \E j \in Job : j.pid = f.pid /\ queue' = Append(queue, j)
    <3>1. CASE record[f.pid] # None
      <4>1. job \in Job /\ job.pid = f.pid
        BY <1>2, <1>5, <3>1, Parts DEF JobOf, Job, Reread, Good, Holding
      <4>2. queue' = Emitted(job)
        BY <1>5, <3>1 DEF Reread
      <4> HIDE DEF job
      <4> QED
        BY <4>1, <4>2, EmittedMoves
    <3>2. CASE record[f.pid] = None
      BY <1>5, <3>2 DEF Reread
    <3> QED
      BY <3>1, <3>2
  <2>2. Turns(f.pid, x)
    BY <1>3, <1>5 DEF Reread
  <2> QED
    BY <1>2, <1>5, <2>1, <2>2 DEF Reread, Moves, redis, bounds, Base
<1>6. CASE AddToActive(x)
  <2>1. [f EXCEPT !.pc = "emit"].pid = f.pid /\ [f EXCEPT !.pc = "emit"].pc = "emit"
    BY <1>2 DEF Frame
  <2>2. Turns(f.pid, x)
    BY <1>3, <1>6, <2>1 DEF AddToActive, ClientAt
  <2> QED
    BY <1>2, <1>6, <2>2 DEF AddToActive, Moves, bounds, Base
<1> QED
  BY <1>4, <1>5, <1>6 DEF ClientStep

LEMMA CreateMoves ==
  ASSUME IInv, Base, NEW x \in Clients, NEW q \in Pids, NEW l \in Lives, Create(x, q, l)
  PROVE  Moves(q, x) /\ q \in touched'
<1> DEFINE policy == [disabled |-> FALSE, idle |-> FALSE, life |-> l]
           g == [Idle EXCEPT !.pc = "zadd", !.pid = q, !.pol = policy, !.job = "enforce"]
<1>1. x \in Procs /\ proc[x].pc = "idle" /\ proc[x].pid = None
  BY DEF Create, Begins, Procs, Base, Tidy
<1>2. g.pc = "zadd" /\ g.pid = q /\ Paused(policy)
  BY DEF Idle, Paused
<1>3. Goto(x, g) /\ UNCHANGED enabledTimers /\ record' = [record EXCEPT ![q] = policy]
  BY DEF Create
<1> HIDE DEF g, policy
<1>4. Turns(q, x)
  BY <1>1, <1>2, <1>3, Parts, GotoTurns DEF Base, ClientAt
<1>5. record'[q] = policy /\ \A p \in Pids \ {q} : record'[p] = record[p]
  BY <1>3, Parts
<1> QED
  BY <1>2, <1>4, <1>5 DEF Moves, Create, Counted

LEMMA MessageMoves ==
  ASSUME IInv, Base, NEW x \in Clients, NEW q \in Pids, Message(x, q)
  PROVE  Moves(q, x) /\ q \in touched'
<1> DEFINE open == [Idle EXCEPT !.pc = "open", !.pid = q]
<1>1. x \in Procs /\ proc[x].pc = "idle" /\ proc[x].pid = None
  BY DEF Message, Begins, Procs, Base, Tidy
<1> DEFINE Opens(g) == g.pc = "open" /\ g.pid = q /\ ClientAt(g)
           Enables == [open EXCEPT !.patch = "enable", !.then = "emit", !.job = "enforce"]
           Disables == [open EXCEPT !.patch = "disable", !.then = "emit", !.job = "unenforce"]
           Deletes == [open EXCEPT !.then = "drop", !.job = "unenforce"]
           Edits(edit) == [open EXCEPT !.patch = edit, !.then = "reread", !.job = "reenforce"]
<1>2. PICK g : Goto(x, g) /\ Opens(g)
  <2>1. Opens(Enables) /\ Opens(Disables) /\ Opens(Deletes) /\ \A edit : Opens(Edits(edit))
    BY DEF Idle, ClientAt
  <2>2. \/ Goto(x, Enables) \/ Goto(x, Disables) \/ Goto(x, Deletes)
        \/ \E edit : Goto(x, Edits(edit))
    BY Zenon DEF Message
  <2> HIDE DEF Opens, Enables, Disables, Deletes, Edits
  <2> QED
    BY <2>1, <2>2
<1>3. UNCHANGED enabledTimers
  BY DEF Message
<1>4. Turns(q, x)
  BY <1>1, <1>2, <1>3, Parts, GotoTurns DEF Base
<1> QED
  BY <1>4 DEF Moves, Message, Counted, redis, Base

\* The timeouts.
LEMMA TimerMoves ==
  ASSUME IInv, Base, NEW t \in Timers, TimerFires(t) \/ Look(t)
  PROVE  Moves(proc[t].pid, t)
<1> DEFINE f == proc[t]
<1>1. t \in Procs /\ t \notin Clients /\ f.pc \in {"armed", "look"}
  BY ManagerAssumption DEF TimerFires, Look, Procs
<1>2. f \in Frame /\ f.pid \in Pids /\ fireMain # "down"
  BY <1>1, Worker
<1>3. Turns(f.pid, t)
  <2>1. CASE TimerFires(t)
    <3> DEFINE g == [Update(f, "enable", "emit") EXCEPT !.job = "enforce"]
               k == [f EXCEPT !.pc = "look"]
    <3>1. g.pid = f.pid /\ g.pc = "read" /\ k.pid = f.pid /\ k.pc = "look"
      BY <1>2, UpdateToEmitGoes DEF Frame, Patches, Actions
    <3>2. (Goto(t, g) \/ Goto(t, k)) /\ UNCHANGED enabledTimers
      BY <2>1 DEF TimerFires
    <3> HIDE DEF g, k
    <3> QED
      BY <1>1, <3>1, <3>2, Parts, GotoTurns DEF Base
  <2>2. CASE Goto(t, Idle) /\ UNCHANGED enabledTimers
    BY <1>1, <2>2, Parts, EndTurns DEF Base
  <2>3. CASE Unenforce(t, f.pid, record[f.pid], None)
    BY <1>1, <1>2, <2>3, Parts, UnenforceTurns DEF Base
  <2> QED
    BY <2>1, <2>2, <2>3 DEF Look
<1> QED
  BY <1>1, <1>2, <1>3 DEF Moves, TimerFires, Look, redis, bounds, Base

\* A job is taken from the queue.
LEMMA TakeJobMoves ==
  ASSUME IInv, Base, NEW h \in Handlers, TakeJob(h)
  PROVE  Moves(Head(queue).pid, h) /\ Head(queue).pid \in Pids
<1> DEFINE job == Head(queue)
           q == job.pid
<1>1. h \in Procs /\ h \notin Clients /\ proc[h].pid = None /\ fireMain # "down" /\ queue # <<>>
  BY ManagerAssumption DEF TakeJob, Procs, Base, Tidy
<1>2. job \in KnownJob
  BY <1>1, Parts, HeadTailProperties
<1>3. /\ q \in Pids /\ job.policy \in Policy
      /\ job.action = "reenforce" => job.oldPolicy \in Policy
  BY <1>2 DEF KnownJob, Job
<1>4. Turns(q, h)
  <2>1. CASE Enforce(h, q, job.policy)
    BY <1>1, <1>3, <2>1, Parts, EnforceTurns DEF Base
  <2>2. CASE Unenforce(h, q, job.policy, None)
    BY <1>1, <1>3, <2>2, Parts, UnenforceTurns DEF Base
  <2>3. CASE Unenforce(h, q, job.oldPolicy, job.policy)
    BY <1>1, <1>3, <2>3, Parts, UnenforceTurns DEF Base
  <2> QED
    BY <2>1, <2>2, <2>3 DEF TakeJob
<1> QED
  BY <1>1, <1>3, <1>4 DEF Moves, TakeJob, redis, bounds, Base
-----------------------------------------------------------------------------
(* What the steps for one policy keep of the others, and of the whole *)

LEMMA MovesKeepBase ==
  ASSUME IInv, Base, NEW x \in Procs, NEW q \in Pids, Moves(q, x)
  PROVE  Base'
<1>1. \A y \in Procs : y # x /\ (y \notin Timers \/ x \in Clients) => proc'[y] = proc[y]
  BY DEF Moves, Turns
<1>2. \A y \in Clients : y \in Procs /\ y \notin Timers
  BY ManagerAssumption DEF Procs
<1>3. \A y \in Clients : ClientAt(proc'[y])
  BY <1>1, <1>2 DEF Base, Moves, Turns
<1>4. \A p \in Pids : record'[p] # None => Paused(record'[p])
  BY DEF Base, Moves
<1>5. \A y \in Procs : proc'[y].pc = "write" => Paused(proc'[y].snap)
  BY DEF Base, Moves, Turns
<1>6. \A y \in Clients : proc'[y].pid \in touched' \cup {None}
  <2> TAKE y \in Clients
  <2>1. CASE y = x
    <3>1. proc'[x] # proc[x] => proc'[x].pid \in {q, None}
      BY DEF Moves, Turns
    <3> QED
      BY <2>1, <3>1 DEF Base, Moves
  <2>2. CASE y # x
    BY <1>1, <1>2, <2>2 DEF Base, Moves
  <2> QED
    BY <2>1, <2>2
<1>7. fireMain' = "down" => \A y \in Procs \ Clients : proc'[y].pc = "idle"
  BY <1>1 DEF Base, Moves
<1>8. Tidy(proc', enabledTimers')
  BY DEF Moves, Turns
<1> QED
  BY <1>3, <1>4, <1>5, <1>6, <1>7, <1>8 DEF Base

LEMMA OthersKeepPhase ==
  ASSUME IInv, NEW x \in Procs, NEW q \in Pids, Moves(q, x),
         NEW p \in Pids, p # q, Phase(p)
  PROVE  Phase(p)'
<1>1. /\ fireMain' = fireMain /\ kernel'[p] = kernel[p] /\ record'[p] = record[p]
      /\ p \in active' <=> p \in active
  BY DEF Moves
<1>2. \A y \in Procs : proc[y].pid = p \/ proc'[y].pid = p => proc'[y] = proc[y]
  <2>1. p \notin {q, None}
    BY ManagerAssumption
  <2> QED
    BY <2>1 DEF Moves, Turns
<1>3. /\ Nobody(p) => Nobody(p)'
      /\ \A y \in Procs : Alone(p, y) => Alone(p, y)' /\ proc'[y] = proc[y]
  BY <1>2 DEF Nobody, Alone
<1>4. /\ NoJob(queue, p) => NoJob(queue', p)
      /\ \A j : j.pid = p /\ OnlyJob(queue, p, j) => OnlyJob(queue', p, j)
  <2>1. queue \in Seq(Job)
    BY DEF IInv, TypeInv, TypeOK
  <2>2. CASE queue' = queue
    BY <2>2
  <2>3. ASSUME NEW job \in Job, job.pid = q, queue' = Append(queue, job)
        PROVE  <1>4!1 /\ <1>4!2
    BY <2>1, <2>3, AppendOther
  <2>4. CASE queue # <<>> /\ Head(queue).pid = q /\ queue' = Tail(queue)
    BY <2>1, <2>4, TailKeeps
  <2> QED
    BY <2>2, <2>3, <2>4 DEF Moves
<1>5. Right(p)' <=> Right(p)
  BY <1>1 DEF Right
<1>6. CASE Unloaded(p)
  BY <1>1, <1>3, <1>4, <1>6 DEF Unloaded, Phase
<1>7. CASE Done(p)
  BY <1>1, <1>3, <1>4, <1>5, <1>7 DEF Done, Phase
<1>8. CASE Ahead(p)
  <2>1. JobOf("enforce", p, record[p], None).pid = p
    BY DEF JobOf
  <2> QED
    BY <1>1, <1>3, <1>4, <1>8, <2>1 DEF Ahead, Phase
<1>9. CASE AtWork(p)
  <2>1. PICK h \in Handlers : Alone(p, h) /\ OnTrack(proc[h], record[p])
    BY <1>9 DEF AtWork
  <2>2. Alone(p, h)' /\ OnTrack(proc'[h], record'[p])
    BY <1>1, <1>3, <2>1 DEF Procs
  <2> QED
    BY <1>1, <1>4, <1>9, <2>2 DEF AtWork, Phase
<1>10. CASE Waits(p)
  <2>1. PICK t \in Timers : Alone(p, t) /\ proc[t].pc = "armed"
    BY <1>10 DEF Waits
  <2>2. Alone(p, t)' /\ proc'[t].pc = "armed"
    BY <1>3, <2>1 DEF Procs
  <2> QED
    BY <1>1, <1>4, <1>5, <1>10, <2>2 DEF Waits, Phase
<1> QED
  BY <1>6, <1>7, <1>8, <1>9, <1>10 DEF Phase
-----------------------------------------------------------------------------
(* The steps for a policy nobody has changed *)

\* The frames of updatePolicyAsync that enforce begins with.
LEMMA UpdateIsOnTrack ==
  ASSUME NEW p \in Pids, NEW r \in Policy
  PROVE  LET f == [Idle EXCEPT !.pid = p, !.pol = r] IN
         /\ OnTrack([Update(f, "enable", "emit") EXCEPT !.job = "enforce"], r)
         /\ [Update(f, "enable", "emit") EXCEPT !.job = "enforce"].pid = p
         /\ \A then \in {"drop", "idle"} :
               /\ ~r.disabled => OnTrack(Update(f, "disable", then), r)
               /\ Update(f, "disable", then).pid = p
         /\ ~r.disabled => OnTrack(Update(f, "touch", "install"), r)
         /\ Update(f, "touch", "install").pid = p
BY DEF OnTrack, Update, Idle

\* Only a handler that is at it does anything for a policy nobody has changed.
LEMMA AtWorkAlone ==
  ASSUME IInv, Base, NEW x \in Procs, NEW p \in Pids, proc[x].pid = p, p \notin touched,
         proc[x].pc \notin {"idle", "armed"}, Phase(p)
  PROVE  /\ x \in Handlers /\ x \notin Clients /\ x \notin Timers
         /\ AtWork(p) /\ Alone(p, x) /\ OnTrack(proc[x], record[p])
         /\ fireMain = "running" /\ p \in active /\ record[p] \in Policy /\ Paused(record[p])
         /\ NoJob(queue, p) /\ ~kernel[p]
<1>1. ~Nobody(p)
  BY DEF Nobody
<1>2. ~Waits(p)
  <2> SUFFICES ASSUME NEW t \in Timers, Alone(p, t), proc[t].pc = "armed" PROVE FALSE
    BY DEF Waits
  <2> QED
    BY DEF Alone
<1>3. AtWork(p)
  BY <1>1, <1>2 DEF Phase, Unloaded, Done, Ahead
<1>4. PICK h \in Handlers : Alone(p, h) /\ OnTrack(proc[h], record[p])
  BY <1>3 DEF AtWork
<1>5. h = x
  BY <1>4 DEF Alone
<1>6. x \notin Clients /\ x \notin Timers
  BY <1>4, <1>5, ManagerAssumption
<1>7. record[p] \in Policy /\ Paused(record[p])
  BY <1>3, Parts DEF AtWork, ActiveHasRecord, Base
<1> QED
  BY <1>3, <1>4, <1>5, <1>6, <1>7 DEF AtWork

\* Handler x goes to a frame on track, the rest stays.
LEMMA StaysAtWork ==
  ASSUME GoodProcs(proc), NEW x \in Handlers, NEW p \in Pids, NEW f,
         \A y \in Procs \ {x} : proc[y].pid # p,
         Goto(x, f), f.pid = p, OnTrack(f, record'[p]),
         fireMain' = "running", p \in active', NoJob(queue', p), ~kernel'[p]
  PROVE  Phase(p)'
<1>1. x \in Procs /\ \A y \in Procs : proc'[y] = IF y = x THEN f ELSE proc[y]
  BY DEF Goto, GoodProcs, Procs
<1>2. Alone(p, x)' /\ OnTrack(proc'[x], record'[p])
  BY <1>1 DEF Alone
<1> QED
  BY <1>2 DEF AtWork, Phase

\* Handler x is done.
LEMMA HandlerEnds ==
  ASSUME GoodProcs(proc), NEW x \in Handlers, NEW p \in Pids,
         \A y \in Procs \ {x} : proc[y].pid # p, Goto(x, Idle)
  PROVE  Nobody(p)'
BY IdleIsGood, ManagerAssumption DEF Goto, GoodProcs, Procs, Nobody

\* A timeout is armed.
LEMMA BeginsToWait ==
  ASSUME GoodProcs(proc), Recorded(proc, enabledTimers), enabledTimers \in TimerTable,
         Tidy(proc, enabledTimers),
         NEW x \in Handlers, NEW p \in Pids, proc[x].pid \in {p, None},
         \A y \in Procs \ {x} : proc[y].pid # p,
         NEW pol, Arm([proc EXCEPT ![x] = Idle], p, pol),
         fireMain' = "running", NoJob(queue', p), Right(p)'
  PROVE  Phase(p)'
<1>1. x \in Procs /\ x \notin Clients
  BY ManagerAssumption DEF Procs
<1>2. PICK t \in Timers : /\ proc'[t].pc = "armed" /\ proc'[t].pid = p
                          /\ \A y \in Procs \ {t} : y = x \/ proc[y].pid # p => proc'[y].pid # p
  BY <1>1, ArmTurns
<1>3. Alone(p, t)'
  BY <1>2 DEF Alone
<1> QED
  BY <1>2, <1>3 DEF Waits, Phase

LEMMA ReadHeals ==
  ASSUME IInv, Base, NEW x \in Procs, Read(x), NEW p \in Pids, proc[x].pid = p,
         p \notin touched, Phase(p)
  PROVE  Phase(p)'
<1> DEFINE f == proc[x]
           g == [f EXCEPT !.pc = "write", !.snap = record[f.pid]]
<1>1. f.pc = "read" /\ f \in Frame
  BY Worker DEF Read
<1>2. /\ x \in Handlers /\ Alone(p, x) /\ OnTrack(f, record[p])
      /\ fireMain = "running" /\ p \in active /\ record[p] \in Policy
      /\ NoJob(queue, p) /\ ~kernel[p]
  BY <1>1, AtWorkAlone
<1>3. Goto(x, g)
  BY <1>2, NoneAssumption DEF Read
<1>4. g.pid = p /\ OnTrack(g, record[p])
  BY <1>1, <1>2 DEF OnTrack, Frame
<1>5. UNCHANGED <<record, active, queue, fireMain, kernel>>
  BY DEF Read, redis
<1> HIDE DEF g, f
<1> QED
  BY <1>2, <1>3, <1>4, <1>5, Parts, StaysAtWork DEF Alone
LEMMA WriteHeals ==
  ASSUME IInv, Base, NEW x \in Procs, Write(x), NEW p \in Pids, proc[x].pid = p,
         p \notin touched, Phase(p)
  PROVE  Phase(p)'
<1> DEFINE f == proc[x]
           r == record[p]
           g == [f EXCEPT !.pc = f.then, !.snap = None,
                          !.pol = IF f.then = "reread" THEN @ ELSE Patched(@, f.patch)]
<1>1. f.pc = "write" /\ f \in Frame
  BY Worker DEF Write
<1>2. /\ x \in Handlers /\ Alone(p, x) /\ OnTrack(f, r)
      /\ fireMain = "running" /\ p \in active /\ r \in Policy /\ Paused(r)
      /\ NoJob(queue, p) /\ ~kernel[p]
  BY <1>1, AtWorkAlone
<1>3. f.pol = r /\ f.snap = r
  BY <1>1, <1>2 DEF OnTrack
<1>4. record'[p] = Patched(r, f.patch)
  BY <1>3, Parts DEF Write, Written
<1>5. UNCHANGED <<active, queue, fireMain, kernel>>
  BY DEF Write
<1>6. CASE f.then # "idle"
  <2>1. Goto(x, g)
    BY <1>6 DEF Write
  <2>2. /\ g.pid = p /\ g.pc = f.then /\ g.job = f.job
        /\ f.then # "reread" => g.pol = record'[p]
    BY <1>1, <1>3, <1>4 DEF Frame
  <2>3. OnTrack(g, record'[p])
    <3>1. CASE f.patch = "enable" /\ f.then = "emit" /\ f.job = "enforce"
      <4>1. ~record'[p].disabled
        BY <1>2, <1>4, <3>1 DEF Patched, Policy
      <4> HIDE DEF g
      <4> QED
        BY <2>2, <3>1, <4>1 DEF OnTrack
    <3>2. CASE f.patch = "disable" /\ f.then = "drop"
      BY <2>2, <3>2 DEF OnTrack
    <3>3. CASE f.patch = "touch" /\ f.then = "install" /\ ~r.disabled
      BY <1>2, <1>4, <2>2, <3>3 DEF OnTrack, Patched
    <3> HIDE DEF g, r
    <3> QED
      BY <1>1, <1>2, <1>6, <3>1, <3>2, <3>3 DEF OnTrack
  <2> HIDE DEF g, f, r
  <2> QED
    BY <1>2, <1>5, <2>1, <2>2, <2>3, Parts, StaysAtWork DEF Alone
<1>7. CASE f.then = "idle"
  <2>1. f.patch = "disable" /\ ~r.disabled
    BY <1>1, <1>2, <1>7 DEF OnTrack
  <2>2. record'[p].disabled /\ ~record'[p].idle
    BY <1>2, <1>4, <2>1 DEF Patched, Policy, Paused
  <2>3. Nobody(p)'
    BY <1>2, <1>7, Parts, HandlerEnds DEF Write, Alone
  <2> QED
    BY <1>2, <1>5, <2>2, <2>3 DEF Done, Right, Phase
<1> QED
  BY <1>6, <1>7

LEMMA InstallRulesHeals ==
  ASSUME IInv, Base, NEW x \in Procs, InstallRules(x), NEW p \in Pids, proc[x].pid = p,
         p \notin touched, Phase(p)
  PROVE  Phase(p)'
<1> DEFINE f == proc[x]
<1>1. f.pc = "install" /\ f \in Frame
  BY Worker DEF InstallRules
<1>2. /\ x \in Handlers /\ Alone(p, x) /\ OnTrack(f, record[p])
      /\ fireMain = "running" /\ p \in active /\ NoJob(queue, p)
  BY <1>1, AtWorkAlone
<1>3. f.pol = record[p] /\ ~record[p].disabled
  BY <1>1, <1>2 DEF OnTrack
<1>4. UNCHANGED <<record, active, queue, fireMain>> /\ kernel'[p] = TRUE
  BY <1>1 DEF InstallRules, redis, IInv, TypeInv, TypeOK
<1>5. Right(p)'
  BY <1>2, <1>3, <1>4 DEF Right
<1>6. CASE Goto(x, Idle)
  <2>1. Nobody(p)'
    BY <1>2, <1>6, Parts, HandlerEnds DEF Alone
  <2> QED
    BY <1>2, <1>3, <1>4, <1>5, <2>1 DEF Done, Phase
<1>7. CASE Arm([proc EXCEPT ![x] = Idle], f.pid, f.pol)
  BY <1>2, <1>4, <1>5, <1>7, Parts, BeginsToWait DEF Alone, Base
<1> QED
  BY <1>6, <1>7 DEF InstallRules

LEMMA DropHeals ==
  ASSUME IInv, Base, NEW x \in Procs, Drop(x), NEW p \in Pids, proc[x].pid = p,
         p \notin touched, Phase(p)
  PROVE  Phase(p)'
<1>1. proc[x].pc = "drop"
  BY DEF Drop
<1>2. /\ x \in Handlers /\ x \notin Clients /\ Alone(p, x)
      /\ fireMain = "running" /\ NoJob(queue, p) /\ ~kernel[p]
  BY <1>1, AtWorkAlone
<1>3. Nobody(p)'
  BY <1>2, Parts, HandlerEnds DEF Drop, Alone
<1>4. p \notin active' /\ UNCHANGED <<queue, fireMain, kernel>>
  BY DEF Drop, Dropped
<1> QED
  BY <1>2, <1>3, <1>4 DEF Done, Right, Phase

LEMMA EmitHeals ==
  ASSUME IInv, Base, NEW x \in Procs, Emit(x), NEW p \in Pids, proc[x].pid = p,
         p \notin touched, Phase(p)
  PROVE  Phase(p)'
<1> DEFINE job == JobOf("enforce", p, record[p], None)
<1>1. proc[x].pc = "emit"
  BY DEF Emit
<1>2. /\ x \in Handlers /\ Alone(p, x) /\ OnTrack(proc[x], record[p])
      /\ fireMain = "running" /\ p \in active /\ record[p] \in Policy
      /\ NoJob(queue, p) /\ ~kernel[p]
  BY <1>1, AtWorkAlone
<1>3. proc[x].job = "enforce" /\ proc[x].pol = record[p] /\ ~record[p].disabled
  BY <1>1, <1>2 DEF OnTrack
<1>4. Nobody(p)'
  BY <1>2, Parts, HandlerEnds DEF Emit, Alone
<1>5. queue' = Append(queue, job)
  BY <1>2, <1>3 DEF Emit, Emitted
<1>6. job \in Job /\ job.pid = p /\ queue \in Seq(Job)
  BY <1>2 DEF JobOf, Job, IInv, TypeInv, TypeOK
<1>7. UNCHANGED <<record, active, fireMain, kernel>>
  BY DEF Emit, redis
<1>8. OnlyJob(queue', p, job)
  <2> HIDE DEF job
  <2> QED
    BY <1>2, <1>5, <1>6, AppendOwn
<1> QED
  BY <1>2, <1>3, <1>4, <1>7, <1>8 DEF Ahead, Phase

LEMMA ProcStepHeals ==
  ASSUME IInv, Base, NEW x \in Procs, ProcStep(x), NEW p \in Pids, proc[x].pid = p,
         p \notin touched, Phase(p)
  PROVE  Phase(p)'
<1>1. ASSUME proc[x].pc \in {"check", "remove"}
      PROVE  FALSE
  BY <1>1, AtWorkAlone DEF OnTrack
<1> QED
  BY <1>1, ReadHeals, WriteHeals, InstallRulesHeals, DropHeals, EmitHeals
  DEF ProcStep, Check, RemoveRules

\* The job of a policy nobody has changed is to enforce it.
LEMMA TakeJobHeals ==
  ASSUME IInv, Base, NEW h \in Handlers, TakeJob(h), NEW p \in Pids, Head(queue).pid = p,
         Phase(p)
  PROVE  Phase(p)'
<1> DEFINE r == record[p]
           f == [Idle EXCEPT !.pid = p, !.pol = r]
<1>1. /\ h \in Procs /\ proc[h].pid = None /\ queue # <<>> /\ queue' = Tail(queue)
      /\ UNCHANGED <<record, active, fireMain, kernel>>
  BY DEF TakeJob, Procs, Base, Tidy, redis
<1>2. queue \in Seq(Job)
  BY DEF IInv, TypeInv, TypeOK
<1>3. ~NoJob(queue, p)
  BY <1>1, <1>2, TailKeeps DEF NoJob
<1>4. Ahead(p)
  BY <1>3 DEF Phase, Unloaded, Done, AtWork, Waits
<1>5. Head(queue) = JobOf("enforce", p, r, None) /\ NoJob(queue', p)
  BY <1>1, <1>2, <1>4, TailKeeps DEF Ahead
<1>6. /\ fireMain = "running" /\ p \in active /\ ~kernel[p] /\ (r.disabled => r.idle)
      /\ r \in Policy /\ \A y \in Procs \ {h} : proc[y].pid # p
  BY <1>4, Parts DEF Ahead, Nobody, ActiveHasRecord
<1>7. Enforce(h, p, r)
  BY <1>5 DEF TakeJob, JobOf
<1>8. ASSUME NEW g, Goto(h, g), g.pid = p, OnTrack(g, r)
      PROVE  Phase(p)'
  BY <1>1, <1>5, <1>6, <1>8, Parts, StaysAtWork
<1>9. CASE r.disabled /\ r.idle /\ Arm([proc EXCEPT ![h] = Idle], p, r)
  <2>1. Right(p)'
    BY <1>1, <1>6, <1>9 DEF Right
  <2> QED
    BY <1>1, <1>5, <1>6, <1>9, <2>1, Parts, BeginsToWait DEF Base
<1>10. CASE Goto(h, [Update(f, "enable", "emit") EXCEPT !.job = "enforce"])
  BY <1>6, <1>8, <1>10, UpdateIsOnTrack
<1>11. ASSUME NEW then \in {"drop", "idle"}, ~r.disabled, Goto(h, Update(f, "disable", then))
       PROVE  Phase(p)'
  <2> DEFINE g == Update(f, "disable", then)
  <2>1. OnTrack(g, r) /\ g.pid = p
    BY <1>6, <1>11, UpdateIsOnTrack, ZenonT(60)
  <2>2. Goto(h, g)
    BY <1>11
  <2> HIDE DEF g
  <2> QED
    BY <1>8, <2>1, <2>2
<1>12. CASE ~r.disabled /\ Goto(h, Update(f, "touch", "install"))
  BY <1>6, <1>8, <1>12, UpdateIsOnTrack
<1> HIDE DEF r
<1> QED
  BY <1>6, <1>7, <1>9, <1>10, <1>11, <1>12 DEF Enforce
-----------------------------------------------------------------------------
(* Stops and boots *)

\* The phases depend on this much.
LEMMA SamePhase ==
  ASSUME NEW p, UNCHANGED <<record, active, queue, fireMain, proc, kernel>>, Phase(p)
  PROVE  Phase(p)'
BY DEF Phase, Unloaded, Done, Ahead, AtWork, Waits, Nobody, Alone, Right

\* All that was in memory is gone.
LEMMA CrashKeepsBase ==
  ASSUME IInv, Base, Crash
  PROVE  Base' /\ fireMain' = "down"
<1>1. \A x \in Procs : proc'[x] = IF x \in Clients THEN proc[x] ELSE Idle
  BY DEF Crash
<1>2. \A p \in Pids : enabledTimers'[p] = None
  BY DEF Crash
<1>3. Tidy(proc', enabledTimers')
  BY <1>1, <1>2, IdleIsGood DEF Base, Tidy
<1>4. Clients \subseteq Procs
  BY DEF Procs
<1>5. UNCHANGED <<record, touched>> /\ fireMain' = "down"
  BY DEF Crash, redis
<1> QED
  BY <1>1, <1>3, <1>4, <1>5, IdleIsGood DEF Base

\* When FireMain boots, the kernel, the queue and its memory are empty.
LEMMA BootHeals ==
  ASSUME IInv, Base, Boot
  PROVE  Base' /\ \A p \in Pids \ touched' : Phase(p)'
<1>1. /\ UNCHANGED <<record, active, proc, enabledTimers>>
      /\ fireMain = "down" /\ fireMain' = "listening" /\ queue' = <<>>
      /\ kernel' = [p \in Pids |-> FALSE]
      /\ touched' = {proc[x].pid : x \in Clients} \ {None}
  BY DEF Boot, redis, Flushed
<1>2. Base'
  BY <1>1 DEF Base
<1>3. ASSUME NEW p \in Pids \ touched'
      PROVE  Phase(p)'
  <2>1. \A x \in Procs : proc[x].pid # p
    <3> TAKE x \in Procs
    <3>1. CASE x \in Clients
      BY <1>1, <1>3, <3>1, ManagerAssumption
    <3>2. CASE x \notin Clients
      BY <1>1, <3>2, ManagerAssumption DEF Base, Tidy
    <3> QED
      BY <3>1, <3>2
  <2>2. Nobody(p)' /\ NoJob(queue', p) /\ ~kernel'[p]
    BY <1>1, <1>3, <2>1 DEF Nobody, NoJob
  <2> QED
    BY <1>1, <2>2 DEF Phase, Unloaded
<1> QED
  BY <1>2, <1>3

\* The policies are enumerated once each, and completely.
LEMMA AllInOrder ==
  ASSUME NEW S, IsFiniteSet(S), NEW order \in [1 .. Cardinality(S) -> S],
         \A i, j \in DOMAIN order : order[i] = order[j] => i = j
  PROVE  \A p \in S : \E i \in 1 .. Cardinality(S) : order[i] = p
<1>1. Cardinality(S) \in Nat
  BY FS_CardinalityType
<1>2. Cardinality(1 .. Cardinality(S)) = Cardinality(S)
  BY <1>1, FS_Interval
<1>3. order \in Injection(1 .. Cardinality(S), S)
  BY DEF Injection, IsInjective
<1>4. order \in Surjection(1 .. Cardinality(S), S)
  BY <1>2, <1>3, FS_Injection
<1> QED
  BY <1>4 DEF Surjection

\* enforceAllPolicies has queued a job for every policy that is to be enforced.
LEMMA BootLoadHeals ==
  ASSUME IInv, Base, BootLoad, NEW p \in Pids, Phase(p)
  PROVE  Phase(p)'
<1> DEFINE n == Cardinality(ToEnforce)
           m == Len(queue)
<1>1. IsFiniteSet(ToEnforce) /\ n \in Nat
  BY Parts, ManagerAssumption, FS_Subset, FS_CardinalityType DEF ToEnforce
<1>2. PICK order \in [1 .. n -> ToEnforce] :
         /\ \A i, j \in DOMAIN order : order[i] = order[j] => i = j
         /\ queue' = queue \o [i \in DOMAIN order |->
                                 JobOf("enforce", order[i], record[order[i]], None)]
  BY DEF BootLoad
<1> DEFINE jobs == [i \in 1 .. n |-> JobOf("enforce", order[i], record[order[i]], None)]
<1>3. queue' = queue \o jobs
  BY <1>2
<1>4. \A i \in 1 .. n : /\ jobs[i] = JobOf("enforce", order[i], record[order[i]], None)
                        /\ jobs[i].pid = order[i]
  BY DEF JobOf
<1>5. \A i \in 1 .. n : order[i] \in ToEnforce
  OBVIOUS
<1>6. \A i, j \in 1 .. n : order[i] = order[j] => i = j
  BY <1>2
<1>7. \A q \in ToEnforce : \E i \in 1 .. n : order[i] = q
  BY <1>1, <1>2, AllInOrder
<1> HIDE DEF n
<1>8. queue \in Seq(Job) /\ jobs \in Seq(UNION {{jobs[i]} : i \in 1 .. n}) /\ Len(jobs) = n
  BY <1>1 DEF IInv, TypeInv, TypeOK
<1> HIDE DEF jobs
<1>9. /\ m \in Nat /\ Len(queue') = m + n
      /\ \A i \in 1 .. m + n : queue'[i] = IF i <= m THEN queue[i] ELSE jobs[i - m]
  <2> DEFINE S == Job \cup UNION {{jobs[i]} : i \in 1 .. n}
  <2>1. queue \in Seq(S) /\ jobs \in Seq(S)
    BY <1>8, SeqMonotonic
  <2> HIDE DEF S
  <2>2. /\ Len(queue \o jobs) = Len(queue) + Len(jobs)
        /\ \A i \in 1 .. Len(queue) + Len(jobs) :
              (queue \o jobs)[i] = IF i <= Len(queue) THEN queue[i] ELSE jobs[i - Len(queue)]
    BY <2>1, ConcatProperties
  <2>3. Len(queue) \in Nat
    BY <2>1
  <2> QED
    BY <1>3, <1>8, <2>2, <2>3
<1>10. /\ fireMain = "listening" /\ fireMain' = "running"
       /\ UNCHANGED <<record, active, proc, kernel>>
  BY DEF BootLoad, redis
<1>11. NoJob(queue, p) /\ Nobody(p) /\ ~kernel[p]
  BY <1>10 DEF Phase, Unloaded, Done, Ahead, AtWork, Waits
<1>12. Nobody(p)' /\ ~kernel'[p]
  BY <1>10, <1>11 DEF Nobody
<1>13. \A i \in 1 .. m : queue[i].pid # p
  BY <1>11 DEF NoJob
<1> HIDE DEF m
<1>14. \A i \in 1 .. m + n : queue'[i].pid = p => i - m \in 1 .. n /\ order[i - m] = p
  <2> SUFFICES ASSUME NEW i \in 1 .. m + n, queue'[i].pid = p
               PROVE  i - m \in 1 .. n /\ order[i - m] = p
    OBVIOUS
  <2>1. ~(i <= m)
    BY <1>1, <1>9, <1>13
  <2>2. i - m \in 1 .. n /\ queue'[i] = jobs[i - m]
    BY <1>1, <1>9, <2>1
  <2> QED
    BY <1>4, <2>2
<1>15. CASE p \in ToEnforce
  <2>1. PICK i \in 1 .. n : order[i] = p
    BY <1>7, <1>15
  <2>2. i + m \in 1 .. m + n /\ queue'[i + m] = jobs[i]
    BY <1>1, <1>9
  <2>3. queue'[i + m] = JobOf("enforce", p, record'[p], None)
    BY <1>4, <1>10, <2>1, <2>2
  <2>4. ASSUME NEW j \in 1 .. m + n, queue'[j].pid = p
        PROVE  j = i + m
    <3>1. j - m \in 1 .. n /\ order[j - m] = p
      BY <1>14, <2>4
    <3>2. j - m = i
      BY <1>6, <2>1, <3>1
    <3> QED
      BY <1>1, <1>9, <3>2
  <2>5. OnlyJob(queue', p, JobOf("enforce", p, record'[p], None))
    BY <1>9, <2>2, <2>3, <2>4 DEF OnlyJob
  <2> QED
    BY <1>10, <1>12, <1>15, <2>5 DEF Ahead, Phase, ToEnforce
<1>16. CASE p \notin ToEnforce
  <2>1. NoJob(queue', p)
    BY <1>5, <1>9, <1>14, <1>16 DEF NoJob
  <2>2. p \in active => record[p].disabled /\ ~record[p].idle
    BY <1>16, Parts DEF ToEnforce, ActiveHasRecord
  <2> QED
    BY <1>10, <1>12, <2>1, <2>2 DEF Done, Right, Phase
<1> QED
  BY <1>15, <1>16
-----------------------------------------------------------------------------
(* What a restart brings back: the theorem *)

\* A step of a process: it is for one policy, and keeps the phase of that one too
\* unless it touches it.
LEMMA MovesHeal ==
  ASSUME IInv, Base, Healing, NEW x \in Procs, NEW q \in Pids, Moves(q, x),
         q \notin touched' /\ Phase(q) => Phase(q)'
  PROVE  Base' /\ Healing'
<1>1. ASSUME crashes > 0, fireMain # "down", NEW p \in Pids \ touched'
      PROVE  Phase(p)'
  <2>1. p \notin touched /\ Phase(p)
    BY <1>1 DEF Moves, Healing
  <2>2. CASE p = q
    BY <1>1, <2>1, <2>2
  <2>3. CASE p # q
    BY <2>1, <2>3, OthersKeepPhase
  <2> QED
    BY <2>2, <2>3
<1>2. UNCHANGED <<crashes, fireMain>>
  BY DEF Moves
<1> QED
  BY <1>1, <1>2, MovesKeepBase DEF Healing

LEMMA InitHealInv ==
  ASSUME Init
  PROVE  HealInv
<1>1. \A x \in Procs : proc[x] = Idle
  BY DEF Init
<1>2. Base
  BY <1>1, IdleIsGood DEF Init, Base, Tidy, ClientAt, Procs
<1> QED
  BY <1>2, InitIInv DEF Init, HealInv, Healing

LEMMA NextHealInv ==
  ASSUME HealInv, [Next]_vars
  PROVE  HealInv'
<1> SUFFICES Base' /\ Healing'
  BY NextIInv DEF HealInv
<1> IInv /\ Base /\ Healing
  BY DEF HealInv
<1>1. ASSUME UNCHANGED <<record, active, queue, fireMain, proc, enabledTimers, kernel, touched, crashes>>
      PROVE  Base' /\ Healing'
  <2>1. Base'
    BY <1>1 DEF Base
  <2>2. ASSUME crashes > 0, fireMain # "down", NEW p \in Pids \ touched
        PROVE  Phase(p)'
    BY <1>1, <2>2, SamePhase DEF Healing
  <2> QED
    BY <1>1, <2>1, <2>2 DEF Healing
<1>2. CASE Work
  <2>1. ASSUME NEW x \in Procs, ProcStep(x)
        PROVE  Base' /\ Healing'
    <3>1. proc[x].pc # "idle"
      BY <2>1 DEF ProcStep, Read, Write, Check, RemoveRules, InstallRules, Drop, Emit
    <3>2. proc[x].pid \in Pids /\ Moves(proc[x].pid, x)
      BY <2>1, <3>1, Worker, ReadMoves, WriteMoves, CheckMoves, RemoveRulesMoves,
         InstallRulesMoves, DropMoves, EmitMoves DEF ProcStep
    <3>3. touched \subseteq touched'
      BY <3>2 DEF Moves
    <3>4. PICK q \in Pids : q = proc[x].pid
      BY <3>2
    <3>5. q \notin touched' /\ Phase(q) => Phase(q)'
      BY <2>1, <3>3, <3>4, ProcStepHeals
    <3> QED
      BY <3>2, <3>4, <3>5, MovesHeal
  <2>2. ASSUME NEW x \in Clients, ClientStep(x)
        PROVE  Base' /\ Healing'
    <3>1. x \in Procs /\ proc[x].pc # "idle"
      BY <2>2 DEF ClientStep, Open, Reread, AddToActive, Procs
    <3>2. proc[x].pid \in Pids /\ Moves(proc[x].pid, x) /\ proc[x].pid \in touched'
      BY <2>2, <3>1, Worker, ClientMoves DEF Moves
    <3> QED
      BY <3>1, <3>2, MovesHeal
  <2>3. ASSUME NEW h \in Handlers, TakeJob(h)
        PROVE  Base' /\ Healing'
    <3>1. h \in Procs
      BY DEF Procs
    <3> QED
      BY <2>3, <3>1, TakeJobMoves, TakeJobHeals, MovesHeal
  <2>4. ASSUME NEW h \in Handlers, JobDone(h)
        PROVE  Base' /\ Healing'
    BY <1>1, <2>4 DEF JobDone, redis, bounds
  <2>5. ASSUME NEW t \in Timers, Look(t)
        PROVE  Base' /\ Healing'
    <3>1. t \in Procs /\ proc[t].pc = "look" /\ t \notin Handlers
      BY <2>5, ManagerAssumption DEF Look, Procs
    <3>2. proc[t].pid \in Pids /\ Moves(proc[t].pid, t)
      BY <2>5, <3>1, Worker, TimerMoves
    <3>3. touched \subseteq touched'
      BY <3>2 DEF Moves
    <3>4. PICK q \in Pids : q = proc[t].pid
      BY <3>2
    <3>5. ~(q \notin touched' /\ Phase(q))
      BY <3>1, <3>3, <3>4, AtWorkAlone
    <3> QED
      BY <3>1, <3>2, <3>4, <3>5, MovesHeal
  <2>6. CASE Boot
    <3>1. ASSUME NEW p \in Pids \ touched'
          PROVE  Phase(p)'
      BY <2>6, <3>1, BootHeals
    <3> QED
      BY <2>6, <3>1, BootHeals DEF Healing
  <2>7. CASE BootLoad
    <3>1. Base' /\ UNCHANGED <<touched, crashes>> /\ fireMain # "down"
      BY <2>7 DEF BootLoad, Base, redis, bounds
    <3>2. ASSUME crashes > 0, NEW p \in Pids \ touched
          PROVE  Phase(p)'
      BY <2>7, <3>1, <3>2, BootLoadHeals DEF Healing
    <3> QED
      BY <3>1, <3>2 DEF Healing
  <2> QED
    BY <1>2, <2>1, <2>2, <2>3, <2>4, <2>5, <2>6, <2>7, NextIInv DEF Work
<1>3. ASSUME NEW x \in Clients, NEW p \in Pids, Message(x, p)
      PROVE  Base' /\ Healing'
  BY <1>3, MessageMoves, MovesHeal DEF Procs
<1>4. ASSUME NEW x \in Clients, NEW p \in Pids, NEW l \in Lives, Create(x, p, l)
      PROVE  Base' /\ Healing'
  BY <1>4, CreateMoves, MovesHeal DEF Procs
<1>5. ASSUME NEW t \in Timers, TimerFires(t)
      PROVE  Base' /\ Healing'
  <2>1. t \in Procs /\ proc[t].pc = "armed"
    BY <1>5 DEF TimerFires, Procs
  <2>2. proc[t].pid \in Pids /\ Moves(proc[t].pid, t) /\ proc[t].pid \in touched'
    BY <1>5, <2>1, Worker, TimerMoves DEF TimerFires
  <2> QED
    BY <2>1, <2>2, MovesHeal
<1>6. ASSUME NEW h \in Handlers, JobTimeout(h)
      PROVE  Base' /\ Healing'
  BY <1>1, <1>6 DEF JobTimeout, redis
<1>7. CASE Crash
  <2>1. Base' /\ fireMain' = "down"
    BY <1>7, CrashKeepsBase
  <2> QED
    BY <2>1 DEF Healing
<1>8. CASE UNCHANGED vars
  BY <1>1, <1>8 DEF vars
<1> QED
  BY <1>2, <1>3, <1>4, <1>5, <1>6, <1>7, <1>8 DEF Next

\* When FireMain has restarted, whatever the crash interrupted and in whatever
\* order its handlers and timeouts go on, a policy nobody has changed since and for
\* which nothing is under way is installed exactly when it is listed and enabled,
\* and if it is paused the timeout that ends the pause is armed.
THEOREM RestartIsHealed == Spec => []RestartHeals
<1>1. ASSUME HealInv
      PROVE  RestartHeals
  <2> SUFFICES ASSUME crashes > 0, NEW p \in Pids \ touched, QuietFor(p)
               PROVE  /\ Right(p)
                      /\ p \in active /\ record[p].disabled /\ record[p].idle =>
                           \E t \in Timers : proc[t].pc = "armed" /\ proc[t].pid = p
    BY DEF RestartHeals, Right
  <2>1. fireMain = "running" /\ Phase(p)
    BY <1>1 DEF QuietFor, HealInv, Healing
  <2>2. NoJob(queue, p)
    <3>1. queue \in Seq(KnownJob)
      BY <1>1, Parts DEF HealInv
    <3> QED
      BY <3>1 DEF QuietFor, NoJob
  <2>3. ~Ahead(p)
    BY <2>2 DEF Ahead, NoJob, OnlyJob, JobOf
  <2>4. ~AtWork(p)
    BY DEF AtWork, Alone, OnTrack, QuietFor, Procs
  <2>5. CASE Done(p)
    BY <2>5 DEF Done
  <2>6. CASE Waits(p)
    BY <2>6 DEF Waits, Alone
  <2> QED
    BY <2>1, <2>3, <2>4, <2>5, <2>6 DEF Phase, Unloaded
<1> QED
  BY <1>1, InitHealInv, NextHealInv, PTL DEF Spec
-----------------------------------------------------------------------------
(* What the kernel comes to: one thing after the other                        *)
(* As long as FireMain does not crash, and the app waits for it, there is at  *)
(* most one message, one job or one handler at a policy, and what it is at    *)
(* ends with the kernel as redis says.                                        *)

\* Policy p is listed and enabled.
On(p) == p \in active /\ ~record[p].disabled

\* What the message asks for that a client is at.
Asks(f) ==
    \/ f.patch = "enable" /\ f.then = "emit" /\ f.job = "enforce"
    \/ f.patch = "disable" /\ f.then = "emit" /\ f.job = "unenforce"
    \/ f.patch \in Lives /\ f.then = "reread"

\* A client is at a point of its message, or of the creation of the policy.
AppAt(p, f) ==
    \/ f.pc = "zadd" /\ f.job = "enforce" /\ f.pol = record[p] /\ ~record[p].disabled
    \/ f.pc = "open" /\ Right(p) /\ (Asks(f) \/ (f.then = "drop" /\ f.job = "unenforce"))
    \/ /\ f.pc \in {"read", "write"} /\ p \in active /\ Asks(f)
       /\ f.pol = record[p] /\ (f.pc = "write" => f.snap = record[p])
    \/ f.pc = "drop" /\ f.job = "unenforce"
    \/ f.pc = "reread" /\ p \in active
    \/ f.pc = "emit" /\ f.job = "enforce" /\ On(p) /\ f.pol = record[p]
    \/ f.pc = "emit" /\ f.job = "unenforce" /\ ~On(p)

\* The job of p brings the kernel to what redis says.
JobFits(p, job) ==
    /\ job.pid = p
    /\ \/ job.action = "enforce" /\ On(p) /\ job.policy = record[p]
       \/ job.action = "unenforce" /\ ~On(p)
       \/ job.action = "reenforce" /\ p \in active /\ job.policy = record[p]

\* So does what is left of the handler's.
JobAt(p, f) ==
    \/ /\ \/ f.pc \in {"check", "remove"}
          \/ f.pc \in {"read", "write"} /\ f.patch = "touch" /\ f.then = "remove" /\ record[p] # None
       /\ f.pc = "write" => f.snap = record[p]
       /\ IF f.next = None THEN ~On(p) ELSE p \in active /\ f.next = record[p]
    \/ /\ f.pc \in {"read", "write"} /\ f.patch = "touch" /\ f.then = "install"
       /\ On(p) /\ f.pol = record[p] /\ (f.pc = "write" => f.snap = record[p])
    \/ f.pc = "install" /\ On(p)

\* How far the app and FireMain have got with policy p.
Stage(p) ==
    /\ record[p] # None => ~record[p].idle
    /\ record[p] # None /\ p \notin active => \E x \in Clients : Alone(p, x) /\ proc[x].pc = "zadd"
    /\ \/ NoJob(queue, p) /\ Nobody(p) /\ Right(p)
       \/ Nobody(p) /\ \E job \in Job : OnlyJob(queue, p, job) /\ JobFits(p, job)
       \/ NoJob(queue, p) /\ \E x \in Clients : Alone(p, x) /\ AppAt(p, proc[x])
       \/ NoJob(queue, p) /\ \E h \in Handlers : Alone(p, h) /\ JobAt(p, proc[h])

NoTimer == \A t \in Timers : proc[t].pc = "idle"

Orderly == fireMain = "running" /\ NoTimer /\ \A p \in Pids : Stage(p)

SettleInv == HealInv /\ (crashes = 0 => Orderly)

\* What a step for policy q leaves of another one.
LEMMA OthersStay ==
  ASSUME IInv, NEW x \in Procs, NEW q \in Pids, Moves(q, x), NEW p \in Pids, p # q
  PROVE  /\ kernel'[p] = kernel[p] /\ record'[p] = record[p] /\ (p \in active' <=> p \in active)
         /\ Nobody(p) => Nobody(p)'
         /\ \A y \in Procs : Alone(p, y) => Alone(p, y)' /\ proc'[y] = proc[y]
         /\ NoJob(queue, p) => NoJob(queue', p)
         /\ \A j : j.pid = p /\ OnlyJob(queue, p, j) => OnlyJob(queue', p, j)
<1>2. \A y \in Procs : proc[y].pid = p \/ proc'[y].pid = p => proc'[y] = proc[y]
  <2>1. p \notin {q, None}
    BY ManagerAssumption
  <2> QED
    BY <2>1 DEF Moves, Turns
<1>3. /\ Nobody(p) => Nobody(p)'
      /\ \A y \in Procs : Alone(p, y) => Alone(p, y)' /\ proc'[y] = proc[y]
  BY <1>2 DEF Nobody, Alone
<1>4. /\ NoJob(queue, p) => NoJob(queue', p)
      /\ \A j : j.pid = p /\ OnlyJob(queue, p, j) => OnlyJob(queue', p, j)
  <2>1. queue \in Seq(Job)
    BY DEF IInv, TypeInv, TypeOK
  <2>2. CASE queue' = queue
    BY <2>2
  <2>3. ASSUME NEW job \in Job, job.pid = q, queue' = Append(queue, job)
        PROVE  <1>4!1 /\ <1>4!2
    BY <2>1, <2>3, AppendOther
  <2>4. CASE queue # <<>> /\ Head(queue).pid = q /\ queue' = Tail(queue)
    BY <2>1, <2>4, TailKeeps
  <2> QED
    BY <2>2, <2>3, <2>4 DEF Moves
<1> QED
  BY <1>3, <1>4 DEF Moves

LEMMA OthersKeepStage ==
  ASSUME IInv, NEW x \in Procs, NEW q \in Pids, Moves(q, x), NEW p \in Pids, p # q, Stage(p)
  PROVE  Stage(p)'
<1>1. /\ kernel'[p] = kernel[p] /\ record'[p] = record[p] /\ (p \in active' <=> p \in active)
      /\ Nobody(p) => Nobody(p)'
      /\ \A y \in Procs : Alone(p, y) => Alone(p, y)' /\ proc'[y] = proc[y]
      /\ NoJob(queue, p) => NoJob(queue', p)
      /\ \A j : j.pid = p /\ OnlyJob(queue, p, j) => OnlyJob(queue', p, j)
  BY OthersStay
<1>2. (Right(p)' <=> Right(p)) /\ (On(p)' <=> On(p))
  BY <1>1 DEF Right, On
<1>p. Clients \subseteq Procs /\ Handlers \subseteq Procs
  BY DEF Procs
<1>3. /\ record'[p] # None => ~record'[p].idle
      /\ record'[p] # None /\ p \notin active' =>
           \E y \in Clients : Alone(p, y)' /\ proc'[y].pc = "zadd"
  BY <1>1, <1>p DEF Stage
<1>4. CASE NoJob(queue, p) /\ Nobody(p) /\ Right(p)
  BY <1>1, <1>2, <1>3, <1>4 DEF Stage
<1>5. CASE Nobody(p) /\ \E job \in Job : OnlyJob(queue, p, job) /\ JobFits(p, job)
  <2>1. PICK job \in Job : OnlyJob(queue, p, job) /\ JobFits(p, job)
    BY <1>5
  <2>2. OnlyJob(queue', p, job) /\ JobFits(p, job)'
    BY <1>1, <1>2, <2>1 DEF JobFits
  <2> QED
    BY <1>1, <1>3, <1>5, <2>2 DEF Stage
<1>6. CASE NoJob(queue, p) /\ \E y \in Clients : Alone(p, y) /\ AppAt(p, proc[y])
  <2>1. PICK y \in Clients : Alone(p, y) /\ AppAt(p, proc[y])
    BY <1>6
  <2>2. Alone(p, y)' /\ AppAt(p, proc[y])'
    BY <1>1, <1>2, <1>p, <2>1 DEF AppAt, Asks
  <2> QED
    BY <1>1, <1>3, <1>6, <2>2 DEF Stage
<1>7. CASE NoJob(queue, p) /\ \E h \in Handlers : Alone(p, h) /\ JobAt(p, proc[h])
  <2>1. PICK h \in Handlers : Alone(p, h) /\ JobAt(p, proc[h])
    BY <1>7
  <2>2. Alone(p, h)' /\ JobAt(p, proc[h])'
    BY <1>1, <1>2, <1>p, <2>1 DEF JobAt
  <2> QED
    BY <1>1, <1>3, <1>7, <2>2 DEF Stage
<1> QED
  BY <1>4, <1>5, <1>6, <1>7 DEF Stage

\* What is given about a process at work, in order.
LEMMA OneAtATime ==
  ASSUME IInv, Base, Orderly, NEW x \in Procs, proc[x].pc # "idle"
  PROVE  LET p == proc[x].pid IN
         /\ p \in Pids /\ x \notin Timers /\ NoJob(queue, p) /\ Alone(p, x)
         /\ \/ x \in Clients /\ x \notin Handlers /\ AppAt(p, proc[x])
            \/ x \in Handlers /\ x \notin Clients /\ JobAt(p, proc[x])
         /\ record[p] # None => ~record[p].idle
         /\ record[p] # None <=> p \in active \/ proc[x].pc = "zadd"
         /\ record[p] # None => record[p] \in Policy
<1>1. proc[x].pid \in Pids /\ proc[x].pid # None
  BY Worker
<1> DEFINE p == proc[x].pid
<1>2. Stage(p) /\ x \notin Timers
  BY <1>1 DEF Orderly, NoTimer
<1>3. ~Nobody(p)
  BY DEF Nobody
<1>4. /\ NoJob(queue, p) /\ Alone(p, x)
      /\ \/ x \in Clients /\ AppAt(p, proc[x])
         \/ x \in Handlers /\ JobAt(p, proc[x])
  <2>1. NoJob(queue, p) /\ \E y \in Procs : /\ Alone(p, y)
                                            /\ \/ y \in Clients /\ AppAt(p, proc[y])
                                               \/ y \in Handlers /\ JobAt(p, proc[y])
    BY <1>2, <1>3 DEF Stage, Procs
  <2> QED
    BY <2>1 DEF Alone
<1>5. record[p] # None <=> p \in active \/ proc[x].pc = "zadd"
  <2>1. p \in active => record[p] # None
    BY Parts DEF ActiveHasRecord
  <2>2. proc[x].pc = "zadd" => record[p] # None
    BY Parts DEF NewIsPrivate
  <2>3. record[p] # None /\ p \notin active => proc[x].pc = "zadd"
    BY <1>2 DEF Stage, Alone
  <2> QED
    BY <2>1, <2>2, <2>3
<1>6. record[p] # None => ~record[p].idle /\ record[p] \in Policy
  BY <1>1, <1>2, Parts DEF Stage
<1>7. ~(x \in Clients /\ x \in Handlers)
  BY ManagerAssumption
<1> HIDE DEF p
<1> QED
  BY <1>1, <1>2, <1>4, <1>5, <1>6, <1>7 DEF p

\* A client or a handler goes on, alone with its policy, or ends.
LEMMA GoesOn ==
  ASSUME IInv, NoTimer, NEW x \in Clients \cup Handlers, NEW p \in Pids,
         \A y \in Procs \ {x} : proc[y].pid # p, NEW g, Goto(x, g)
  PROVE  /\ NoTimer' /\ proc'[x] = g /\ x \in Procs
         /\ g.pid = p => Alone(p, x)'
         /\ g = Idle => Nobody(p)'
<1>1. x \in Procs /\ x \notin Timers
  BY ManagerAssumption DEF Procs
<1>2. \A y \in Procs : proc'[y] = IF y = x THEN g ELSE proc[y]
  BY <1>1, Parts DEF Goto, GoodProcs
<1>3. NoTimer'
  BY <1>1, <1>2 DEF NoTimer, Procs
<1>4. g.pid = p => Alone(p, x)'
  BY <1>1, <1>2 DEF Alone
<1>5. g = Idle => Nobody(p)'
  BY <1>1, <1>2, IdleIsGood, ManagerAssumption DEF Nobody
<1> QED
  BY <1>1, <1>2, <1>3, <1>4, <1>5

Stays(p) == Stage(p)' /\ NoTimer'

LEMMA AppGoesOn ==
  ASSUME IInv, NoTimer, NEW x \in Clients, NEW p \in Pids,
         \A y \in Procs \ {x} : proc[y].pid # p, NEW g, Goto(x, g), g.pid = p,
         NoJob(queue', p), AppAt(p, proc[x])',
         record'[p] # None => ~record'[p].idle /\ (p \in active' \/ g.pc = "zadd")
  PROVE  Stays(p)
<1>1. NoTimer' /\ proc'[x] = g /\ Alone(p, x)'
  BY GoesOn
<1> QED
  BY <1>1 DEF Stage, Stays

LEMMA JobGoesOn ==
  ASSUME IInv, NoTimer, NEW x \in Handlers, NEW p \in Pids,
         \A y \in Procs \ {x} : proc[y].pid # p, NEW g, Goto(x, g), g.pid = p,
         NoJob(queue', p), JobAt(p, proc[x])',
         record'[p] # None => ~record'[p].idle /\ p \in active'
  PROVE  Stays(p)
<1>1. NoTimer' /\ proc'[x] = g /\ Alone(p, x)'
  BY GoesOn
<1> QED
  BY <1>1 DEF Stage, Stays

LEMMA AtRest ==
  ASSUME IInv, NoTimer, NEW x \in Clients \cup Handlers, NEW p \in Pids,
         \A y \in Procs \ {x} : proc[y].pid # p, Goto(x, Idle),
         \/ NoJob(queue', p) /\ Right(p)'
         \/ \E job \in Job : OnlyJob(queue', p, job) /\ JobFits(p, job)',
         record'[p] # None => ~record'[p].idle /\ p \in active'
  PROVE  Stays(p)
<1>1. NoTimer' /\ Nobody(p)'
  BY GoesOn
<1> QED
  BY <1>1 DEF Stage, Stays

\* updatePolicyAsync, of a client or of a handler.
LEMMA ReadStays ==
  ASSUME IInv, Base, Orderly, NEW x \in Procs, Read(x), NEW p \in Pids, proc[x].pid = p
  PROVE  Stays(p)
<1> DEFINE f == proc[x]
           g == [f EXCEPT !.pc = "write", !.snap = record[p]]
<1>1. f.pc = "read" /\ f \in Frame
  BY Worker DEF Read
<1>2. /\ NoJob(queue, p) /\ \A y \in Procs \ {x} : proc[y].pid # p
      /\ (x \in Clients /\ AppAt(p, f)) \/ (x \in Handlers /\ JobAt(p, f))
      /\ record[p] # None => ~record[p].idle /\ p \in active
      /\ p \in active => record[p] # None
      /\ NoTimer
  BY <1>1, OneAtATime DEF Alone, Orderly
<1>3. record[p] # None
  BY <1>1, <1>2 DEF AppAt, JobAt, On
<1>4. Goto(x, g) /\ UNCHANGED <<record, active, kernel, queue>>
  BY <1>3 DEF Read, redis
<1>5. /\ g.pc = "write" /\ g.snap = record[p] /\ g.pid = p
      /\ g.patch = f.patch /\ g.then = f.then /\ g.job = f.job /\ g.pol = f.pol /\ g.next = f.next
  BY <1>1 DEF Frame
<1> HIDE DEF g
<1>6. proc'[x] = g
  BY <1>4, Parts DEF Goto, GoodProcs
<1>7. x \in Clients => AppAt(p, proc[x])'
  <2>1. ASSUME x \in Clients PROVE AppAt(p, f)
    BY <1>2, <2>1, OneAtATime, <1>1
  <2> QED
    BY <1>1, <1>4, <1>5, <1>6, <2>1 DEF AppAt, Asks
<1>8. x \in Handlers => JobAt(p, proc[x])'
  <2>1. ASSUME x \in Handlers PROVE JobAt(p, f)
    BY <1>2, <2>1, OneAtATime, <1>1
  <2> QED
    BY <1>1, <1>3, <1>4, <1>5, <1>6, <2>1 DEF JobAt, On
<1> HIDE DEF f
<1> QED
  BY <1>2, <1>4, <1>5, <1>7, <1>8, AppGoesOn, JobGoesOn

\* Without pauses no change makes a policy idle.
LEMMA PatchedStaysAwake ==
  ASSUME NEW r \in Policy, NEW patch \in Patches \ {"pause"}, ~r.idle
  PROVE  /\ ~Patched(r, patch).idle
         /\ patch = "enable" => ~Patched(r, patch).disabled
         /\ patch = "disable" => Patched(r, patch).disabled
         /\ patch = "touch" => Patched(r, patch) = r
<1>1. CASE patch \in {"enable", "disable", "touch"}
  BY <1>1 DEF Patched, Policy
<1>2. CASE patch \notin {"enable", "disable", "touch"}
  <2>1. Patched(r, patch) = [r EXCEPT !.life = patch]
    BY <1>2 DEF Patched
  <2> QED
    BY <1>2, <2>1 DEF Policy
<1> QED
  BY <1>1, <1>2

LEMMA WriteStays ==
  ASSUME Lives = {"plain"}, IInv, Base, Orderly, NEW x \in Procs, Write(x), NEW p \in Pids,
         proc[x].pid = p
  PROVE  Stays(p)
<1> DEFINE f == proc[x]
           r == record[p]
           g == [f EXCEPT !.pc = f.then, !.snap = None,
                          !.pol = IF f.then = "reread" THEN @ ELSE Patched(@, f.patch)]
<1>1. f.pc = "write" /\ f \in Frame /\ Good(x, f)
  BY Worker DEF Write
<1>2. /\ NoJob(queue, p) /\ \A y \in Procs \ {x} : proc[y].pid # p
      /\ \/ x \in Clients /\ x \notin Handlers /\ AppAt(p, f)
         \/ x \in Handlers /\ x \notin Clients /\ JobAt(p, f)
      /\ r # None => ~r.idle /\ r \in Policy /\ p \in active
      /\ p \in active => r # None
      /\ NoTimer
  BY <1>1, OneAtATime DEF Alone, Orderly
<1>3. f.snap = r /\ r # None /\ f.then # "idle" /\ f.patch # "pause"
  BY <1>1, <1>2 DEF AppAt, Asks, JobAt, On
<1>4. /\ record'[p] = Patched(r, f.patch) /\ UNCHANGED <<active, kernel, queue>>
      /\ Goto(x, g)
  BY <1>3, Parts DEF Write, Written
<1>5. f.patch \in Patches \ {"pause"}
  BY <1>1, <1>3 DEF Good
<1>6. /\ ~record'[p].idle
      /\ f.patch = "enable" => ~record'[p].disabled
      /\ f.patch = "disable" => record'[p].disabled
      /\ f.patch = "touch" => record'[p] = r
  BY <1>2, <1>3, <1>4, <1>5, PatchedStaysAwake
<1>7. /\ g.pc = f.then /\ g.pid = p /\ g.job = f.job /\ g.next = f.next
      /\ f.then # "reread" => g.pol = Patched(f.pol, f.patch)
  BY <1>1 DEF Frame
<1>8. proc'[x] = g
  BY <1>4, Parts DEF Goto, GoodProcs
<1> HIDE DEF g
<1>9. CASE x \in Clients
  <2>1. AppAt(p, f)
    BY <1>2, <1>9
  <2>2. p \in active /\ f.pol = r /\ Asks(f)
    BY <1>1, <2>1 DEF AppAt
  <2>3. f.then # "reread" => g.pol = record'[p]
    BY <1>4, <1>7, <2>2
  <2>4. AppAt(p, proc[x])'
    BY <1>4, <1>6, <1>7, <1>8, <2>2, <2>3 DEF AppAt, Asks, On
  <2> HIDE DEF f, r
  <2> QED
    BY <1>2, <1>4, <1>6, <1>7, <1>9, <2>2, <2>4, AppGoesOn
<1>10. CASE x \in Handlers
  <2>1. JobAt(p, f)
    BY <1>2, <1>10
  <2>2. f.patch = "touch" /\ record'[p] = r
    BY <1>1, <1>6, <2>1 DEF JobAt
  <2>4. JobAt(p, proc[x])'
    BY <1>1, <1>4, <1>7, <1>8, <2>1, <2>2 DEF JobAt, On
  <2> HIDE DEF f, r
  <2> QED
    BY <1>2, <1>3, <1>4, <1>6, <1>7, <1>10, <2>4, JobGoesOn
<1> QED
  BY <1>2, <1>9, <1>10

\* enforce(policy), of a policy that is not paused.
LEMMA EnforceStays ==
  ASSUME Lives = {"plain"}, IInv, NoTimer, NEW h \in Handlers, NEW p \in Pids,
         \A y \in Procs \ {h} : proc[y].pid # p,
         NEW pol \in Policy, ~pol.idle, Enforce(h, p, pol),
         NoJob(queue', p), p \in active', record'[p] = pol, pol.disabled => ~kernel'[p]
  PROVE  Stays(p)
<1> DEFINE f == [Idle EXCEPT !.pid = p, !.pol = pol]
           g == Update(f, "touch", "install")
<1>1. pol.life = "plain"
  BY DEF Policy
<1>2. CASE pol.disabled /\ Goto(h, Idle)
  <2>1. Right(p)'
    BY <1>2 DEF Right
  <2> QED
    BY <1>2, <2>1, AtRest
<1>3. CASE ~pol.disabled /\ Goto(h, g)
  <2>1. /\ g.pc = "read" /\ g.pid = p /\ g.patch = "touch" /\ g.then = "install" /\ g.pol = pol
    BY DEF Update, Idle
  <2>2. proc'[h] = g
    BY <1>3, GoesOn
  <2> HIDE DEF g
  <2>3. JobAt(p, proc[h])'
    BY <1>3, <2>1, <2>2 DEF JobAt, On
  <2> QED
    BY <1>3, <2>1, <2>3, JobGoesOn
<1> QED
  BY <1>1, <1>2, <1>3 DEF Enforce

LEMMA CheckStays ==
  ASSUME IInv, Base, Orderly, NEW x \in Procs, Check(x), NEW p \in Pids, proc[x].pid = p
  PROVE  Stays(p)
<1> DEFINE f == proc[x]
<1>1. f.pc = "check" /\ f \in Frame
  BY Worker DEF Check
<1>2. /\ NoJob(queue, p) /\ \A y \in Procs \ {x} : proc[y].pid # p
      /\ x \in Handlers /\ JobAt(p, f)
      /\ record[p] # None => ~record[p].idle /\ p \in active
      /\ p \in active => record[p] # None
      /\ NoTimer
  BY <1>1, OneAtATime DEF Alone, Orderly, AppAt
<1>3. UNCHANGED <<record, active, kernel, queue>>
  BY DEF Check, redis
<1>4. PICK g : /\ Goto(x, g) /\ g.pid = p /\ g.next = f.next
               /\ \/ g.pc = "remove"
                  \/ g.pc = "read" /\ g.patch = "touch" /\ g.then = "remove" /\ record[p] # None
  <2> DEFINE k == [f EXCEPT !.pc = "remove"]
             u == Update(f, "touch", "remove")
  <2>1. k.pc = "remove" /\ k.pid = p /\ k.next = f.next
    BY <1>1 DEF Frame
  <2>2. /\ u.pc = "read" /\ u.pid = p /\ u.patch = "touch" /\ u.then = "remove" /\ u.next = f.next
    BY <1>1 DEF Frame, Update
  <2>3. Goto(x, k) \/ (Goto(x, u) /\ record[p] # None)
    BY DEF Check
  <2> HIDE DEF k, u
  <2> QED
    BY <2>1, <2>2, <2>3
<1>5. proc'[x] = g
  BY <1>4, Parts DEF Goto, GoodProcs
<1>6. JobAt(p, proc[x])'
  BY <1>1, <1>2, <1>3, <1>4, <1>5 DEF JobAt, On
<1> HIDE DEF f
<1> QED
  BY <1>2, <1>3, <1>4, <1>6, JobGoesOn

LEMMA RemoveRulesStays ==
  ASSUME Lives = {"plain"}, IInv, Base, Orderly, NEW x \in Procs, RemoveRules(x),
         NEW p \in Pids, proc[x].pid = p
  PROVE  Stays(p)
<1> DEFINE f == proc[x]
<1>1. f.pc = "remove" /\ f \in Frame
  BY Worker DEF RemoveRules
<1>2. /\ NoJob(queue, p) /\ \A y \in Procs \ {x} : proc[y].pid # p
      /\ x \in Handlers /\ x \notin Timers /\ JobAt(p, f)
      /\ record[p] # None => ~record[p].idle /\ p \in active /\ record[p] \in Policy
      /\ p \in active => record[p] # None
      /\ NoTimer
  BY <1>1, OneAtATime DEF Alone, Orderly, AppAt
<1>3. UNCHANGED <<record, active, queue>> /\ ~kernel'[p]
  BY DEF RemoveRules, redis, IInv, TypeInv, TypeOK
<1>4. CASE f.next # None
  <2>1. Enforce(x, p, record[p]) /\ p \in active
    BY <1>1, <1>2, <1>4 DEF RemoveRules, JobAt
  <2> HIDE DEF f
  <2> QED
    BY <1>2, <1>3, <2>1, EnforceStays
<1>5. CASE f.next = None
  <2>1. Goto(x, Idle) /\ ~On(p)
    BY <1>1, <1>2, <1>5 DEF RemoveRules, JobAt
  <2>2. Right(p)'
    BY <1>3, <2>1 DEF Right, On
  <2> HIDE DEF f
  <2> QED
    BY <1>2, <1>3, <2>1, <2>2, AtRest
<1> QED
  BY <1>4, <1>5

LEMMA InstallRulesStays ==
  ASSUME Lives = {"plain"}, IInv, Base, Orderly, NEW x \in Procs, InstallRules(x),
         NEW p \in Pids, proc[x].pid = p
  PROVE  Stays(p)
<1> DEFINE f == proc[x]
<1>1. f.pc = "install" /\ f \in Frame /\ Good(x, f)
  BY Worker DEF InstallRules
<1>2. /\ NoJob(queue, p) /\ \A y \in Procs \ {x} : proc[y].pid # p
      /\ x \in Handlers /\ JobAt(p, f)
      /\ record[p] # None => ~record[p].idle /\ p \in active
      /\ NoTimer
  BY <1>1, OneAtATime DEF Alone, Orderly, AppAt
<1>3. UNCHANGED <<record, active, queue>> /\ kernel'[p]
  BY DEF InstallRules, redis, IInv, TypeInv, TypeOK
<1>4. f.pol.life = "plain"
  BY <1>1 DEF Good, Holding, Policy
<1>5. Goto(x, Idle)
  BY <1>4 DEF InstallRules
<1>6. Right(p)'
  BY <1>1, <1>2, <1>3 DEF Right, JobAt, On
<1> HIDE DEF f
<1> QED
  BY <1>2, <1>3, <1>5, <1>6, AtRest

LEMMA DropStays ==
  ASSUME IInv, Base, Orderly, NEW x \in Procs, Drop(x), NEW p \in Pids, proc[x].pid = p
  PROVE  Stays(p)
<1> DEFINE f == proc[x]
           g == [f EXCEPT !.pc = "emit"]
<1>1. f.pc = "drop" /\ f \in Frame
  BY Worker DEF Drop
<1>2. /\ NoJob(queue, p) /\ \A y \in Procs \ {x} : proc[y].pid # p
      /\ x \in Clients /\ f.job = "unenforce"
      /\ NoTimer
  BY <1>1, OneAtATime DEF Alone, Orderly, AppAt, JobAt
<1>3. Goto(x, g) /\ UNCHANGED queue /\ p \notin active' /\ record'[p] = None
  BY <1>2, Parts DEF Drop, Dropped
<1>4. g.pc = "emit" /\ g.pid = p /\ g.job = "unenforce"
  BY <1>1, <1>2 DEF Frame
<1> HIDE DEF g, f
<1>5. proc'[x] = g
  BY <1>3, Parts DEF Goto, GoodProcs
<1>6. AppAt(p, proc[x])'
  BY <1>3, <1>4, <1>5 DEF AppAt, On
<1> QED
  BY <1>2, <1>3, <1>4, <1>6, AppGoesOn

\* An event that reaches FireMain becomes the one job of its policy.
LEMMA JobComes ==
  ASSUME IInv, NEW p \in Pids, NoJob(queue, p), fireMain = "running",
         NEW job \in Job, job.pid = p, queue' = Emitted(job)
  PROVE  OnlyJob(queue', p, job)
<1>1. queue \in Seq(Job) /\ queue' = Append(queue, job)
  BY DEF IInv, TypeInv, TypeOK, Emitted
<1> QED
  BY <1>1, AppendOwn

LEMMA EmitStays ==
  ASSUME IInv, Base, Orderly, NEW x \in Procs, Emit(x), NEW p \in Pids, proc[x].pid = p
  PROVE  Stays(p)
<1> DEFINE f == proc[x]
<1>1. f.pc = "emit" /\ f \in Frame /\ Good(x, f)
  BY Worker DEF Emit
<1>2. /\ NoJob(queue, p) /\ \A y \in Procs \ {x} : proc[y].pid # p
      /\ x \in Clients /\ AppAt(p, f)
      /\ record[p] # None => ~record[p].idle /\ p \in active
      /\ NoTimer /\ fireMain = "running"
  BY <1>1, OneAtATime DEF Alone, Orderly, JobAt
<1>3. Goto(x, Idle) /\ UNCHANGED <<record, active, kernel>>
  BY DEF Emit, redis
<1>4. PICK job : job = JobOf(f.job, p, f.pol, None)
  OBVIOUS
<1>5. /\ job \in Job /\ job.pid = p /\ job.action = f.job /\ job.policy = f.pol
      /\ queue' = Emitted(job)
  BY <1>1, <1>4 DEF JobOf, Job, Good, Holding, Actions, Emit
<1>6. JobFits(p, job)'
  BY <1>1, <1>2, <1>3, <1>5 DEF JobFits, AppAt, On
<1>7. OnlyJob(queue', p, job)
  BY <1>2, <1>5, JobComes
<1> HIDE DEF f
<1> QED
  BY <1>2, <1>3, <1>5, <1>6, <1>7, AtRest

LEMMA ClientStays ==
  ASSUME IInv, Base, Orderly, NEW x \in Clients, ClientStep(x), NEW p \in Pids, proc[x].pid = p
  PROVE  Stays(p)
<1> DEFINE f == proc[x]
<1>1. x \in Procs /\ f.pc \in {"open", "reread", "zadd"} /\ f \in Frame /\ Good(x, f)
  <2>1. x \in Procs /\ f.pc \in {"open", "reread", "zadd"}
    BY DEF ClientStep, Open, Reread, AddToActive, Procs
  <2> QED
    BY <2>1, Worker
<1>2. /\ NoJob(queue, p) /\ \A y \in Procs \ {x} : proc[y].pid # p
      /\ AppAt(p, f)
      /\ record[p] # None => ~record[p].idle /\ record[p] \in Policy
      /\ record[p] # None <=> p \in active \/ f.pc = "zadd"
      /\ NoTimer /\ fireMain = "running"
  BY <1>1, OneAtATime DEF Alone, Orderly
<1>3. CASE Open(x)
  <2> DEFINE g == [f EXCEPT !.pc = IF f.then = "drop" THEN "drop" ELSE "read", !.pol = record[p]]
  <2>1. f.pc = "open" /\ UNCHANGED <<record, active, kernel, queue>>
    BY <1>3 DEF Open, redis
  <2>2. CASE Goto(x, Idle)
    <3>1. Right(p)'
      BY <1>2, <2>1 DEF AppAt, Right
    <3> HIDE DEF f
    <3> QED
      BY <1>2, <2>1, <2>2, <3>1, AtRest
  <2>3. CASE Goto(x, g) /\ record[p] # None
    <3>1. /\ g.pc = IF f.then = "drop" THEN "drop" ELSE "read"
          /\ g.pol = record[p] /\ g.pid = p /\ g.patch = f.patch /\ g.then = f.then /\ g.job = f.job
      BY <1>1 DEF Frame
    <3> HIDE DEF g
    <3>2. proc'[x] = g
      BY <1>1, <2>3, Parts DEF Goto, GoodProcs
    <3>3. AppAt(p, proc[x])'
      BY <1>2, <2>1, <2>3, <3>1, <3>2 DEF AppAt, Asks
    <3> HIDE DEF f
    <3> QED
      BY <1>2, <2>1, <2>3, <3>1, <3>3, AppGoesOn
  <2> QED
    BY <1>3, <2>2, <2>3 DEF Open
<1>4. CASE Reread(x)
  <2>1. f.pc = "reread" /\ Goto(x, Idle) /\ UNCHANGED <<record, active, kernel>>
    BY <1>4 DEF Reread, redis
  <2>2. p \in active /\ record[p] # None
    BY <1>2, <2>1 DEF AppAt
  <2>3. PICK job : job = JobOf("reenforce", p, record[p], f.pol)
    OBVIOUS
  <2>4. /\ job \in Job /\ job.pid = p /\ job.action = "reenforce" /\ job.policy = record[p]
        /\ queue' = Emitted(job)
    BY <1>1, <1>2, <1>4, <2>1, <2>2, <2>3 DEF JobOf, Job, Good, Holding, Reread
  <2>5. JobFits(p, job)'
    BY <2>1, <2>2, <2>4 DEF JobFits
  <2>6. OnlyJob(queue', p, job)
    BY <1>2, <2>4, JobComes
  <2> HIDE DEF f
  <2> QED
    BY <1>2, <2>1, <2>2, <2>4, <2>5, <2>6, AtRest
<1>5. CASE AddToActive(x)
  <2> DEFINE g == [f EXCEPT !.pc = "emit"]
  <2>1. f.pc = "zadd" /\ Goto(x, g) /\ UNCHANGED <<record, queue>> /\ active' = active \cup {p}
    BY <1>5 DEF AddToActive
  <2>2. g.pc = "emit" /\ g.pid = p /\ g.job = f.job /\ g.pol = f.pol
    BY <1>1 DEF Frame
  <2> HIDE DEF g
  <2>3. proc'[x] = g
    BY <1>1, <2>1, Parts DEF Goto, GoodProcs
  <2>4. AppAt(p, proc[x])'
    BY <1>2, <2>1, <2>2, <2>3 DEF AppAt, On
  <2> HIDE DEF f
  <2> QED
    BY <1>2, <2>1, <2>2, <2>4, AppGoesOn
<1> QED
  BY <1>3, <1>4, <1>5 DEF ClientStep

\* A policy is quiet when nobody is at it, and then it is as redis says.
LEMMA QuietIsRight ==
  ASSUME IInv, Orderly, NEW p \in Pids, QuietFor(p)
  PROVE  /\ NoJob(queue, p) /\ Nobody(p) /\ Right(p)
         /\ record[p] # None => ~record[p].idle /\ p \in active
<1>1. Stage(p)
  BY DEF Orderly
<1>2. NoJob(queue, p)
  <2>1. DOMAIN queue = 1 .. Len(queue)
    BY Parts
  <2> QED
    BY <2>1 DEF QuietFor, NoJob
<1>3. ~(\E job \in Job : OnlyJob(queue, p, job) /\ JobFits(p, job))
  BY <1>2 DEF NoJob, OnlyJob, JobFits
<1>4. \A x \in Procs : Alone(p, x) => proc[x].pc = "armed"
  BY DEF QuietFor, Alone
<1>5. Clients \subseteq Procs /\ Handlers \subseteq Procs
  BY DEF Procs
<1>6. NoJob(queue, p) /\ Nobody(p) /\ Right(p)
  BY <1>1, <1>3, <1>4, <1>5 DEF Stage, AppAt, JobAt
<1>7. record[p] # None => ~record[p].idle /\ p \in active
  BY <1>1, <1>4, <1>5 DEF Stage
<1> QED
  BY <1>6, <1>7

LEMMA CreateStays ==
  ASSUME Patient, IInv, Base, Orderly, NEW x \in Clients, NEW p \in Pids, NEW l \in Lives,
         Create(x, p, l)
  PROVE  Stays(p)
<1> DEFINE policy == [disabled |-> FALSE, idle |-> FALSE, life |-> l]
           g == [Idle EXCEPT !.pc = "zadd", !.pid = p, !.pol = policy, !.job = "enforce"]
<1>1. NoJob(queue, p) /\ \A y \in Procs \ {x} : proc[y].pid # p
  BY QuietIsRight DEF Create, Begins, Nobody
<1>2. /\ Goto(x, g) /\ record'[p] = policy /\ UNCHANGED <<active, queue>>
  BY Parts DEF Create
<1>3. ~policy.disabled /\ ~policy.idle
  OBVIOUS
<1>4. g.pc = "zadd" /\ g.pid = p /\ g.pol = policy /\ g.job = "enforce"
  BY DEF Idle
<1> HIDE DEF g, policy
<1>5. NoTimer /\ x \in Procs
  BY DEF Orderly, Procs
<1>6. proc'[x] = g
  BY <1>2, <1>5, Parts DEF Goto, GoodProcs
<1>7. AppAt(p, proc[x])'
  BY <1>2, <1>3, <1>4, <1>6 DEF AppAt
<1> QED
  BY <1>1, <1>2, <1>3, <1>4, <1>5, <1>7, AppGoesOn

LEMMA MessageStays ==
  ASSUME Patient, ~Pausing, IInv, Base, Orderly, NEW x \in Clients, NEW p \in Pids, Message(x, p)
  PROVE  Stays(p)
<1> DEFINE open == [Idle EXCEPT !.pc = "open", !.pid = p]
           Enables == [open EXCEPT !.patch = "enable", !.then = "emit", !.job = "enforce"]
           Disables == [open EXCEPT !.patch = "disable", !.then = "emit", !.job = "unenforce"]
           Deletes == [open EXCEPT !.then = "drop", !.job = "unenforce"]
           Edits(edit) == [open EXCEPT !.patch = edit, !.then = "reread", !.job = "reenforce"]
           Opens(g) == /\ g.pc = "open" /\ g.pid = p
                       /\ Asks(g) \/ (g.then = "drop" /\ g.job = "unenforce")
<1>1. /\ NoJob(queue, p) /\ \A y \in Procs \ {x} : proc[y].pid # p
      /\ Right(p) /\ (record[p] # None => ~record[p].idle /\ p \in active)
      /\ NoTimer /\ x \in Procs
  BY QuietIsRight DEF Message, Begins, Nobody, Orderly, Procs
<1>2. PICK g : Goto(x, g) /\ Opens(g)
  <2>1. Opens(Enables) /\ Opens(Disables) /\ Opens(Deletes) /\ \A edit \in Lives : Opens(Edits(edit))
    BY DEF Idle, Asks
  <2>2. \/ Goto(x, Enables) \/ Goto(x, Disables) \/ Goto(x, Deletes)
        \/ \E edit \in Lives : Goto(x, Edits(edit))
    <3>1. Lives \cup (IF Pausing THEN {"pause"} ELSE {}) = Lives
      OBVIOUS
    <3> QED
      BY <3>1, Zenon DEF Message
  <2> HIDE DEF Opens, Enables, Disables, Deletes, Edits
  <2> QED
    BY <2>1, <2>2
<1>3. UNCHANGED <<record, active, queue, kernel>>
  BY DEF Message, redis
<1>4. proc'[x] = g
  BY <1>1, <1>2, Parts DEF Goto, GoodProcs
<1>5. AppAt(p, proc[x])'
  BY <1>1, <1>2, <1>3, <1>4 DEF AppAt, Asks, Right
<1> QED
  BY <1>1, <1>2, <1>3, <1>5, AppGoesOn

LEMMA TakeJobStays ==
  ASSUME Lives = {"plain"}, IInv, Base, Orderly, NEW h \in Handlers, TakeJob(h),
         NEW p \in Pids, Head(queue).pid = p
  PROVE  Stays(p)
<1>1. /\ queue # <<>> /\ queue' = Tail(queue) /\ queue \in Seq(Job) /\ h \in Procs
      /\ UNCHANGED <<record, active, fireMain, kernel>>
  BY DEF TakeJob, IInv, TypeInv, TypeOK, redis, Procs
<1>2. Stage(p) /\ NoTimer
  BY DEF Orderly
<1>3. ~NoJob(queue, p)
  BY <1>1, TailKeeps DEF NoJob
<1>4. Nobody(p) /\ \E job \in Job : OnlyJob(queue, p, job) /\ JobFits(p, job)
  BY <1>2, <1>3 DEF Stage
<1>5. PICK job \in Job : OnlyJob(queue, p, job) /\ JobFits(p, job)
  BY <1>4
<1>6. Head(queue) = job /\ NoJob(queue', p)
  BY <1>1, <1>5, TailKeeps DEF JobFits
<1>7. /\ \A y \in Procs \ {h} : proc[y].pid # p
      /\ record[p] # None => ~record[p].idle /\ p \in active /\ record[p] \in Policy
      /\ p \in active => record[p] # None
  BY <1>2, <1>4, Parts DEF Stage, Nobody, Alone, Procs, ActiveHasRecord
<1>8. CASE job.action = "enforce"
  <2>1. Enforce(h, p, record[p]) /\ p \in active /\ ~record[p].disabled
    BY <1>5, <1>6, <1>8 DEF TakeJob, JobFits, On
  <2> QED
    BY <1>1, <1>2, <1>6, <1>7, <2>1, EnforceStays
<1>9. CASE job.action # "enforce"
  <2>1. PICK next, pol : /\ Unenforce(h, p, pol, next)
                         /\ IF next = None THEN ~On(p) ELSE p \in active /\ next = record[p]
    <3>1. CASE job.action = "unenforce"
      <4>1. Unenforce(h, p, job.policy, None) /\ ~On(p)
        BY <1>5, <1>6, <3>1 DEF TakeJob, JobFits
      <4> QED
        BY <4>1
    <3>2. CASE job.action = "reenforce"
      <4>1. Unenforce(h, p, job.oldPolicy, record[p]) /\ p \in active
        BY <1>5, <1>6, <3>2 DEF TakeJob, JobFits
      <4> QED
        BY <1>7, <4>1
    <3> QED
      BY <1>5, <1>9, <3>1, <3>2 DEF JobFits
  <2> DEFINE g == [Idle EXCEPT !.pc = "check", !.pid = p, !.pol = pol, !.next = next]
  <2>2. g.pc = "check" /\ g.pid = p /\ g.next = next
    BY DEF Idle
  <2>3. Goto(h, g)
    <3>1. Invalidated(proc, p) = proc
      <4>1. \A y \in Procs : y = enabledTimers[p] => proc[y].pc # "armed"
        BY <1>2, Parts, ManagerAssumption DEF NoTimer, TimerTable, Procs
      <4>2. proc \in [Procs -> Frame]
        BY Parts DEF GoodProcs
      <4> QED
        BY <4>1, <4>2, Zenon DEF Invalidated, ClearTimeout
    <3> QED
      BY <2>1, <3>1 DEF Unenforce, Goto
  <2> HIDE DEF g
  <2>4. proc'[h] = g
    BY <1>1, <2>3, Parts DEF Goto, GoodProcs
  <2>5. JobAt(p, proc[h])'
    BY <1>1, <2>1, <2>2, <2>4 DEF JobAt, On
  <2> QED
    BY <1>1, <1>2, <1>6, <1>7, <2>2, <2>3, <2>5, JobGoesOn
<1> QED
  BY <1>8, <1>9

\* A step for one policy leaves everything in order if it does so for that one.
LEMMA OrderlyMoves ==
  ASSUME IInv, Orderly, NEW x \in Procs, NEW q \in Pids, Moves(q, x), Stays(q)
  PROVE  Orderly'
<1>1. \A p \in Pids : Stage(p)'
  BY OthersKeepStage DEF Orderly, Stays
<1> QED
  BY <1>1 DEF Orderly, Stays, Moves

LEMMA OrderlyProcStep ==
  ASSUME Lives = {"plain"}, IInv, Base, Orderly, NEW x \in Procs, ProcStep(x)
  PROVE  Orderly'
<1>1. proc[x].pc # "idle"
  BY DEF ProcStep, Read, Write, Check, RemoveRules, InstallRules, Drop, Emit
<1>2. proc[x].pid \in Pids /\ Moves(proc[x].pid, x)
  BY <1>1, Worker, ReadMoves, WriteMoves, CheckMoves, RemoveRulesMoves,
     InstallRulesMoves, DropMoves, EmitMoves DEF ProcStep
<1>3. PICK q \in Pids : q = proc[x].pid
  BY <1>2
<1>4. Stays(q)
  BY <1>3, ReadStays, WriteStays, CheckStays, RemoveRulesStays, InstallRulesStays,
     DropStays, EmitStays DEF ProcStep
<1> QED
  BY <1>2, <1>3, <1>4, OrderlyMoves

\* The same for what the app does.
LEMMA OrderlyApp ==
  ASSUME Patient, ~Pausing, IInv, Base, Orderly, NEW x \in Clients,
         \/ ClientStep(x)
         \/ \E p \in Pids : Message(x, p) \/ \E l \in Lives : Create(x, p, l)
  PROVE  Orderly'
<1>1. x \in Procs
  BY DEF Procs
<1>2. CASE ClientStep(x)
  <2>1. proc[x].pc # "idle"
    BY <1>2 DEF ClientStep, Open, Reread, AddToActive
  <2>2. PICK q \in Pids : q = proc[x].pid
    BY <1>1, <2>1, Worker
  <2>3. Moves(q, x) /\ Stays(q)
    BY <1>2, <2>2, ClientMoves, ClientStays
  <2> QED
    BY <1>1, <2>3, OrderlyMoves
<1>3. ASSUME NEW p \in Pids, Message(x, p)
      PROVE  Orderly'
  BY <1>1, <1>3, MessageMoves, MessageStays, OrderlyMoves
<1>4. ASSUME NEW p \in Pids, NEW l \in Lives, Create(x, p, l)
      PROVE  Orderly'
  BY <1>1, <1>4, CreateMoves, CreateStays, OrderlyMoves
<1> QED
  BY <1>2, <1>3, <1>4

LEMMA InitSettleInv ==
  ASSUME Init
  PROVE  SettleInv
<1>1. HealInv
  BY InitHealInv
<1>2. NoTimer
  BY DEF Init, NoTimer, Procs, Idle
<1>3. \A p \in Pids : Stage(p)
  <2> TAKE p \in Pids
  <2>1. record[p] = None /\ p \notin active /\ ~kernel[p] /\ queue = <<>>
    BY DEF Init
  <2>2. Nobody(p)
    BY ManagerAssumption DEF Init, Nobody, Idle
  <2>3. NoJob(queue, p) /\ Right(p)
    BY <2>1 DEF NoJob, Right
  <2> QED
    BY <2>1, <2>2, <2>3 DEF Stage
<1> QED
  BY <1>1, <1>2, <1>3 DEF SettleInv, Orderly, Init

LEMMA NextSettleInv ==
  ASSUME Patient, ~Pausing, Lives = {"plain"}, SettleInv, [Next]_vars
  PROVE  SettleInv'
<1>1. HealInv'
  BY NextHealInv DEF SettleInv
<1> SUFFICES ASSUME crashes' = 0
             PROVE  Orderly'
  BY <1>1 DEF SettleInv
<1>2. IInv /\ Base
  BY DEF SettleInv, HealInv
<1>3. ~Crash /\ crashes = 0
  <2>1. crashes \in Nat
    BY <1>2 DEF IInv, TypeInv, TypeOK, ManagerAssumption
  <2>2. ~Crash
    BY <2>1 DEF Crash
  <2>3. crashes' = crashes
    <3>1. CASE Work
      BY <3>1 DEF Work, ProcStep, Read, Write, Check, RemoveRules, InstallRules, Drop, Emit,
         ClientStep, Open, Reread, AddToActive, TakeJob, JobDone, Look, Boot, BootLoad, bounds
    <3>2. CASE ~Work
      BY <2>2, <3>2 DEF Next, Message, Create, TimerFires, JobTimeout, vars, bounds
    <3> QED
      BY <3>1, <3>2
  <2> QED
    BY <2>2, <2>3
<1>4. Orderly
  BY <1>3 DEF SettleInv
<1>5. ASSUME UNCHANGED <<record, active, queue, fireMain, proc, kernel>>
      PROVE  Orderly'
  BY <1>4, <1>5 DEF Orderly, NoTimer, Stage, NoJob, OnlyJob, Nobody, Alone, Right, On,
     AppAt, Asks, JobFits, JobAt
<1>6. CASE Work
  <2>1. ASSUME NEW x \in Procs, ProcStep(x)
        PROVE  Orderly'
    BY <1>2, <1>4, <2>1, OrderlyProcStep
  <2>2. ASSUME NEW x \in Clients, ClientStep(x)
        PROVE  Orderly'
    BY <1>2, <1>4, <2>2, OrderlyApp
  <2>3. ASSUME NEW h \in Handlers, TakeJob(h)
        PROVE  Orderly'
    <3>1. h \in Procs
      BY DEF Procs
    <3>2. PICK q \in Pids : q = Head(queue).pid
      BY <1>2, <2>3, TakeJobMoves
    <3>3. Moves(q, h) /\ Stays(q)
      BY <1>2, <1>4, <2>3, <3>2, TakeJobMoves, TakeJobStays
    <3> QED
      BY <1>2, <1>4, <3>1, <3>3, OrderlyMoves
  <2>4. ASSUME NEW h \in Handlers, JobDone(h)
        PROVE  Orderly'
    BY <1>5, <2>4 DEF JobDone, redis
  <2>5. ASSUME NEW t \in Timers, Look(t)
        PROVE  FALSE
    BY <1>4, <2>5 DEF Look, Orderly, NoTimer
  <2>6. ~Boot /\ ~BootLoad
    BY <1>4 DEF Orderly, Boot, BootLoad
  <2> QED
    BY <1>6, <2>1, <2>2, <2>3, <2>4, <2>5, <2>6 DEF Work
<1>7. ASSUME NEW x \in Clients, NEW p \in Pids, Message(x, p) \/ \E l \in Lives : Create(x, p, l)
      PROVE  Orderly'
  BY <1>2, <1>4, <1>7, OrderlyApp
<1>8. ASSUME NEW t \in Timers, TimerFires(t)
      PROVE  FALSE
  BY <1>4, <1>8 DEF TimerFires, Orderly, NoTimer
<1>9. ASSUME NEW h \in Handlers, JobTimeout(h)
      PROVE  Orderly'
  BY <1>5, <1>9 DEF JobTimeout, redis
<1>10. CASE UNCHANGED vars
  BY <1>5, <1>10 DEF vars
<1> QED
  BY <1>3, <1>6, <1>7, <1>8, <1>9, <1>10 DEF Next

\* For plain policies that are not paused, and an app that lets FireMain catch up
\* before it sends the next message about a policy: whatever messages it sends, and
\* however the loads, the whole-record writes of updatePolicyAsync, the jobs and
\* the handlers of the queue interleave between policies, a policy for which
\* nothing is under way is in the kernel exactly when it is listed and enabled.
THEOREM QuietIsSettled ==
  ASSUME Patient, ~Pausing, Lives = {"plain"}
  PROVE  Spec => []Settled
<1>1. SettleInv /\ [Next]_vars => SettleInv'
  BY NextSettleInv
<1>2. ASSUME SettleInv
      PROVE  Settled
  BY <1>2, QuietIsRight DEF SettleInv, HealInv, Settled, Right
<1> QED
  BY <1>1, <1>2, InitSettleInv, PTL DEF Spec
-----------------------------------------------------------------------------
(* DomainBlock. The mapping of a domain is written before its ipset by the    *)
(* job and by every answer, so that MappedIsBlocked does not hold between the *)
(* two. The invariant behind it says who makes up for it: an address that is  *)
(* mapped and not blocked is one that an answer has found new and will block, *)
(* or the job is at a point where it adds the mapping it has read or drops    *)
(* the mapping altogether.                                                    *)

\* The addresses that answers have found new and have not blocked yet.
Coming == UNION {line[l].fresh : l \in {k \in Lines : line[k].pc \in {"save", "block"}}}

\* A job has not made up for what it wrote to the mapping: it will read and add
\* it, adds what it has read, or has unblocked what it is about to drop.
JobCovers ==
    /\ domain_job.pc \notin {"apply", "add", "forget"} => mapping \subseteq ipset \cup Coming
    /\ domain_job.pc = "add" => mapping \subseteq ipset \cup Coming \cup domain_job.addrs

\* An answer saves only what it blocks afterwards.
SavesItsOwn == \A l \in Lines : line[l].pc = "save" => line[l].todo \subseteq line[l].fresh

DomainInv == Domain!TypeOK /\ JobCovers /\ SavesItsOwn

-----------------------------------------------------------------------------
(* Types *)

\* What lookups find of a domain are addresses.
LEMMA KnownIsAddrs ==
  ASSUME Domain!TypeOK
  PROVE  Domain!Known \subseteq Addrs
BY DomainAssumed DEF Domain!DomainAssumption, Domain!TypeOK, Domain!Known

\* One step of a job, of an answer or of the queue keeps the types.
LEMMA DomainTypeStep == Domain!TypeOK /\ [Domain!Next]_(Domain!vars) => Domain!TypeOK'
<1> SUFFICES ASSUME Domain!TypeOK, [Domain!Next]_(Domain!vars) PROVE Domain!TypeOK'
  OBVIOUS
<1> USE DEF Domain!TypeOK, Domain!NoJob, Domain!NoLine
<1>1. CASE Domain!Operate
  <2>1. (IF wanted THEN "unblock" ELSE "block") \in {"block", "unblock"}
    OBVIOUS
  <2>2. domain_queue' \in Seq({"block", "unblock"})
    BY <1>1, <2>1, AppendProperties DEF Domain!Operate
  <2>3. domain_ops' \in 0 .. MaxDomainOps
    BY <1>1, DomainAssumed DEF Domain!DomainAssumption, Domain!Operate
  <2> QED
    BY <1>1, <2>2, <2>3 DEF Domain!Operate
<1>2. CASE Domain!TakeJob
  <2>1. domain_queue' \in Seq({"block", "unblock"})
    BY <1>2, HeadTailProperties DEF Domain!TakeJob
  <2> QED
    BY <1>2, <2>1 DEF Domain!TakeJob
<1>3. CASE Domain!Resolve
  BY <1>3, DomainAssumed DEF Domain!DomainAssumption, Domain!Resolve
<1>4. CASE Domain!List
  BY <1>4, KnownIsAddrs DEF Domain!List
<1>5. CASE Domain!Save
  BY <1>5 DEF Domain!Save
<1>6. CASE Domain!ReadMapping
  BY <1>6 DEF Domain!ReadMapping
<1>7. CASE Domain!ApplyBlock
  BY <1>7 DEF Domain!ApplyBlock
<1>8. CASE Domain!UnapplyBlock
  BY <1>8 DEF Domain!UnapplyBlock
<1>9. CASE Domain!RemoveMapping
  BY <1>9 DEF Domain!RemoveMapping
<1>10. CASE Domain!Unregister
  BY <1>10 DEF Domain!Unregister
<1>11. ASSUME NEW l \in Lines, NEW n \in Names, NEW as \in SUBSET Addrs \ {{}}, Domain!Answer(l, n, as)
       PROVE  Domain!TypeOK'
  BY <1>11 DEF Domain!Answer
<1>12. ASSUME NEW l \in Lines, Domain!Update(l) PROVE Domain!TypeOK'
  BY <1>12, DomainAssumed, ZenonT(60) DEF Domain!DomainAssumption, Domain!Update
<1>13. ASSUME NEW l \in Lines, Domain!SaveOne(l) PROVE Domain!TypeOK'
  <2>1. PICK a \in line[l].todo :
           /\ mapping' = mapping \cup {a}
           /\ line' = [line EXCEPT ![l].todo = @ \ {a},
                                   ![l].pc = IF line[l].todo = {a} THEN "block" ELSE "save"]
    BY <1>13 DEF Domain!SaveOne
  <2>2. a \in Addrs
    BY <2>1
  <2>3. line' \in [Lines -> [pc : {"idle", "update", "save", "block"}, name : Names,
                             fresh : SUBSET Addrs, todo : SUBSET Addrs]]
    <3> DEFINE old == line[l]
               new == [old EXCEPT !.todo = @ \ {a},
                                  !.pc = IF old.todo = {a} THEN "block" ELSE "save"]
    <3>1. old \in [pc : {"idle", "update", "save", "block"}, name : Names,
                   fresh : SUBSET Addrs, todo : SUBSET Addrs]
      OBVIOUS
    <3>2. new \in [pc : {"idle", "update", "save", "block"}, name : Names,
                   fresh : SUBSET Addrs, todo : SUBSET Addrs]
      <4> HIDE DEF old
      <4> QED
        BY <3>1
    <3>3. line' = [line EXCEPT ![l] = new]
      BY <2>1, Zenon
    <3> HIDE DEF new
    <3> QED
      BY <3>2, <3>3
  <2> QED
    BY <1>13, <2>1, <2>2, <2>3 DEF Domain!SaveOne
<1>14. ASSUME NEW l \in Lines, Domain!BatchBlock(l) PROVE Domain!TypeOK'
  BY <1>14, DomainAssumed DEF Domain!DomainAssumption, Domain!BatchBlock, Domain!Added
<1>15. CASE UNCHANGED Domain!vars
  BY <1>15 DEF Domain!vars
<1> QED
  BY <1>1, <1>2, <1>3, <1>4, <1>5, <1>6, <1>7, <1>8, <1>9, <1>10, <1>11, <1>12, <1>13,
     <1>14, <1>15 DEF Domain!Next, Domain!Work, Domain!LineStep

-----------------------------------------------------------------------------
(* The mapping is covered *)

\* A step that leaves the answers as they are leaves what they will block.
LEMMA ComingStays == UNCHANGED line => UNCHANGED Coming
BY DEF Coming

\* What an answer that has found new addresses has found is to come.
LEMMA FreshIsComing ==
  ASSUME NEW l \in Lines, line[l].pc \in {"save", "block"}
  PROVE  line[l].fresh \subseteq Coming
BY DEF Coming

LEMMA InitDomainInv == Domain!Init => DomainInv
<1> SUFFICES ASSUME Domain!Init PROVE DomainInv
  OBVIOUS
<1>1. Domain!TypeOK
  <2>1. <<>> \in Seq({"block", "unblock"})
    OBVIOUS
  <2>2. 0 \in 0 .. MaxDomainOps /\ Top \in Names
    BY DomainAssumed DEF Domain!DomainAssumption
  <2> QED
    BY <2>1, <2>2 DEF Domain!Init, Domain!TypeOK, Domain!NoJob, Domain!NoLine
<1>2. JobCovers /\ SavesItsOwn
  BY DEF Domain!Init, JobCovers, SavesItsOwn, Domain!NoJob, Domain!NoLine
<1> QED
  BY <1>1, <1>2 DEF DomainInv

LEMMA StepDomainInv == DomainInv /\ [Domain!Next]_(Domain!vars) => DomainInv'
<1> SUFFICES ASSUME DomainInv, [Domain!Next]_(Domain!vars) PROVE DomainInv'
  OBVIOUS
<1>t. Domain!TypeOK /\ Domain!TypeOK' /\ JobCovers /\ SavesItsOwn
  BY DomainTypeStep DEF DomainInv
<1>s. SUFFICES JobCovers' /\ SavesItsOwn'
  BY <1>t DEF DomainInv
<1>j. domain_job \in [pc : {"idle", "resolve", "list", "save", "apply", "add",
                     "mapped", "del", "forget", "unregister"}, addrs : SUBSET Addrs]
  BY <1>t DEF Domain!TypeOK
<1>l. line \in [Lines -> [pc : {"idle", "update", "save", "block"}, name : Names,
                          fresh : SUBSET Addrs, todo : SUBSET Addrs]]
  BY <1>t DEF Domain!TypeOK
<1>1. CASE Domain!Operate
  BY <1>1, <1>t, ComingStays DEF Domain!Operate, JobCovers, SavesItsOwn
<1>2. CASE Domain!TakeJob
  BY <1>2, <1>t, <1>j, ComingStays DEF Domain!TakeJob, JobCovers, SavesItsOwn, Domain!NoJob
<1>3. CASE Domain!Resolve
  BY <1>3, <1>t, <1>j, ComingStays DEF Domain!Resolve, JobCovers, SavesItsOwn
<1>4. CASE Domain!List
  BY <1>4, <1>t, <1>j, ComingStays DEF Domain!List, JobCovers, SavesItsOwn
<1>5. CASE Domain!Save
  BY <1>5, <1>t, <1>j, ComingStays DEF Domain!Save, JobCovers, SavesItsOwn
<1>6. CASE Domain!ReadMapping
  BY <1>6, <1>t, <1>j, ComingStays DEF Domain!ReadMapping, JobCovers, SavesItsOwn
<1>7. CASE Domain!ApplyBlock
  BY <1>7, <1>t, <1>j, ComingStays DEF Domain!ApplyBlock, JobCovers, SavesItsOwn, Domain!NoJob
<1>8. CASE Domain!UnapplyBlock
  BY <1>8, <1>t, <1>j DEF Domain!UnapplyBlock, JobCovers, SavesItsOwn, Domain!NoJob
<1>9. CASE Domain!RemoveMapping
  BY <1>9, <1>t, <1>j DEF Domain!RemoveMapping, JobCovers, SavesItsOwn
<1>10. CASE Domain!Unregister
  BY <1>10, <1>t, <1>j, ComingStays DEF Domain!Unregister, JobCovers, SavesItsOwn, Domain!NoJob
<1>11. ASSUME NEW l \in Lines, NEW n \in Names, NEW as \in SUBSET Addrs \ {{}}, Domain!Answer(l, n, as)
       PROVE  JobCovers' /\ SavesItsOwn'
  <2>1. \A k \in Lines : /\ k # l => line'[k] = line[k]
                         /\ line[l].pc = "idle" /\ line'[l].pc = "update"
    BY <1>11, <1>l DEF Domain!Answer
  <2>2. Coming' = Coming
    BY <2>1 DEF Coming
  <2> QED
    BY <1>11, <1>t, <2>1, <2>2 DEF Domain!Answer, JobCovers, SavesItsOwn
<1>12. ASSUME NEW l \in Lines, Domain!Update(l) PROVE JobCovers' /\ SavesItsOwn'
  <2>1. \A k \in Lines : k # l => line'[k] = line[k]
    BY <1>12, <1>l DEF Domain!Update
  <2>2. Coming \subseteq Coming'
    BY <1>12, <2>1 DEF Coming, Domain!Update
  <2>3. line'[l].pc = "save" => line'[l].todo \subseteq line'[l].fresh
    BY <1>12, <1>l DEF Domain!Update, Domain!NoLine
  <2> QED
    BY <1>12, <1>t, <2>1, <2>2, <2>3 DEF Domain!Update, JobCovers, SavesItsOwn
<1>13. ASSUME NEW l \in Lines, Domain!SaveOne(l) PROVE JobCovers' /\ SavesItsOwn'
  <2>1. PICK a \in line[l].todo :
           /\ mapping' = mapping \cup {a}
           /\ line' = [line EXCEPT ![l].todo = @ \ {a},
                                   ![l].pc = IF line[l].todo = {a} THEN "block" ELSE "save"]
    BY <1>13 DEF Domain!SaveOne
  <2>2. \A k \in Lines : k # l => line'[k] = line[k]
    BY <2>1, <1>l
  <2>3. /\ line'[l].fresh = line[l].fresh /\ line'[l].pc \in {"save", "block"}
        /\ line'[l].todo \subseteq line[l].todo /\ line[l].pc = "save"
    BY <1>13, <2>1, <1>l DEF Domain!SaveOne
  <2>4. Coming' = Coming
    BY <2>2, <2>3 DEF Coming
  <2>5. a \in Coming
    BY <1>t, <2>3, FreshIsComing DEF SavesItsOwn
  <2> QED
    BY <1>13, <1>t, <2>1, <2>2, <2>3, <2>4, <2>5 DEF Domain!SaveOne, JobCovers, SavesItsOwn
<1>14. ASSUME NEW l \in Lines, Domain!BatchBlock(l) PROVE JobCovers' /\ SavesItsOwn'
  <2>1. \A k \in Lines : k # l => line'[k] = line[k]
    BY <1>14, <1>l DEF Domain!BatchBlock
  <2>2. line'[l].pc = "idle"
    BY <1>14, <1>l DEF Domain!BatchBlock, Domain!NoLine
  <2>3. Coming \subseteq Coming' \cup line[l].fresh
    BY <2>1 DEF Coming
  <2> QED
    BY <1>14, <1>t, <2>1, <2>2, <2>3 DEF Domain!BatchBlock, Domain!Added, JobCovers, SavesItsOwn
<1>15. CASE UNCHANGED Domain!vars
  BY <1>15, <1>t, ComingStays DEF Domain!vars, JobCovers, SavesItsOwn
<1> QED
  BY <1>1, <1>2, <1>3, <1>4, <1>5, <1>6, <1>7, <1>8, <1>9, <1>10, <1>11, <1>12, <1>13,
     <1>14, <1>15 DEF Domain!Next, Domain!Work, Domain!LineStep

-----------------------------------------------------------------------------
(* Theorems *)

\* A job of the queue and the answers beside it leave no address of a blocked
\* domain mapped and open, however they interleave: block or unblock of
\* DomainBlock.js, updateDomainMapping of DomainUpdater.js.
THEOREM MappedAreBlocked == Domain!Spec => []MappedIsBlocked
<1>1. ASSUME DomainInv PROVE MappedIsBlocked
  <2> SUFFICES ASSUME Domain!AtRest PROVE mapping \subseteq ipset
    BY DEF MappedIsBlocked, Domain!MappedIsBlocked
  <2>1. Coming = {}
    BY DEF Domain!AtRest, Coming, Domain!NoLine
  <2>2. domain_job.pc = "idle"
    BY DEF Domain!AtRest, Domain!NoJob
  <2> QED
    BY <1>1, <2>1, <2>2 DEF DomainInv, JobCovers
<1> QED
  BY <1>1, InitDomainInv, StepDomainInv, PTL DEF Domain!Spec
=============================================================================

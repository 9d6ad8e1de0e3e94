--------------------------- MODULE DisableAllProofs --------------------------
(***************************************************************************)
(* Theorems about DisableAll, for any number of policies, tasks, timeouts, *)
(* operations of the app and crashes, and about VpnClient, for any calls,  *)
(* operations of the app, broken links and failed starts.                  *)
(*                                                                         *)
(* The former rest on one idea: what the kernel will be is decided by work *)
(* that is under way.  A rule settles on an action when no job of the      *)
(* opposite action comes after the last one that does it; and whenever a   *)
(* rule does not settle on what it should be, something that will load it  *)
(* again (an event, a check, a load, a timeout that is due) is under way.  *)
(***************************************************************************)
EXTENDS MCDisableAll, FiniteSetTheorems, SequenceTheorems, TLAPS

Actions == {"enforce", "unenforce"}
Opposite(action) == IF action = "enforce" THEN "unenforce" ELSE "enforce"
Says(job, action, r) == job.action = action /\ job.rule = r

\* A queue has a job that does this to r, has none, or has one after which none
\* does the opposite.
Holds(qs, action, r) == \E i \in 1 .. Len(qs) : Says(qs[i], action, r)
Without(qs, action, r) == \A i \in 1 .. Len(qs) : ~Says(qs[i], action, r)
Ends(qs, action, r) ==
    \E i \in 1 .. Len(qs) :
        /\ Says(qs[i], action, r)
        /\ \A j \in 1 .. Len(qs) : j > i => ~Says(qs[j], Opposite(action), r)

\* When the jobs of the queue and the worker are done, this has been done to r.
Settles(action, r) ==
    \/ Ends(queue, action, r)
    \/ /\ Without(queue, Opposite(action), r)
       /\ worker # NoJob => ~Says(worker.job, Opposite(action), r)
       /\ kernel[r] = (action = "enforce") \/ (worker # NoJob /\ Says(worker.job, action, r))

\* Only a task that is to turn the flag off waits for its jobs.
Steady(f) == /\ f.thenOff => f.pc \in {"load", "wait", "off"}
             /\ f.pc \in {"wait", "off"} => f.thenOff

Measured == events <= ops /\ flag.start <= now /\ flag.start + flag.expire <= MaxNow
Stopped == ~up => /\ events = 0 /\ worker = NoJob
                  /\ \A k \in Tasks : task[k] = Idle
                  /\ \A t \in Timers : armed[t] = None
Checked == worker.pc = "check" => worker.job.action = "enforce"
Written == \A r \in Rules :
    /\ app[r] = "enable" => enabled[r]
    /\ app[r] = "disable" => ~enabled[r]

TypeInv == TypeOK /\ Measured /\ Stopped /\ Checked /\ Written /\ \A k \in Tasks : Steady(task[k])

At(k, pcs) == task[k].pc \in pcs
Checking == events > 0 \/ \E k \in Tasks : At(k, {"flag"})
Loading(action) == \E k \in Tasks : At(k, {"load"}) /\ task[k].action = action

\* A pause with an end will get its timeout, is being ended, or has it.
EndComes == \/ Checking
            \/ \E k \in Tasks : At(k, {"times"}) \/ task[k].thenOff
            \/ \E t \in Timers : armed[t] = flag.start + flag.expire
EndIsComing == up /\ flag.on /\ flag.expire > 0 => EndComes

\* A rule that is disabled settles on that.
DisabledFades ==
    up => \A r \in Rules : ~enabled[r] /\ app[r] = "idle" => Settles("unenforce", r)

\* In a pause, a rule that is in the kernel, or about to be, will be taken out.
Entering(r) == kernel[r] \/ (worker.pc = "apply" /\ Says(worker.job, "enforce", r))
Leaving(r) == \/ worker.pc = "apply" /\ Says(worker.job, "unenforce", r)
              \/ Holds(queue, "unenforce", r)
WillLeave(r) == \/ Leaving(r) \/ app[r] = "disable" \/ events > 0
                \/ \E k \in Tasks : At(k, {"flag"}) /\ ~task[k].boot
                \/ enabled[r] /\ Loading("unenforce")
PausedFades == up /\ Paused => \A r \in Rules \ Inbound : Entering(r) => WillLeave(r)

\* As long as each operation finds earlier work done: there is one check at most ...
OneCheck == /\ events <= 1
            /\ \A k, l \in Tasks : At(k, {"flag", "times"}) =>
                  events = 0 /\ (At(l, {"flag", "times"}) => k = l)
\* ... which comes at the moment when the flag was turned on, and has cleared the
\* timeout before it reads the times,
ChecksAtOnce ==
    flag.on /\ (~up \/ Checking \/ \E k \in Tasks : At(k, {"times"})) => up /\ now = flag.start
ClearedFirst == \A k \in Tasks : At(k, {"times"}) => flag.on /\ \A t \in Timers : armed[t] = None
\* rules are removed in a pause, and nothing ends a pause before its time,
RemovesInPause ==
    \A k \in Tasks : At(k, {"load"}) /\ task[k].action = "unenforce" => Paused
EndsInTime == \A k \in Tasks : task[k].thenOff => ~Paused
\* and the one timeout that is armed is that of the pause.
OneTimer == \A t \in Timers : armed[t] # None => t = disableAllTimer
ArmedAhead == \A t \in Timers : armed[t] # None /\ Paused => armed[t] > now
ArmedForEnd ==
    flag.on /\ ~Checking =>
        \A t \in Timers : armed[t] # None => flag.expire > 0 /\ armed[t] = flag.start + flag.expire
Calm == /\ OneCheck /\ ChecksAtOnce /\ ClearedFirst /\ RemovesInPause /\ EndsInTime
        /\ OneTimer /\ ArmedAhead /\ ArmedForEnd
Orderly == ~disturbed => Calm

\* Then, outside a pause, a rule that is enabled settles on that or is loaded again.
WillRise(r) == \/ Checking \/ Loading("enforce") \/ Settles("enforce", r)
               \/ \E t \in Timers : Due(t)
EnabledRises ==
    up /\ ~disturbed /\ ~Paused =>
        \A r \in Rules : enabled[r] /\ app[r] = "idle" => WillRise(r)

-----------------------------------------------------------------------------
(* Queues *)

\* Jobs join the queue that do not do the opposite to r.
LEMMA Joined ==
  ASSUME NEW qs \in Seq(Job), NEW js \in Seq(Job), NEW action \in Actions, NEW r,
         Without(js, Opposite(action), r)
  PROVE  /\ Ends(qs, action, r) \/ Holds(js, action, r) => Ends(qs \o js, action, r)
         /\ Without(qs, Opposite(action), r) => Without(qs \o js, Opposite(action), r)
<1> DEFINE m == Len(qs)
           n == Len(js)
           rs == qs \o js
<1>1. /\ m \in Nat /\ n \in Nat /\ Len(rs) = m + n
      /\ \A i \in 1 .. m + n : rs[i] = IF i <= m THEN qs[i] ELSE js[i - m]
  OBVIOUS
<1> HIDE DEF rs, m, n
<1>2. ASSUME NEW i \in 1 .. m + n, i > m
      PROVE  ~Says(rs[i], Opposite(action), r)
  <2>1. i - m \in 1 .. n /\ rs[i] = js[i - m]
    BY <1>1, <1>2
  <2> QED
    BY <2>1 DEF Without, n
<1>3. ASSUME Ends(qs, action, r)
      PROVE  Ends(rs, action, r)
  <2>1. PICK i \in 1 .. m : /\ Says(qs[i], action, r)
                            /\ \A j \in 1 .. m : j > i => ~Says(qs[j], Opposite(action), r)
    BY <1>3 DEF Ends, m
  <2>2. i \in 1 .. m + n /\ rs[i] = qs[i]
    BY <1>1, <2>1
  <2>3. ASSUME NEW j \in 1 .. m + n, j > i
        PROVE  ~Says(rs[j], Opposite(action), r)
    <3>1. CASE j <= m
      BY <1>1, <2>1, <2>3, <3>1
    <3>2. CASE ~(j <= m)
      BY <1>1, <1>2, <3>2
    <3> QED
      BY <3>1, <3>2
  <2> QED
    BY <1>1, <2>1, <2>2, <2>3 DEF Ends
<1>4. ASSUME Holds(js, action, r)
      PROVE  Ends(rs, action, r)
  <2>1. PICK i \in 1 .. n : Says(js[i], action, r)
    BY <1>4 DEF Holds, n
  <2>2. m + i \in 1 .. m + n /\ rs[m + i] = js[i]
    BY <1>1, <2>1
  <2>3. \A j \in 1 .. m + n : j > m + i => ~Says(rs[j], Opposite(action), r)
    BY <1>1, <1>2
  <2> QED
    BY <1>1, <2>1, <2>2, <2>3 DEF Ends
<1>5. Without(qs, Opposite(action), r) => Without(rs, Opposite(action), r)
  BY <1>1, <1>2 DEF Without, m
<1> QED
  BY <1>3, <1>4, <1>5 DEF rs

LEMMA HoldsJoined ==
  ASSUME NEW qs \in Seq(Job), NEW js \in Seq(Job), NEW action, NEW r,
         Holds(qs, action, r) \/ Holds(js, action, r)
  PROVE  Holds(qs \o js, action, r)
<1> DEFINE m == Len(qs)
           n == Len(js)
           rs == qs \o js
<1>1. /\ m \in Nat /\ n \in Nat /\ Len(rs) = m + n
      /\ \A i \in 1 .. m + n : rs[i] = IF i <= m THEN qs[i] ELSE js[i - m]
  OBVIOUS
<1> HIDE DEF rs, m, n
<1>2. CASE Holds(qs, action, r)
  <2>1. PICK i \in 1 .. m : Says(qs[i], action, r)
    BY <1>2 DEF Holds, m
  <2> QED
    BY <1>1, <2>1 DEF Holds, rs
<1>3. CASE Holds(js, action, r)
  <2>1. PICK i \in 1 .. n : Says(js[i], action, r)
    BY <1>3 DEF Holds, n
  <2>2. m + i \in 1 .. m + n /\ rs[m + i] = js[i]
    BY <1>1, <2>1
  <2> QED
    BY <1>1, <2>1, <2>2 DEF Holds, rs
<1> QED
  BY <1>2, <1>3

\* The first job is taken.
LEMMA Taken ==
  ASSUME NEW qs \in Seq(Job), qs # <<>>, NEW action \in Actions, NEW r
  PROVE  /\ Head(qs) \in Job /\ Tail(qs) \in Seq(Job)
         /\ Without(qs, action, r) => Without(Tail(qs), action, r) /\ ~Says(Head(qs), action, r)
         /\ Holds(qs, action, r) => Holds(Tail(qs), action, r) \/ Says(Head(qs), action, r)
         /\ Ends(qs, action, r) =>
               \/ Ends(Tail(qs), action, r)
               \/ Says(Head(qs), action, r) /\ Without(Tail(qs), Opposite(action), r)
<1> DEFINE n == Len(qs)
           rs == Tail(qs)
<1>1. /\ n \in Nat \ {0} /\ Len(rs) = n - 1 /\ Head(qs) = qs[1]
      /\ \A i \in 1 .. n - 1 : rs[i] = qs[i + 1]
      /\ Head(qs) \in Job /\ rs \in Seq(Job)
  BY EmptySeq, HeadTailProperties
<1> HIDE DEF rs, n
<1>2. 1 \in 1 .. n /\ \A i \in 1 .. n - 1 : i + 1 \in 1 .. n /\ i + 1 > 1
  BY <1>1
<1>3. Without(qs, action, r) => Without(rs, action, r) /\ ~Says(qs[1], action, r)
  BY <1>1, <1>2 DEF Without, n
<1>4. ASSUME Holds(qs, action, r)
      PROVE  Holds(rs, action, r) \/ Says(qs[1], action, r)
  <2>1. PICK i \in 1 .. n : Says(qs[i], action, r)
    BY <1>4 DEF Holds, n
  <2>2. i # 1 => i - 1 \in 1 .. n - 1 /\ rs[i - 1] = qs[i]
    BY <1>1, <2>1
  <2> QED
    BY <1>1, <2>1, <2>2 DEF Holds
<1>5. ASSUME Ends(qs, action, r)
      PROVE  \/ Ends(rs, action, r)
             \/ Says(qs[1], action, r) /\ Without(rs, Opposite(action), r)
  <2>1. PICK i \in 1 .. n : /\ Says(qs[i], action, r)
                            /\ \A j \in 1 .. n : j > i => ~Says(qs[j], Opposite(action), r)
    BY <1>5 DEF Ends, n
  <2>2. CASE i = 1
    BY <1>1, <1>2, <2>1, <2>2 DEF Without
  <2>3. CASE i # 1
    <3>1. i - 1 \in 1 .. n - 1 /\ rs[i - 1] = qs[i]
      BY <1>1, <2>1, <2>3
    <3>2. \A j \in 1 .. n - 1 : j > i - 1 => ~Says(rs[j], Opposite(action), r)
      BY <1>1, <1>2, <2>1
    <3> QED
      BY <1>1, <2>1, <3>1, <3>2 DEF Ends
  <2> QED
    BY <2>2, <2>3
<1> QED
  BY <1>1, <1>3, <1>4, <1>5 DEF rs

-----------------------------------------------------------------------------
(* Tasks *)

LEMMA SomeTasks ==
  /\ Idle \in Task /\ Idle.pc = "idle" /\ ~Idle.thenOff /\ Steady(Idle)
  /\ \A boot \in BOOLEAN :
        /\ Check(boot) \in Task /\ Check(boot).pc = "flag" /\ ~Check(boot).thenOff
        /\ Check(boot).boot = boot /\ Steady(Check(boot))
  /\ \A action \in Actions, thenOff \in BOOLEAN :
        /\ All(action, thenOff) \in Task /\ All(action, thenOff).pc = "load"
        /\ All(action, thenOff).action = action /\ All(action, thenOff).thenOff = thenOff
        /\ Steady(All(action, thenOff))
BY DEF Idle, Check, All, Task, Actions, Steady

\* A check that has found the flag on goes on to its times, and starts the removal
\* of the rules unless it is the one of the boot.
LEMMA FlagIsOn ==
  ASSUME TypeInv, NEW k \in Tasks, ReadFlag(k), flag.on
  PROVE  /\ task' \in [Tasks -> Task]
         /\ task'[k].pc = "times" /\ ~task'[k].thenOff
         /\ \/ task[k].boot /\ \A l \in Tasks \ {k} : task'[l] = task[l]
            \/ \E u \in Tasks \ {k} :
                  /\ Free(u) /\ task'[u] = All("unenforce", FALSE)
                  /\ \A l \in Tasks \ {k, u} : task'[l] = task[l]
<1>1. task \in [Tasks -> Task] /\ task[k].pc = "flag" /\ ~task[k].thenOff
  <2>1. task \in [Tasks -> Task]
    BY DEF TypeInv, TypeOK
  <2>2. task[k].thenOff => task[k].pc \in {"load", "wait", "off"}
    BY DEF TypeInv, Steady
  <2> QED
    BY <2>1, <2>2 DEF ReadFlag
<1>2. PICK tasks \in Removals(k) : task' = [tasks EXCEPT ![k] = [@ EXCEPT !.pc = "times"]]
  BY DEF ReadFlag
<1> DEFINE g == [task[k] EXCEPT !.pc = "times"]
<1>3. g \in Task /\ g.pc = "times" /\ ~g.thenOff
  BY <1>1 DEF Task
<1>4. CASE task[k].boot
  <2>1. task' = [task EXCEPT ![k] = g]
    BY <1>2, <1>4 DEF Removals
  <2> HIDE DEF g
  <2> QED
    BY <1>1, <1>3, <1>4, <2>1
<1>5. CASE ~task[k].boot
  <2>1. PICK u \in Tasks : Free(u) /\ tasks = [task EXCEPT ![u] = All("unenforce", FALSE)]
    BY <1>2, <1>5 DEF Removals
  <2>2. u # k
    BY <1>1, <2>1, SomeTasks DEF Free
  <2> DEFINE a == All("unenforce", FALSE)
  <2>3. a \in Task
    BY SomeTasks DEF Actions
  <2>4. tasks = [task EXCEPT ![u] = a]
    BY <2>1
  <2> HIDE DEF a
  <2>5. tasks \in [Tasks -> Task] /\ tasks[k] = task[k] /\ tasks[u] = a
    BY <1>1, <2>2, <2>3, <2>4
  <2>6. task' = [tasks EXCEPT ![k] = g]
    BY <1>2, <2>5
  <2> HIDE DEF g
  <2>7. /\ task' \in [Tasks -> Task] /\ task'[k] = g /\ task'[u] = a
        /\ \A l \in Tasks \ {k, u} : task'[l] = task[l]
    BY <1>1, <1>3, <2>2, <2>3, <2>4, <2>5, <2>6
  <2> QED
    BY <1>3, <2>1, <2>2, <2>7 DEF a
<1> QED
  BY <1>4, <1>5

\* What a load leaves of its task: nothing, or a task that waits for its jobs.
LEMMA LoadMoves ==
  ASSUME TypeInv, NEW k \in Tasks, Load(k)
  PROVE  /\ task' \in [Tasks -> Task] /\ \A l \in Tasks \ {k} : task'[l] = task[l]
         /\ IF task[k].thenOff THEN task'[k].pc = "wait" /\ task'[k].thenOff
                               ELSE task'[k] = Idle
<1>1. task \in [Tasks -> Task]
  BY DEF TypeInv, TypeOK
<1> DEFINE g == IF task[k].thenOff THEN [task[k] EXCEPT !.pc = "wait"] ELSE Idle
<1>2. g \in Task /\ IF task[k].thenOff THEN g.pc = "wait" /\ g.thenOff ELSE g = Idle
  BY <1>1, SomeTasks DEF Task
<1>3. task' = [task EXCEPT ![k] = g]
  BY DEF Load
<1> HIDE DEF g
<1> QED
  BY <1>1, <1>2, <1>3

\* The wait of a task is over, and it will turn the flag off.
LEMMA WaitedMoves ==
  ASSUME TypeInv, NEW k \in Tasks, Waited(k)
  PROVE  /\ task' \in [Tasks -> Task] /\ \A l \in Tasks \ {k} : task'[l] = task[l]
         /\ task'[k].pc = "off" /\ task'[k].thenOff
<1>1. task \in [Tasks -> Task] /\ task[k].thenOff
  <2>1. task \in [Tasks -> Task]
    BY DEF TypeInv, TypeOK
  <2>2. task[k].pc \in {"wait", "off"} => task[k].thenOff
    BY DEF TypeInv, Steady
  <2> QED
    BY <2>1, <2>2 DEF Waited
<1> DEFINE g == [task[k] EXCEPT !.pc = "off"]
<1>2. g \in Task /\ g.pc = "off" /\ g.thenOff
  BY <1>1 DEF Task
<1>3. task' = [task EXCEPT ![k] = g]
  BY DEF Waited
<1> HIDE DEF g
<1> QED
  BY <1>1, <1>2, <1>3

\* A sequence without repetitions that is as long as a set has all of the set.
LEMMA AllInOrder ==
  ASSUME NEW S, IsFiniteSet(S), NEW order \in [1 .. Cardinality(S) -> S],
         \A i, j \in DOMAIN order : order[i] = order[j] => i = j
  PROVE  \A r \in S : \E i \in 1 .. Cardinality(S) : order[i] = r
<1>1. Cardinality(S) \in Nat
  BY FS_CardinalityType
<1>2. Cardinality(1 .. Cardinality(S)) = Cardinality(S)
  BY <1>1, FS_Interval
<1>3. order \in Injection(1 .. Cardinality(S), S)
  BY DEF Injection, IsInjective
<1>4. order \in Surjection(1 .. Cardinality(S), S)
  BY <1>2, <1>3, FS_Injection
<1> QED
  BY <1>4 DEF Surjection

\* The jobs a load queues: all of its action, for enabled rules, and one for every
\* rule it is about.
LEMMA LoadQueues ==
  ASSUME TypeInv, NEW k \in Tasks, Load(k)
  PROVE  \E js \in Seq(Job) :
            /\ queue' = queue \o js
            /\ \A i \in 1 .. Len(js) : js[i].action = task[k].action /\ enabled[js[i].rule]
            /\ \A r \in Rules :
                  enabled[r] /\ (task[k].action = "unenforce" => r \notin Inbound) =>
                     Holds(js, task[k].action, r)
<1> DEFINE action == task[k].action
           by == IF task[k].thenOff THEN k ELSE None
           S == {r \in Rules : enabled[r] /\ (action = "unenforce" => r \notin Inbound)}
           n == Cardinality(S)
<1>1. action \in Actions
  BY DEF TypeInv, TypeOK, Task, Actions
<1>2. IsFiniteSet(S) /\ n \in Nat
  BY PauseAssumption, FS_Subset, FS_CardinalityType
<1>3. PICK order \in [1 .. n -> S] :
         /\ \A i, j \in DOMAIN order : order[i] = order[j] => i = j
         /\ queue' = queue \o [i \in DOMAIN order |->
                                 [action |-> action, rule |-> order[i], by |-> by]]
  BY DEF Load
<1> DEFINE js == [i \in 1 .. n |-> [action |-> action, rule |-> order[i], by |-> by]]
<1>4. queue' = queue \o js
  BY <1>3
<1>5. \A r \in S : \E i \in 1 .. n : order[i] = r
  BY <1>2, <1>3, AllInOrder, ZenonT(60)
<1>6. \A i \in 1 .. n : order[i] \in S /\ order[i] \in Rules /\ enabled[order[i]]
  OBVIOUS
<1> HIDE DEF n
<1>7. \A i \in 1 .. n : js[i] \in Job /\ js[i].action = action /\ js[i].rule = order[i]
  BY <1>1, <1>6 DEF Job, Actions
<1>8. js \in Seq(Job) /\ Len(js) = n
  BY <1>2, <1>7
<1> HIDE DEF js
<1>9. \A r \in S : Holds(js, action, r)
  BY <1>5, <1>7, <1>8 DEF Holds, Says
<1> QED
  BY <1>4, <1>6, <1>7, <1>8, <1>9

-----------------------------------------------------------------------------
(* Types *)

LEMMA Types ==
  ASSUME TypeInv
  PROVE  /\ task \in [Tasks -> Task] /\ queue \in Seq(Job) /\ worker \in Worker
         /\ events \in Nat /\ ops \in Nat /\ now \in Nat /\ MaxNow \in Nat /\ now <= MaxNow
         /\ armed \in [Timers -> 0 .. MaxNow \cup {None}] /\ disableAllTimer \in Timers \cup {None}
         /\ flag \in Flag /\ flag.on \in BOOLEAN /\ flag.start \in Nat /\ flag.expire \in Nat
         /\ flag.start + flag.expire <= MaxNow /\ flag.start <= now
         /\ \A t \in Timers : armed[t] # None => armed[t] \in Nat /\ armed[t] <= MaxNow
<1>1. TypeOK /\ Measured
  BY DEF TypeInv
<1>2. flag \in Flag
  BY <1>1 DEF TypeOK
<1>3. flag.on \in BOOLEAN /\ flag.start \in 0 .. MaxNow /\ flag.expire \in Expiries \cup {0}
  BY <1>2 DEF Flag
<1>4. /\ events \in 0 .. MaxOps /\ ops \in 0 .. MaxOps /\ now \in 0 .. MaxNow
      /\ armed \in [Timers -> 0 .. MaxNow \cup {None}]
  BY <1>1 DEF TypeOK
<1>5. MaxNow \in Nat /\ MaxOps \in Nat /\ flag.expire \in Nat
  <2>1. MaxNow \in Nat /\ MaxOps \in Nat /\ Expiries \subseteq Nat
    BY PauseAssumption
  <2>2. \A e \in Expiries \cup {0} : e \in Nat
    BY <2>1
  <2> QED
    BY <1>3, <2>1, <2>2
<1>6. \A t \in Timers : armed[t] # None => armed[t] \in Nat /\ armed[t] <= MaxNow
  BY <1>4, <1>5
<1>7. task \in [Tasks -> Task] /\ queue \in Seq(Job) /\ worker \in Worker
      /\ disableAllTimer \in Timers \cup {None}
  BY <1>1 DEF TypeOK
<1> QED
  BY <1>1, <1>2, <1>3, <1>4, <1>5, <1>6, <1>7 DEF Measured

LEMMA InitTypeInv == Init => TypeInv
<1> SUFFICES ASSUME Init
             PROVE  TypeInv
  OBVIOUS
<1>1. flag \in Flag /\ 0 \in 0 .. MaxNow /\ 0 \in 0 .. MaxOps /\ 0 \in 0 .. MaxCrashes
  BY PauseAssumption DEF Init, Flag
<1>2. worker \in Worker /\ worker.pc = "idle"
  BY DEF Init, Worker, NoJob
<1>3. task \in [Tasks -> Task] /\ \A k \in Tasks : Steady(task[k])
  BY SomeTasks DEF Init
<1>4. armed \in [Timers -> 0 .. MaxNow \cup {None}]
  BY DEF Init
<1>5. TypeOK
  <2>1. queue \in Seq(Job) /\ app \in [Rules -> {"idle", "enable", "disable"}]
    BY DEF Init
  <2>2. kernel \in [Rules -> BOOLEAN]
    BY DEF Init
  <2> QED
    BY <1>1, <1>2, <1>3, <1>4, <2>1, <2>2 DEF Init, TypeOK
<1>6. Measured
  BY PauseAssumption DEF Init, Measured
<1> QED
  BY <1>2, <1>3, <1>5, <1>6 DEF Init, TypeInv, Stopped, Checked, Written

\* A step of a task of FireMain, if its tasks, timeouts and jobs stay well formed.
LEMMA TasksMove ==
  ASSUME TypeInv, up, task' \in [Tasks -> Task], \A k \in Tasks : Steady(task'[k]),
         UNCHANGED <<redis, app, up, worker, kernel, now, history>>,
         events' \in Nat, events' <= events, queue' \in Seq(Job),
         armed' \in [Timers -> 0 .. MaxNow \cup {None}], disableAllTimer' \in Timers \cup {None}
  PROVE  TypeInv'
<1>1. ops \in Nat /\ ops <= MaxOps /\ events <= ops /\ MaxOps \in Nat
  BY PauseAssumption DEF TypeInv, TypeOK, Measured
<1>2. events' \in 0 .. MaxOps /\ events' <= ops
  BY <1>1, Types
<1>3. TypeOK'
  BY <1>2 DEF TypeInv, TypeOK, redis, history
<1>4. Measured' /\ Checked' /\ Written' /\ Stopped'
  BY <1>2 DEF TypeInv, redis, history, Measured, Checked, Written, Stopped
<1> QED
  BY <1>3, <1>4 DEF TypeInv

LEMMA TaskTypes ==
  ASSUME TypeInv, NEW k \in Tasks,
         Receive(k) \/ TaskStep(k) \/ \E t \in Timers : TimerFires(t, k)
  PROVE  TypeInv'
<1>1. \A l \in Tasks : Steady(task[l])
  BY DEF TypeInv
<1>2. ~up => task[k].pc = "idle"
  BY SomeTasks DEF TypeInv, Stopped
<1>a. ASSUME NEW g \in Task, Steady(g), task' = [task EXCEPT ![k] = g]
      PROVE  task' \in [Tasks -> Task] /\ \A l \in Tasks : Steady(task'[l])
  BY <1>1, <1>a, Types
<1>3. ASSUME Receive(k)
      PROVE  TypeInv'
  <2>1. task' \in [Tasks -> Task] /\ \A l \in Tasks : Steady(task'[l])
    BY <1>3, <1>a, SomeTasks DEF Receive
  <2>2. events' \in Nat /\ events' <= events
    BY <1>3, Types DEF Receive
  <2> QED
    BY <1>3, <2>1, <2>2, Types, TasksMove DEF Receive, timers
<1>4. ASSUME ReadFlag(k)
      PROVE  TypeInv'
  <2>1. up /\ armed' \in [Timers -> 0 .. MaxNow \cup {None}]
    BY <1>2, <1>4, Types DEF ReadFlag
  <2>2. task' \in [Tasks -> Task] /\ \A l \in Tasks : Steady(task'[l])
    <3>1. CASE flag.on
      <4>1. Steady(task'[k])
        BY <1>4, <3>1, FlagIsOn DEF Steady
      <4>2. \A l \in Tasks \ {k} : task'[l] = task[l] \/ task'[l] = All("unenforce", FALSE)
        BY <1>4, <3>1, FlagIsOn
      <4> QED
        BY <1>1, <1>4, <3>1, <4>1, <4>2, FlagIsOn, SomeTasks, ZenonT(60) DEF Actions
    <3>2. CASE ~flag.on
      BY <1>4, <1>a, <3>2, SomeTasks DEF ReadFlag, Actions
    <3> QED
      BY <3>1, <3>2
  <2>3. events' \in Nat /\ events' <= events
    BY <1>4, Types DEF ReadFlag
  <2> QED
    BY <1>4, <2>1, <2>2, <2>3, Types, TasksMove DEF ReadFlag
<1>5. ASSUME ReadTimes(k)
      PROVE  TypeInv'
  <2>1. up
    BY <1>2, <1>5 DEF ReadTimes
  <2>2. task' = [task EXCEPT ![k] = Idle] \/ task' = [task EXCEPT ![k] = All("enforce", TRUE)]
    BY <1>5 DEF ReadTimes
  <2>3. task' \in [Tasks -> Task] /\ \A l \in Tasks : Steady(task'[l])
    BY <1>a, <2>2, SomeTasks DEF Actions
  <2>4. /\ armed' \in [Timers -> 0 .. MaxNow \cup {None}]
        /\ disableAllTimer' \in Timers \cup {None}
    <3>1. flag.start + flag.expire \in 0 .. MaxNow
      BY Types
    <3> QED
      BY <1>5, <3>1, Types DEF ReadTimes, timers
  <2>5. events' \in Nat /\ events' <= events
    BY <1>5, Types DEF ReadTimes
  <2> QED
    BY <1>5, <2>1, <2>3, <2>4, <2>5, Types, TasksMove DEF ReadTimes
<1>6. ASSUME Load(k)
      PROVE  TypeInv'
  <2>1. up
    BY <1>2, <1>6 DEF Load
  <2>2. queue' \in Seq(Job)
    <3>1. PICK js \in Seq(Job) : queue' = queue \o js
      BY <1>6, LoadQueues
    <3> QED
      BY <3>1, Types
  <2>3. Steady(task'[k])
    BY <1>6, LoadMoves, SomeTasks DEF Steady
  <2>4. events' \in Nat /\ events' <= events
    BY <1>6, Types DEF Load
  <2> QED
    BY <1>1, <1>6, <2>1, <2>2, <2>3, <2>4, Types, LoadMoves, TasksMove DEF Load, timers
<1>7. ASSUME Waited(k)
      PROVE  TypeInv'
  <2>1. up
    BY <1>2, <1>7 DEF Waited
  <2>2. Steady(task'[k])
    BY <1>7, WaitedMoves DEF Steady
  <2>3. events' \in Nat /\ events' <= events
    BY <1>7, Types DEF Waited
  <2> QED
    BY <1>1, <1>7, <2>1, <2>2, <2>3, Types, WaitedMoves, TasksMove DEF Waited, timers
<1>8. ASSUME SetOff(k)
      PROVE  TypeInv'
  <2> DEFINE f == [flag EXCEPT !.on = FALSE]
  <2>1. f \in Flag /\ f.start = flag.start /\ f.expire = flag.expire
    BY Types DEF Flag
  <2>2. flag' = f
    BY <1>8 DEF SetOff
  <2> HIDE DEF f
  <2>3. up /\ task' \in [Tasks -> Task] /\ \A l \in Tasks : Steady(task'[l])
    BY <1>2, <1>8, <1>a, SomeTasks DEF SetOff
  <2>4. TypeOK'
    BY <1>8, <2>1, <2>2, <2>3 DEF SetOff, TypeInv, TypeOK, timers, history
  <2>5. Measured' /\ Checked' /\ Written' /\ Stopped'
    BY <1>8, <2>1, <2>2, <2>3 DEF SetOff, TypeInv, history, Measured, Checked, Written, Stopped
  <2> QED
    BY <2>3, <2>4, <2>5 DEF TypeInv
<1>9. ASSUME NEW t \in Timers, TimerFires(t, k)
      PROVE  TypeInv'
  <2>1. task' \in [Tasks -> Task] /\ \A l \in Tasks : Steady(task'[l])
    BY <1>9, <1>a, SomeTasks DEF TimerFires, Actions
  <2>2. armed' \in [Timers -> 0 .. MaxNow \cup {None}]
    BY <1>9, Types DEF TimerFires
  <2>3. up
    BY <1>9 DEF TimerFires, Due, TypeInv, Stopped
  <2>4. events' \in Nat /\ events' <= events
    BY <1>9, Types DEF TimerFires
  <2> QED
    BY <1>9, <2>1, <2>2, <2>3, <2>4, Types, TasksMove DEF TimerFires
<1> QED
  BY <1>3, <1>4, <1>5, <1>6, <1>7, <1>8, <1>9 DEF TaskStep

LEMMA NextTypeInv == TypeInv /\ [Next]_vars => TypeInv'
<1> SUFFICES ASSUME TypeInv, [Next]_vars
             PROVE  TypeInv'
  OBVIOUS
<1>1. ASSUME NEW on \in BOOLEAN, NEW e \in Expiries, SetDisableAll(on, IF on THEN e ELSE 0)
      PROVE  TypeInv'
  <2> DEFINE expire == IF on THEN e ELSE 0
             f == [on |-> on, start |-> now, expire |-> expire]
  <2>1. expire \in Expiries \cup {0} /\ expire \in Nat
    BY PauseAssumption
  <2> HIDE DEF expire
  <2>2. f \in Flag /\ f.start = now /\ f.expire = expire
    BY <2>1, Types DEF Flag
  <2>3. flag' = f /\ now + expire <= MaxNow
    BY <1>1 DEF SetDisableAll, expire
  <2> HIDE DEF f
  <2>4. /\ events' = (IF up THEN events + 1 ELSE events) /\ ops' = ops + 1 /\ ops < MaxOps
        /\ disturbed' \in BOOLEAN
        /\ UNCHANGED <<crashes, enabled, app, up, task, timers, queue, worker, kernel, now>>
    BY <1>1 DEF SetDisableAll, Op
  <2>5. events \in Nat /\ ops \in Nat /\ MaxOps \in Nat /\ events <= ops
    BY Types, PauseAssumption DEF TypeInv, Measured
  <2>6. events' \in 0 .. MaxOps /\ ops' \in 0 .. MaxOps /\ events' <= ops'
    BY <2>4, <2>5
  <2>7. TypeOK'
    BY <2>2, <2>3, <2>4, <2>6 DEF TypeInv, TypeOK, timers
  <2>8. Measured'
    BY <2>2, <2>3, <2>4, <2>6, Types DEF Measured
  <2>9. Checked' /\ Written' /\ Stopped'
    BY <2>4 DEF TypeInv, Checked, Written, Stopped, timers
  <2> QED
    BY <2>4, <2>7, <2>8, <2>9 DEF TypeInv
<1>2. ASSUME NEW r \in Rules, Toggle(r)
      PROVE  TypeInv'
  <2>1. /\ enabled' = [enabled EXCEPT ![r] = ~@] /\ ops' = ops + 1 /\ ops < MaxOps
        /\ app' = [app EXCEPT ![r] = IF enabled[r] THEN "disable" ELSE "enable"]
        /\ disturbed' \in BOOLEAN
        /\ UNCHANGED <<crashes, flag, events, up, task, timers, queue, worker, kernel, now>>
    BY <1>2 DEF Toggle, Op
  <2>2. events \in Nat /\ ops \in Nat /\ MaxOps \in Nat /\ events <= ops
    BY Types, PauseAssumption DEF TypeInv, Measured
  <2>3. ops' \in 0 .. MaxOps /\ events' <= ops'
    BY <2>1, <2>2
  <2>4. enabled' \in [Rules -> BOOLEAN] /\ app' \in [Rules -> {"idle", "enable", "disable"}]
    BY <2>1 DEF TypeInv, TypeOK
  <2>5. TypeOK'
    BY <2>1, <2>3, <2>4 DEF TypeInv, TypeOK, timers
  <2>6. Measured' /\ Checked' /\ Stopped'
    BY <2>1, <2>3 DEF TypeInv, Measured, Checked, Stopped, timers
  <2>7. Written'
    <3>1. /\ enabled \in [Rules -> BOOLEAN] /\ app \in [Rules -> {"idle", "enable", "disable"}]
          /\ Written
      BY DEF TypeInv, TypeOK
    <3> QED
      BY <2>1, <3>1 DEF Written
  <2> QED
    BY <2>1, <2>5, <2>6, <2>7 DEF TypeInv
<1>3. ASSUME NEW r \in Rules, Announce(r)
      PROVE  TypeInv'
  <2> DEFINE j == [action |-> IF app[r] = "enable" THEN "enforce" ELSE "unenforce",
                   rule |-> r, by |-> None]
  <2>1. /\ app' = [app EXCEPT ![r] = "idle"]
        /\ queue' = queue \/ queue' = Append(queue, j)
        /\ UNCHANGED <<redis, events, up, task, timers, worker, kernel, now, history>>
    BY <1>3 DEF Announce
  <2>2. j \in Job
    BY DEF Job
  <2> HIDE DEF j
  <2>3. queue' \in Seq(Job) /\ app' \in [Rules -> {"idle", "enable", "disable"}]
    <3>1. app \in [Rules -> {"idle", "enable", "disable"}]
      BY DEF TypeInv, TypeOK
    <3>2. queue \in Seq(Job)
      BY Types
    <3> QED
      BY <2>1, <2>2, <3>1, <3>2
  <2>4. TypeOK'
    BY <2>1, <2>3 DEF TypeInv, TypeOK, timers, redis, history
  <2>5. Measured' /\ Checked' /\ Stopped'
    BY <2>1 DEF TypeInv, Measured, Checked, Stopped, timers, redis, history
  <2>6. Written'
    BY <2>1 DEF TypeInv, TypeOK, Written, redis
  <2> QED
    BY <2>1, <2>4, <2>5, <2>6 DEF TypeInv
<1>4. ASSUME NEW k \in Tasks,
             Receive(k) \/ TaskStep(k) \/ \E t \in Timers : TimerFires(t, k)
      PROVE  TypeInv'
  BY <1>4, TaskTypes
<1>5. ASSUME TakeJob
      PROVE  TypeInv'
  <2>1. Head(queue) \in Job /\ Tail(queue) \in Seq(Job)
    BY <1>5, Types DEF TakeJob
  <2> DEFINE pc == IF Head(queue).action = "enforce" THEN "check" ELSE "apply"
             w == [pc |-> pc, job |-> Head(queue)]
  <2>2. w \in Worker /\ w.pc = pc /\ w.job = Head(queue)
    BY <2>1 DEF Worker
  <2>3. worker' = w /\ queue' = Tail(queue) /\ up
        /\ UNCHANGED <<redis, app, events, up, task, timers, kernel, now, history>>
    BY <1>5 DEF TakeJob
  <2> HIDE DEF w
  <2>4. TypeOK'
    BY <2>1, <2>2, <2>3 DEF TypeInv, TypeOK, timers, redis, history
  <2>5. Measured' /\ Checked' /\ Stopped' /\ Written'
    BY <2>2, <2>3 DEF TypeInv, Measured, Checked, Stopped, Written, timers, redis, history
  <2> QED
    BY <2>3, <2>4, <2>5 DEF TypeInv
<1>6. ASSUME EnforceChecks
      PROVE  TypeInv'
  <2> DEFINE w == IF Paused THEN NoJob ELSE [worker EXCEPT !.pc = "apply"]
  <2>1. w \in Worker /\ w.pc # "check" /\ up
    BY <1>6, Types DEF EnforceChecks, Worker, NoJob, TypeInv, Stopped
  <2>2. worker' = w
        /\ UNCHANGED <<redis, app, events, up, task, timers, queue, kernel, now, history>>
    BY <1>6 DEF EnforceChecks
  <2> HIDE DEF w
  <2>3. TypeOK'
    BY <2>1, <2>2 DEF TypeInv, TypeOK, timers, redis, history
  <2>4. Measured' /\ Checked' /\ Stopped' /\ Written'
    BY <2>1, <2>2 DEF TypeInv, Measured, Checked, Stopped, Written, timers, redis, history
  <2> QED
    BY <2>2, <2>3, <2>4 DEF TypeInv
<1>7. ASSUME Apply
      PROVE  TypeInv'
  <2>1. worker' = NoJob /\ NoJob.pc = "idle" /\ NoJob \in Worker
        /\ UNCHANGED <<redis, app, events, up, task, timers, queue, now, history>>
    BY <1>7 DEF Apply, NoJob, Worker
  <2>2. kernel' \in [Rules -> BOOLEAN]
    BY <1>7 DEF Apply, TypeInv, TypeOK
  <2>3. TypeOK'
    BY <2>1, <2>2 DEF TypeInv, TypeOK, timers, redis, history
  <2>4. Measured' /\ Checked' /\ Stopped' /\ Written'
    BY <2>1 DEF TypeInv, Measured, Checked, Stopped, Written, timers, redis, history
  <2> QED
    BY <2>1, <2>3, <2>4 DEF TypeInv
<1>8. ASSUME Tick
      PROVE  TypeInv'
  <2>1. /\ now' = now + 1 /\ now < MaxNow /\ disturbed' \in BOOLEAN
        /\ UNCHANGED <<redis, app, events, up, task, timers, queue, worker, kernel, ops, crashes>>
    BY <1>8 DEF Tick
  <2>2. now' \in 0 .. MaxNow
    BY <2>1, Types
  <2>3. TypeOK'
    BY <2>1, <2>2 DEF TypeInv, TypeOK, timers, redis
  <2>4. Measured'
    BY <2>1, Types DEF TypeInv, Measured, redis
  <2>5. Checked' /\ Stopped' /\ Written'
    BY <2>1 DEF TypeInv, Checked, Stopped, Written, timers, redis
  <2> QED
    BY <2>1, <2>3, <2>4, <2>5 DEF TypeInv
<1>9. ASSUME Crash
      PROVE  TypeInv'
  <2>1. /\ crashes' \in 0 .. MaxCrashes /\ events' = 0 /\ ~up' /\ up' \in BOOLEAN
        /\ disturbed' \in BOOLEAN
        /\ task' = [k \in Tasks |-> Idle] /\ armed' = [t \in Timers |-> None]
        /\ disableAllTimer' = None /\ worker' = NoJob
        /\ UNCHANGED <<redis, app, queue, kernel, now, ops>>
    <3>1. crashes \in Nat /\ MaxCrashes \in Nat /\ disturbed \in BOOLEAN
      BY PauseAssumption DEF TypeInv, TypeOK
    <3>2. crashes' = crashes + 1 /\ crashes < MaxCrashes
      BY <1>9 DEF Crash
    <3>3. crashes' \in 0 .. MaxCrashes
      BY <3>1, <3>2
    <3> QED
      BY <1>9, <3>3 DEF Crash
  <2>2. NoJob \in Worker /\ NoJob.pc = "idle" /\ 0 \in 0 .. MaxOps /\ 0 <= ops
    BY PauseAssumption, Types DEF Worker, NoJob
  <2>3. task' \in [Tasks -> Task] /\ \A k \in Tasks : Steady(task'[k]) /\ task'[k] = Idle
    BY <2>1, SomeTasks
  <2>4. armed' \in [Timers -> 0 .. MaxNow \cup {None}] /\ \A t \in Timers : armed'[t] = None
    BY <2>1
  <2>5. TypeOK'
    BY <2>1, <2>2, <2>3, <2>4 DEF TypeInv, TypeOK, redis
  <2>6. Measured' /\ Checked' /\ Stopped' /\ Written'
    BY <2>1, <2>2, <2>3, <2>4 DEF TypeInv, Measured, Checked, Stopped, Written, redis
  <2> QED
    BY <2>3, <2>5, <2>6 DEF TypeInv
<1>10. ASSUME NEW k \in Tasks, Boot(k)
       PROVE  TypeInv'
  <2>1. /\ up' = TRUE /\ queue' = <<>> /\ kernel' = [r \in Rules |-> FALSE]
        /\ task' = [task EXCEPT ![k] = Check(TRUE)]
        /\ UNCHANGED <<redis, app, events, timers, worker, now, history>>
    BY <1>10 DEF Boot, BootTask
  <2>2. task' \in [Tasks -> Task] /\ \A l \in Tasks : Steady(task'[l])
    BY <2>1, SomeTasks, Types DEF TypeInv
  <2>3. queue' \in Seq(Job) /\ kernel' \in [Rules -> BOOLEAN]
    BY <2>1
  <2>4. TypeOK'
    BY <2>1, <2>2, <2>3 DEF TypeInv, TypeOK, timers, redis, history
  <2>5. Measured' /\ Checked' /\ Stopped' /\ Written'
    BY <2>1 DEF TypeInv, Measured, Checked, Stopped, Written, timers, redis, history
  <2> QED
    BY <2>2, <2>4, <2>5 DEF TypeInv
<1>11. CASE UNCHANGED vars
  <2>1. TypeOK'
    BY <1>11 DEF vars, TypeInv, TypeOK, timers, history, redis
  <2>2. Measured' /\ Checked' /\ Stopped' /\ Written' /\ task' = task
    BY <1>11 DEF vars, TypeInv, Measured, Checked, Stopped, Written
  <2> QED
    BY <2>1, <2>2 DEF TypeInv
<1> QED
  BY <1>1, <1>2, <1>3, <1>4, <1>5, <1>6, <1>7, <1>8, <1>9, <1>10, <1>11 DEF Next, WorkerStep

-----------------------------------------------------------------------------
(* The end of a pause *)

LEMMA NextEnd == TypeInv /\ EndIsComing /\ [Next]_vars => EndIsComing'
<1> SUFFICES ASSUME TypeInv, EndIsComing, [Next]_vars, up', flag'.on, flag'.expire > 0
             PROVE  EndComes'
  BY DEF EndIsComing
<1> USE DEF At
<1>1. ASSUME NEW on \in BOOLEAN, NEW e \in Expiries, SetDisableAll(on, IF on THEN e ELSE 0)
      PROVE  EndComes'
  BY <1>1, Types DEF SetDisableAll, EndComes, Checking
<1>2. ASSUME UNCHANGED <<flag, events, up, task, armed>>
      PROVE  EndComes'
  BY <1>2 DEF EndIsComing, EndComes, Checking
<1>3. ASSUME NEW k \in Tasks, Receive(k) \/ Boot(k)
      PROVE  EndComes'
  <2>1. task'[k].pc = "flag"
    BY <1>3, Types, SomeTasks DEF Receive, Boot, BootTask
  <2> QED
    BY <2>1 DEF EndComes, Checking
<1>4. ASSUME NEW k \in Tasks, ReadFlag(k)
      PROVE  EndComes'
  <2>1. flag.on
    BY <1>4 DEF ReadFlag, redis
  <2>2. task'[k].pc = "times"
    BY <1>4, <2>1, FlagIsOn
  <2> QED
    BY <2>2 DEF EndComes
<1>5. ASSUME NEW k \in Tasks, ReadTimes(k)
      PROVE  EndComes'
  <2>1. flag' = flag /\ flag.expire \in Nat /\ flag.expire # 0
    BY <1>5, Types DEF ReadTimes, redis
  <2>2. CASE \E t \in Timers : armed' = [armed EXCEPT ![t] = flag.start + flag.expire]
    BY <2>1, <2>2, Types DEF EndComes
  <2>3. CASE task' = [task EXCEPT ![k] = All("enforce", TRUE)]
    <3>1. task'[k].thenOff
      BY <2>3, Types, SomeTasks DEF Actions
    <3> QED
      BY <3>1 DEF EndComes
  <2> QED
    BY <1>5, <2>1, <2>2, <2>3 DEF ReadTimes
<1>6. ASSUME NEW k \in Tasks, NEW t \in Timers, TimerFires(t, k)
      PROVE  EndComes'
  <2>1. task'[k].thenOff
    BY <1>6, Types, SomeTasks DEF TimerFires, Actions
  <2> QED
    BY <2>1 DEF EndComes
<1>7. ASSUME NEW k \in Tasks, Load(k) \/ Waited(k)
      PROVE  EndComes'
  <2>1. /\ task[k].pc \notin {"flag", "times"}
        /\ task[k].thenOff => task'[k].thenOff
        /\ \A l \in Tasks \ {k} : task'[l] = task[l]
        /\ UNCHANGED <<flag, events, up, armed>>
    BY <1>7, LoadMoves, WaitedMoves DEF Load, Waited, redis, timers
  <2>2. EndComes
    BY <2>1 DEF EndIsComing
  <2>3. CASE Checking
    BY <2>1, <2>3 DEF EndComes, Checking
  <2>4. CASE \E l \in Tasks : At(l, {"times"}) \/ task[l].thenOff
    <3>1. PICK l \in Tasks : task[l].pc = "times" \/ task[l].thenOff
      BY <2>4
    <3>2. task'[l].pc = "times" \/ task'[l].thenOff
      BY <2>1, <3>1
    <3> QED
      BY <3>2 DEF EndComes
  <2>5. CASE \E t \in Timers : armed[t] = flag.start + flag.expire
    BY <2>1, <2>5 DEF EndComes
  <2> QED
    BY <2>2, <2>3, <2>4, <2>5 DEF EndComes
<1>8. ASSUME NEW k \in Tasks, SetOff(k)
      PROVE  FALSE
  BY <1>8, Types DEF SetOff, Flag
<1>9. ASSUME Crash
      PROVE  FALSE
  BY <1>9 DEF Crash
<1> QED
  BY <1>1, <1>2, <1>3, <1>4, <1>5, <1>6, <1>7, <1>8, <1>9
     DEF Next, TaskStep, WorkerStep, Toggle, Announce, TakeJob, EnforceChecks, Apply, Tick, vars,
         redis, timers

\* When nothing is under way in a pause with an end, a timeout will end it, although a
\* crash loses the timeout, checkRunPolicies of two events overlap and each clears the
\* other's, and a pause may be made while FireMain is down.
THEOREM PausesEnd == Spec => []PauseHasEnd
<1>1. Init => EndIsComing
  BY DEF Init, EndIsComing
<1>2. TypeInv /\ EndIsComing => PauseHasEnd
  <2> SUFFICES ASSUME TypeInv, EndIsComing, Quiet, flag.on, flag.expire > 0
               PROVE  \E t \in Timers : armed[t] = flag.start + flag.expire
    BY DEF PauseHasEnd
  <2>1. ~Checking /\ \A k \in Tasks : task[k].pc # "times" /\ ~task[k].thenOff
    BY SomeTasks DEF Quiet, Checking, At
  <2> QED
    BY <2>1 DEF EndIsComing, EndComes, Quiet, At
<1> QED
  BY <1>1, <1>2, InitTypeInv, NextTypeInv, NextEnd, PTL DEF Spec

-----------------------------------------------------------------------------
(* What settles *)

LEMMA Opposites ==
  /\ Opposite("enforce") = "unenforce" /\ Opposite("unenforce") = "enforce"
  /\ \A action \in Actions : Opposite(action) \in Actions /\ Opposite(action) # action
BY DEF Opposite, Actions

LEMMA SettlesJoined ==
  ASSUME TypeInv, NEW js \in Seq(Job), NEW action \in Actions, NEW r \in Rules,
         Without(js, Opposite(action), r), Settles(action, r) \/ Holds(js, action, r),
         queue' = queue \o js, UNCHANGED <<worker, kernel>>
  PROVE  Settles(action, r)'
<1>1. queue \in Seq(Job)
  BY Types
<1>2. /\ Ends(queue, action, r) \/ Holds(js, action, r) => Ends(queue', action, r)
      /\ Without(queue, Opposite(action), r) => Without(queue', Opposite(action), r)
  BY <1>1, Joined
<1> QED
  BY <1>2 DEF Settles

LEMMA SettlesTaken ==
  ASSUME TypeInv, TakeJob, NEW action \in Actions, NEW r \in Rules, Settles(action, r)
  PROVE  Settles(action, r)'
<1>1. /\ queue \in Seq(Job) /\ queue # <<>> /\ worker = NoJob
      /\ queue' = Tail(queue) /\ kernel' = kernel /\ worker'.job = Head(queue)
  BY Types DEF TakeJob
<1>2. Opposite(action) \in Actions /\ Opposite(action) # action
  BY Opposites
<1>3. /\ Without(queue, Opposite(action), r) =>
            Without(queue', Opposite(action), r) /\ ~Says(worker'.job, Opposite(action), r)
      /\ Ends(queue, action, r) =>
            \/ Ends(queue', action, r)
            \/ Says(worker'.job, action, r) /\ Without(queue', Opposite(action), r)
  BY <1>1, <1>2, Taken
<1>4. worker' # NoJob
  <2>1. worker'.pc \in {"check", "apply"}
    BY DEF TakeJob
  <2> QED
    BY <2>1 DEF NoJob
<1>5. Says(worker'.job, action, r) => ~Says(worker'.job, Opposite(action), r)
  BY <1>2 DEF Says
<1> QED
  BY <1>1, <1>3, <1>4, <1>5 DEF Settles

\* enforce passes its check, or it is skipped because of a pause.
LEMMA SettlesChecked ==
  ASSUME TypeInv, EnforceChecks, NEW action \in Actions, NEW r \in Rules, Settles(action, r),
         action = "unenforce" \/ ~Paused
  PROVE  Settles(action, r)'
<1>1. worker \in Worker /\ worker.pc = "check" /\ worker.job.action = "enforce"
  BY Types DEF EnforceChecks, TypeInv, Checked
<1>2. queue' = queue /\ kernel' = kernel
  BY DEF EnforceChecks
<1>3. CASE Paused
  BY <1>1, <1>2, <1>3 DEF EnforceChecks, Settles, Says
<1>4. CASE ~Paused
  <2> DEFINE w == [worker EXCEPT !.pc = "apply"]
  <2>1. worker # NoJob /\ w # NoJob /\ w.job = worker.job
    BY <1>1 DEF NoJob, Worker
  <2>2. worker' = w
    BY <1>4 DEF EnforceChecks
  <2> HIDE DEF w
  <2> QED
    BY <1>2, <2>1, <2>2 DEF Settles
<1> QED
  BY <1>3, <1>4

LEMMA SettlesApplied ==
  ASSUME TypeInv, Apply, NEW action \in Actions, NEW r \in Rules, Settles(action, r)
  PROVE  Settles(action, r)'
<1>1. /\ worker \in Worker /\ worker # NoJob /\ worker.job \in Job
      /\ kernel \in [Rules -> BOOLEAN]
  BY Types DEF Apply, Worker, NoJob, TypeInv, TypeOK
<1>2. /\ worker' = NoJob /\ queue' = queue
      /\ kernel' = [kernel EXCEPT ![worker.job.rule] = (worker.job.action = "enforce")]
  BY DEF Apply
<1>3. CASE Ends(queue, action, r)
  BY <1>2, <1>3 DEF Settles
<1>4. CASE Without(queue, Opposite(action), r) /\ ~Ends(queue, action, r)
  <2>1. ~Says(worker.job, Opposite(action), r)
    BY <1>1, <1>4 DEF Settles
  <2>2. kernel'[r] = (action = "enforce")
    <3>1. CASE worker.job.rule = r
      BY <1>1, <1>2, <2>1, <3>1 DEF Says, Opposite, Actions, Job
    <3>2. CASE worker.job.rule # r
      <4>1. kernel[r] = (action = "enforce")
        BY <1>4, <3>2 DEF Settles, Says
      <4> QED
        BY <1>1, <1>2, <3>2, <4>1
    <3> QED
      BY <3>1, <3>2
  <2> QED
    BY <1>2, <1>4, <2>2 DEF Settles
<1> QED
  BY <1>3, <1>4 DEF Settles

\* A job of one rule is no matter to the others.
LEMMA OneJob ==
  ASSUME NEW j \in Job, NEW action \in Actions, NEW r
  PROVE  /\ <<j>> \in Seq(Job)
         /\ Says(j, action, r) => Holds(<<j>>, action, r)
         /\ ~Says(j, action, r) => Without(<<j>>, action, r)
<1>1. <<j>> \in Seq(Job) /\ Len(<<j>>) = 1 /\ <<j>>[1] = j /\ 1 \in 1 .. 1
  OBVIOUS
<1> QED
  BY <1>1 DEF Holds, Without

\* The jobs of a load do not do the opposite of what it loads for; and an enforce
\* is of no rule that is disabled.
LEMMA LoadIsOneSided ==
  ASSUME NEW js \in Seq(Job), NEW action \in Actions,
         \A i \in 1 .. Len(js) : js[i].action = action /\ enabled[js[i].rule]
  PROVE  \A r \in Rules : /\ Without(js, Opposite(action), r)
                          /\ ~enabled[r] => Without(js, action, r)
BY Opposites DEF Without, Says

\* The job that announces an operation of the app.
JobFor(r) == [action |-> IF app[r] = "enable" THEN "enforce" ELSE "unenforce",
              rule |-> r, by |-> None]

LEMMA Announced ==
  ASSUME TypeInv, NEW r \in Rules, Announce(r)
  PROVE  /\ app[r] \in {"enable", "disable"} /\ app' = [app EXCEPT ![r] = "idle"]
         /\ JobFor(r) \in Job /\ JobFor(r).rule = r
         /\ JobFor(r).action = IF app[r] = "enable" THEN "enforce" ELSE "unenforce"
         /\ queue' = IF ~up \/ (app[r] = "enable" /\ Paused) THEN queue
                     ELSE queue \o <<JobFor(r)>>
         /\ UNCHANGED <<redis, events, up, task, timers, worker, kernel, now, history>>
<1>1. JobFor(r) \in Job /\ JobFor(r).rule = r
      /\ JobFor(r).action = IF app[r] = "enable" THEN "enforce" ELSE "unenforce"
  BY DEF JobFor, Job
<1>2. app[r] \in {"enable", "disable"}
  BY DEF Announce, TypeInv, TypeOK
<1>3. queue' = IF ~up \/ (app[r] = "enable" /\ Paused) THEN queue ELSE Append(queue, JobFor(r))
  BY DEF Announce, JobFor
<1>4. Append(queue, JobFor(r)) = queue \o <<JobFor(r)>>
  BY <1>1, Types
<1> QED
  BY <1>1, <1>2, <1>3, <1>4 DEF Announce

\* What a disabled rule settles on is not moved by anybody.
LEMMA NextFades == TypeInv /\ DisabledFades /\ [Next]_vars => DisabledFades'
<1> SUFFICES ASSUME TypeInv, DisabledFades, [Next]_vars, up', NEW r \in Rules,
                    ~enabled'[r], app'[r] = "idle"
             PROVE  Settles("unenforce", r)'
  BY DEF DisabledFades
<1> DEFINE u == "unenforce"
<1>a. u \in Actions /\ Opposite(u) = "enforce"
  BY Opposites DEF Actions
<1>b. app \in [Rules -> {"idle", "enable", "disable"}] /\ enabled \in [Rules -> BOOLEAN]
  BY DEF TypeInv, TypeOK
<1>1. ASSUME UNCHANGED <<enabled, app, up, queue, worker, kernel>>
      PROVE  Settles(u, r)'
  BY <1>1 DEF DisabledFades, Settles
<1>2. ASSUME NEW q \in Rules, Toggle(q)
      PROVE  Settles(u, r)'
  <2>1. q # r
    BY <1>2, <1>b DEF Toggle
  <2> QED
    BY <1>2, <1>b, <2>1 DEF Toggle, DisabledFades, Settles
<1>3. ASSUME NEW q \in Rules, Announce(q)
      PROVE  Settles(u, r)'
  <2>1. ~enabled[r] /\ up /\ UNCHANGED <<worker, kernel>>
    BY <1>3 DEF Announce, redis
  <2>2. CASE q = r
    <3>1. app[r] = "disable"
      <4>1. app[r] = "enable" => enabled[r]
        BY DEF TypeInv, Written
      <4>2. app[r] \in {"enable", "disable"}
        BY <1>3, <2>2, Announced
      <4> QED
        BY <2>1, <4>1, <4>2
    <3>2. Says(JobFor(r), u, r) /\ ~Says(JobFor(r), "enforce", r)
      BY <1>3, <2>2, <3>1, Announced DEF Says
    <3>3. queue' = queue \o <<JobFor(r)>> /\ JobFor(r) \in Job
      BY <1>3, <2>1, <2>2, <3>1, Announced
    <3>4. <<JobFor(r)>> \in Seq(Job) /\ Holds(<<JobFor(r)>>, u, r)
          /\ Without(<<JobFor(r)>>, "enforce", r)
      BY <1>a, <3>2, <3>3, OneJob DEF Actions
    <3> QED
      BY <1>a, <2>1, <3>3, <3>4, SettlesJoined
  <2>3. CASE q # r
    <3>1. Settles(u, r)
      BY <1>3, <1>b, <2>1, <2>3 DEF Announce, DisabledFades
    <3>2. JobFor(q) \in Job /\ ~Says(JobFor(q), "enforce", r)
      BY <1>3, <2>3, Announced DEF Says
    <3>3. <<JobFor(q)>> \in Seq(Job) /\ Without(<<JobFor(q)>>, "enforce", r)
      BY <3>2, OneJob DEF Actions
    <3>4. CASE queue' = queue
      BY <2>1, <3>1, <3>4 DEF Settles
    <3>5. CASE queue' = queue \o <<JobFor(q)>>
      BY <1>a, <2>1, <3>1, <3>3, <3>5, SettlesJoined
    <3> QED
      BY <1>3, <3>4, <3>5, Announced
  <2> QED
    BY <2>2, <2>3
<1>4. ASSUME NEW k \in Tasks, Load(k)
      PROVE  Settles(u, r)'
  <2>1. /\ Settles(u, r) /\ ~enabled[r] /\ UNCHANGED <<worker, kernel>>
        /\ task[k].action \in Actions
    BY <1>4, Types DEF Load, redis, DisabledFades, Task, Actions
  <2>2. PICK js \in Seq(Job) :
           /\ queue' = queue \o js
           /\ \A i \in 1 .. Len(js) : js[i].action = task[k].action /\ enabled[js[i].rule]
    BY <1>4, LoadQueues
  <2>3. Without(js, "enforce", r)
    BY <2>1, <2>2, LoadIsOneSided, Opposites DEF Actions
  <2> QED
    BY <1>a, <2>1, <2>2, <2>3, SettlesJoined
<1>5. ASSUME TakeJob
      PROVE  Settles(u, r)'
  BY <1>5, <1>a, SettlesTaken DEF TakeJob, redis, DisabledFades
<1>6. ASSUME EnforceChecks
      PROVE  Settles(u, r)'
  BY <1>6, <1>a, SettlesChecked DEF EnforceChecks, redis, DisabledFades
<1>7. ASSUME Apply
      PROVE  Settles(u, r)'
  BY <1>7, <1>a, SettlesApplied DEF Apply, redis, DisabledFades
<1>8. ASSUME Crash
      PROVE  FALSE
  BY <1>8 DEF Crash
<1>9. ASSUME NEW k \in Tasks, Boot(k)
      PROVE  Settles(u, r)'
  <2>1. queue' = <<>> /\ kernel'[r] = FALSE /\ worker' = NoJob
    BY <1>9 DEF Boot, TypeInv, Stopped
  <2>2. Without(queue', "enforce", r)
    BY <2>1 DEF Without
  <2> QED
    BY <1>a, <2>1, <2>2 DEF Settles
<1> QED
  BY <1>1, <1>2, <1>3, <1>4, <1>5, <1>6, <1>7, <1>8, <1>9
     DEF Next, TaskStep, WorkerStep, SetDisableAll, Receive, ReadFlag, ReadTimes, Waited, SetOff,
         TimerFires, Tick, vars, redis

-----------------------------------------------------------------------------
(* In a pause *)

LEMMA DisabledLeaves ==
  ASSUME TypeInv, DisabledFades, up, NEW r \in Rules, ~enabled[r], app[r] = "idle", Entering(r)
  PROVE  Leaving(r)
<1>1. Settles("unenforce", r) /\ Opposite("unenforce") = "enforce"
  BY Opposites DEF DisabledFades
<1>2. CASE Ends(queue, "unenforce", r)
  BY <1>2 DEF Ends, Leaving, Holds
<1>3. CASE ~Ends(queue, "unenforce", r)
  <2>1. kernel \in [Rules -> BOOLEAN] /\ worker \in Worker
        /\ (worker.pc = "check" => worker.job.action = "enforce")
    BY DEF TypeInv, TypeOK, Checked
  <2>2. worker # NoJob => ~Says(worker.job, "enforce", r)
    BY <1>1, <1>3 DEF Settles
  <2>3. kernel[r]
    BY <2>2 DEF Entering, NoJob
  <2>4. worker # NoJob /\ Says(worker.job, "unenforce", r)
    BY <1>1, <1>3, <2>1, <2>3 DEF Settles
  <2>5. worker.pc = "apply"
    BY <2>1, <2>4 DEF Worker, Says
  <2> QED
    BY <2>4, <2>5 DEF Leaving
<1> QED
  BY <1>2, <1>3

LEMMA NextPausedFades ==
  TypeInv /\ DisabledFades /\ PausedFades /\ [Next]_vars => PausedFades'
<1> SUFFICES ASSUME TypeInv, DisabledFades, PausedFades, [Next]_vars, up', Paused',
                    NEW r \in Rules \ Inbound, Entering(r)'
             PROVE  WillLeave(r)'
  BY DEF PausedFades
<1> USE DEF At
<1>b. app \in [Rules -> {"idle", "enable", "disable"}] /\ enabled \in [Rules -> BOOLEAN]
  BY DEF TypeInv, TypeOK
<1>c. ASSUME up, Paused, Entering(r)
      PROVE  WillLeave(r)
  BY <1>c DEF PausedFades
<1>1. ASSUME NEW on \in BOOLEAN, NEW e \in Expiries, SetDisableAll(on, IF on THEN e ELSE 0)
      PROVE  WillLeave(r)'
  BY <1>1, Types DEF SetDisableAll, WillLeave
<1>2. ASSUME NEW q \in Rules, Toggle(q)
      PROVE  WillLeave(r)'
  <2>1. up /\ Paused /\ Entering(r) /\ (Leaving(r) => Leaving(r)')
    BY <1>2 DEF Toggle, Paused, Entering, Leaving
  <2>2. CASE q = r /\ enabled[r]
    BY <1>2, <1>b, <2>2 DEF Toggle, WillLeave
  <2>3. CASE q = r /\ ~enabled[r]
    <3>1. Leaving(r)
      BY <1>2, <2>1, <2>3, DisabledLeaves DEF Toggle
    <3> QED
      BY <2>1, <3>1 DEF WillLeave
  <2>4. CASE q # r
    <3>1. app'[r] = app[r] /\ enabled'[r] = enabled[r] /\ events' = events /\ task' = task
      BY <1>2, <1>b, <2>4 DEF Toggle
    <3> QED
      BY <1>c, <2>1, <3>1 DEF WillLeave, Loading
  <2> QED
    BY <2>2, <2>3, <2>4
<1>3. ASSUME NEW q \in Rules, Announce(q)
      PROVE  WillLeave(r)'
  <2>1. up /\ Paused /\ Entering(r) /\ enabled' = enabled /\ events' = events /\ task' = task
        /\ worker' = worker
    BY <1>3 DEF Announce, Paused, Entering, redis
  <2>2. JobFor(q) \in Job /\ app' = [app EXCEPT ![q] = "idle"]
    BY <1>3, Announced
  <2>3. Leaving(r) => Leaving(r)'
    <3>1. CASE queue' = queue
      BY <2>1, <3>1 DEF Leaving
    <3>2. CASE queue' = queue \o <<JobFor(q)>>
      <4>1. Holds(queue, "unenforce", r) => Holds(queue', "unenforce", r)
        BY <2>2, <3>2, Types, HoldsJoined, OneJob DEF Actions
      <4> QED
        BY <2>1, <4>1 DEF Leaving
    <3> QED
      BY <1>3, <3>1, <3>2, Announced
  <2>4. CASE q = r /\ app[r] = "disable"
    <3>1. queue' = queue \o <<JobFor(r)>> /\ Says(JobFor(r), "unenforce", r)
      BY <1>3, <2>1, <2>4, Announced DEF Says
    <3>2. <<JobFor(r)>> \in Seq(Job) /\ Holds(<<JobFor(r)>>, "unenforce", r)
      BY <2>2, <2>4, <3>1, OneJob DEF Actions
    <3>3. Holds(queue', "unenforce", r)
      BY <3>1, <3>2, Types, HoldsJoined
    <3> QED
      BY <3>3 DEF WillLeave, Leaving
  <2>5. CASE ~(q = r /\ app[r] = "disable")
    <3>1. app[r] = "disable" => app'[r] = "disable"
      BY <1>b, <2>2, <2>5
    <3> QED
      BY <1>c, <2>1, <2>3, <3>1 DEF WillLeave, Loading
  <2> QED
    BY <2>4, <2>5
<1>4. ASSUME NEW k \in Tasks, Receive(k)
      PROVE  WillLeave(r)'
  <2>1. task'[k].pc = "flag" /\ ~task'[k].boot
    BY <1>4, Types, SomeTasks DEF Receive
  <2> QED
    BY <2>1 DEF WillLeave
<1>5. ASSUME NEW k \in Tasks, ReadFlag(k)
      PROVE  WillLeave(r)'
  <2>1. /\ up /\ Paused /\ Entering(r) /\ flag.on /\ (Leaving(r) => Leaving(r)')
        /\ UNCHANGED <<enabled, app, events>>
    BY <1>5 DEF ReadFlag, Paused, Entering, Leaving, redis
  <2>2. CASE task[k].boot /\ \A l \in Tasks \ {k} : task'[l] = task[l]
    <3>1. WillLeave(r) /\ task[k].pc = "flag"
      BY <1>5, <1>c, <2>1 DEF ReadFlag
    <3> QED
      BY <2>1, <2>2, <3>1 DEF WillLeave, Loading
  <2>3. CASE \E u \in Tasks : task'[u] = All("unenforce", FALSE)
    <3>1. Loading("unenforce")'
      BY <2>3, SomeTasks DEF Loading, Actions
    <3>2. CASE enabled[r]
      BY <2>1, <3>1, <3>2 DEF WillLeave
    <3>3. CASE ~enabled[r] /\ app[r] = "idle"
      BY <2>1, <3>3, DisabledLeaves DEF WillLeave
    <3>4. CASE ~enabled[r] /\ app[r] # "idle"
      BY <1>b, <2>1, <3>4 DEF WillLeave, TypeInv, Written
    <3> QED
      BY <3>2, <3>3, <3>4
  <2> QED
    BY <1>5, <2>1, <2>2, <2>3, FlagIsOn
<1>6. ASSUME NEW k \in Tasks,
             ReadTimes(k) \/ Waited(k) \/ \E t \in Timers : TimerFires(t, k)
      PROVE  WillLeave(r)'
  <2>1. /\ up /\ Paused /\ Entering(r) /\ (Leaving(r) => Leaving(r)')
        /\ UNCHANGED <<enabled, app, events>>
    BY <1>6 DEF ReadTimes, Waited, TimerFires, Paused, Entering, Leaving, redis
  <2>2. task[k].pc \notin {"flag", "load"}
    BY <1>6, SomeTasks DEF ReadTimes, Waited, TimerFires, Free
  <2>3. \A l \in Tasks \ {k} : task'[l] = task[l]
    BY <1>6, Types, WaitedMoves DEF ReadTimes, TimerFires
  <2> QED
    BY <1>c, <2>1, <2>2, <2>3 DEF WillLeave, Loading
<1>7. ASSUME NEW k \in Tasks, Load(k)
      PROVE  WillLeave(r)'
  <2>1. /\ up /\ Paused /\ Entering(r) /\ UNCHANGED <<enabled, app, events, worker>>
        /\ task[k].pc = "load" /\ \A l \in Tasks \ {k} : task'[l] = task[l]
    BY <1>7, LoadMoves DEF Load, Paused, Entering, redis
  <2>2. PICK js \in Seq(Job) :
           /\ queue' = queue \o js
           /\ \A q \in Rules :
                 enabled[q] /\ (task[k].action = "unenforce" => q \notin Inbound) =>
                    Holds(js, task[k].action, q)
    BY <1>7, LoadQueues
  <2>3. Leaving(r) => Leaving(r)'
    <3>1. Holds(queue, "unenforce", r) => Holds(queue', "unenforce", r)
      BY <2>2, Types, HoldsJoined
    <3> QED
      BY <2>1, <3>1 DEF Leaving
  <2>4. CASE enabled[r] /\ task[k].action = "unenforce"
    <3>1. Holds(queue', "unenforce", r)
      BY <2>2, <2>4, Types, HoldsJoined
    <3> QED
      BY <3>1 DEF WillLeave, Leaving
  <2>5. CASE ~(enabled[r] /\ task[k].action = "unenforce")
    BY <1>c, <2>1, <2>3, <2>5 DEF WillLeave, Loading
  <2> QED
    BY <2>4, <2>5
<1>8. ASSUME NEW k \in Tasks, SetOff(k)
      PROVE  FALSE
  BY <1>8, Types DEF SetOff, Flag, Paused
<1>9. ASSUME TakeJob
      PROVE  WillLeave(r)'
  <2>1. /\ up /\ Paused /\ UNCHANGED <<enabled, app, events, task, kernel>>
        /\ worker = NoJob /\ queue # <<>> /\ queue' = Tail(queue)
    BY <1>9 DEF TakeJob, Paused, redis
  <2>2. /\ worker'.job = Head(queue)
        /\ worker'.pc = IF Head(queue).action = "enforce" THEN "check" ELSE "apply"
    BY <1>9 DEF TakeJob
  <2>3. Entering(r)
    BY <2>1, <2>2 DEF Entering, Says
  <2>4. Leaving(r) => Leaving(r)'
    <3>1. Holds(queue, "unenforce", r) =>
             Holds(queue', "unenforce", r) \/ Says(Head(queue), "unenforce", r)
      BY <2>1, Types, Taken DEF Actions
    <3>2. worker.pc # "apply"
      BY <2>1 DEF NoJob
    <3> QED
      BY <2>2, <3>1, <3>2 DEF Leaving, Says
  <2> QED
    BY <1>c, <2>1, <2>3, <2>4 DEF WillLeave, Loading
<1>10. ASSUME EnforceChecks
       PROVE  WillLeave(r)'
  <2>1. /\ up /\ Paused /\ worker' = NoJob /\ worker.pc = "check"
        /\ UNCHANGED <<enabled, app, events, task, kernel, queue>>
    BY <1>10 DEF EnforceChecks, Paused, redis, TypeInv, Stopped, NoJob
  <2>2. Entering(r) /\ (Leaving(r) => Leaving(r)')
    BY <2>1 DEF Entering, Leaving, NoJob
  <2> QED
    BY <1>c, <2>1, <2>2 DEF WillLeave, Loading
<1>11. ASSUME Apply
       PROVE  WillLeave(r)'
  <2>1. /\ up /\ Paused /\ worker' = NoJob /\ worker.pc = "apply"
        /\ UNCHANGED <<enabled, app, events, task, queue>>
        /\ kernel' = [kernel EXCEPT ![worker.job.rule] = (worker.job.action = "enforce")]
    BY <1>11 DEF Apply, Paused, redis, TypeInv, Stopped, NoJob
  <2>2. kernel \in [Rules -> BOOLEAN] /\ kernel'[r]
    BY <2>1 DEF TypeInv, TypeOK, Entering, NoJob
  <2>3. Entering(r) /\ ~Says(worker.job, "unenforce", r)
    BY <2>1, <2>2 DEF Entering, Says
  <2>4. Leaving(r) => Leaving(r)'
    BY <2>1, <2>3 DEF Leaving
  <2> QED
    BY <1>c, <2>1, <2>3, <2>4 DEF WillLeave, Loading
<1>12. ASSUME Tick
       PROVE  WillLeave(r)'
  <2>1. /\ up /\ Paused /\ UNCHANGED <<enabled, app, events, task, kernel, queue, worker>>
    BY <1>12, Types DEF Tick, Paused, redis
  <2> QED
    BY <1>c, <2>1 DEF WillLeave, Entering, Leaving, Loading
<1>13. ASSUME Crash
       PROVE  FALSE
  BY <1>13 DEF Crash
<1>14. ASSUME NEW k \in Tasks, Boot(k)
       PROVE  FALSE
  <2>1. worker' = NoJob /\ kernel'[r] = FALSE
    BY <1>14 DEF Boot, TypeInv, Stopped
  <2> QED
    BY <2>1 DEF Entering, NoJob
<1>15. ASSUME UNCHANGED vars
       PROVE  WillLeave(r)'
  BY <1>15, <1>c DEF vars, WillLeave, Entering, Leaving, Loading, Paused
<1> QED
  BY <1>1, <1>2, <1>3, <1>4, <1>5, <1>6, <1>7, <1>8, <1>9, <1>10, <1>11, <1>12, <1>13, <1>14, <1>15
     DEF Next, TaskStep, WorkerStep

\* In a pause, when nothing is under way, no outbound rule is in the kernel: neither
\* an enforce that passed its check of the flag before, nor one of a rule that the
\* app enables or disables meanwhile, nor a restart brings one back for good.
THEOREM PausesRemove == Spec => []PausedMeansRemoved
<1>1. Init => DisabledFades /\ PausedFades
  <2> SUFFICES ASSUME Init
               PROVE  DisabledFades /\ PausedFades
    OBVIOUS
  <2>1. queue = <<>> /\ worker = NoJob /\ kernel = enabled /\ ~Paused
    BY DEF Init, Paused
  <2>2. ASSUME NEW r \in Rules, ~enabled[r]
        PROVE  Settles("unenforce", r)
    <3>1. kernel[r] = FALSE
      BY <2>1, <2>2 DEF Init
    <3>2. Without(queue, "enforce", r)
      BY <2>1 DEF Without
    <3> QED
      BY <2>1, <3>1, <3>2, Opposites DEF Settles
  <2> QED
    BY <2>1, <2>2 DEF DisabledFades, PausedFades
<1>2. TypeInv /\ PausedFades => PausedMeansRemoved
  <2> SUFFICES ASSUME TypeInv, PausedFades, Quiet, Paused, NEW r \in Rules \ Inbound, kernel[r]
               PROVE  FALSE
    BY DEF PausedMeansRemoved
  <2>1. WillLeave(r)
    BY DEF PausedFades, Quiet, Entering
  <2>2. queue = <<>> /\ worker = NoJob /\ events = 0 /\ app[r] = "idle"
        /\ \A k \in Tasks : task[k].pc = "idle"
    BY SomeTasks DEF Quiet
  <2>3. ~Leaving(r)
    BY <2>2 DEF Leaving, Holds, NoJob
  <2> QED
    BY <2>1, <2>2, <2>3 DEF WillLeave, Loading, At
<1> QED
  BY <1>1, <1>2, InitTypeInv, NextTypeInv, NextFades, NextPausedFades, PTL DEF Spec

-----------------------------------------------------------------------------
(* Outside a pause *)

LEMMA QuietMeans ==
  ASSUME Quiet
  PROVE  /\ up /\ events = 0 /\ queue = <<>> /\ worker = NoJob /\ ~Checking
         /\ \A k \in Tasks : task[k].pc = "idle" /\ ~task[k].thenOff
         /\ \A t \in Timers : armed[t] # None => ~(armed[t] <= now)
         /\ \A r \in Rules : app[r] = "idle"
BY SomeTasks DEF Quiet, Checking, At, Due

\* Tasks that neither check nor clear a timeout, and work for what holds.
LEMMA CalmMoves ==
  ASSUME Calm, UNCHANGED <<flag, now, events, up, disableAllTimer>>,
         \A t \in Timers : armed'[t] \in {armed[t], None},
         \A k \in Tasks : \/ task'[k] = task[k]
                         \/ /\ task[k].pc # "flag" /\ task'[k].pc \notin {"flag", "times"}
                            /\ task'[k].thenOff => ~Paused
                            /\ task'[k].pc = "load" /\ task'[k].action = "unenforce" => Paused
  PROVE  Calm'
<1> USE DEF At
<1>1. Checking' = Checking /\ Paused' = Paused
  <2>1. \A k \in Tasks : task'[k].pc = "flag" <=> task[k].pc = "flag"
    OBVIOUS
  <2> QED
    BY <2>1 DEF Checking, Paused
<1>2. \A k \in Tasks : task'[k].pc \in {"flag", "times"} => task'[k] = task[k]
  OBVIOUS
<1>3. OneCheck'
  BY <1>2 DEF Calm, OneCheck
<1>4. ChecksAtOnce' /\ ClearedFirst'
  BY <1>1, <1>2 DEF Calm, ChecksAtOnce, ClearedFirst
<1>5. RemovesInPause' /\ EndsInTime'
  BY <1>1 DEF Calm, RemovesInPause, EndsInTime
<1>6. OneTimer' /\ ArmedAhead' /\ ArmedForEnd'
  BY <1>1 DEF Calm, OneTimer, ArmedAhead, ArmedForEnd
<1> QED
  BY <1>3, <1>4, <1>5, <1>6 DEF Calm

LEMMA NextOrderly ==
  ASSUME 1 \notin Expiries
  PROVE  TypeInv /\ Orderly /\ [Next]_vars => Orderly'
<1> SUFFICES ASSUME TypeInv, Orderly, [Next]_vars, ~disturbed'
             PROVE  Calm'
  BY DEF Orderly
<1> USE DEF At
<1>a. ASSUME ~disturbed
      PROVE  Calm
  BY <1>a DEF Orderly
<1>1. ASSUME NEW on \in BOOLEAN, NEW e \in Expiries, SetDisableAll(on, IF on THEN e ELSE 0)
      PROVE  Calm'
  <2>1. ~disturbed /\ Quiet /\ Calm
    BY <1>1, <1>a DEF SetDisableAll, Op
  <2>2. /\ up' /\ events' = 1 /\ now' = now /\ armed' = armed /\ disableAllTimer' = disableAllTimer
        /\ flag'.start = now /\ task' = task
    BY <1>1, <2>1, QuietMeans DEF SetDisableAll, timers
  <2>3. \A k \in Tasks : task'[k].pc = "idle" /\ ~task'[k].thenOff
    BY <2>1, <2>2, QuietMeans
  <2>4. Checking'
    BY <2>2 DEF Checking
  <2>5. OneCheck' /\ ChecksAtOnce' /\ ClearedFirst' /\ RemovesInPause' /\ EndsInTime'
    BY <2>2, <2>3 DEF OneCheck, ChecksAtOnce, ClearedFirst, RemovesInPause, EndsInTime
  <2>6. OneTimer'
    BY <2>1, <2>2 DEF Calm, OneTimer
  <2>7. ArmedAhead'
    BY <2>1, <2>2, QuietMeans, Types DEF ArmedAhead
  <2> QED
    BY <2>4, <2>5, <2>6, <2>7 DEF Calm, ArmedForEnd
<1>2. ASSUME UNCHANGED <<flag, now, events, up, timers, task>>, ~disturbed
      PROVE  Calm'
  BY <1>2, <1>a, CalmMoves DEF timers
<1>3. ASSUME NEW k \in Tasks, Receive(k)
      PROVE  Calm'
  <2>1. ~disturbed /\ Calm
    BY <1>3, <1>a DEF Receive, history
  <2>2. /\ UNCHANGED <<flag, now, up, armed, disableAllTimer>> /\ events > 0 /\ events' = events - 1
        /\ task'[k].pc = "flag" /\ ~task'[k].thenOff /\ \A l \in Tasks \ {k} : task'[l] = task[l]
    BY <1>3, Types, SomeTasks DEF Receive, redis, timers
  <2>3. events' = 0 /\ \A l \in Tasks : task[l].pc \notin {"flag", "times"}
    BY <2>1, <2>2, Types DEF Calm, OneCheck
  <2>4. Checking /\ Checking' /\ (Paused' <=> Paused)
    <3>1. Checking /\ Checking'
      BY <2>2, Types DEF Checking
    <3>2. Paused' <=> Paused
      BY <2>2 DEF Paused
    <3> QED
      BY <3>1, <3>2
  <2>5. OneCheck'
    <3>1. \A l \in Tasks : task'[l].pc \in {"flag", "times"} => l = k
      BY <2>2, <2>3
    <3>2. events' <= 1
      BY <2>3
    <3> QED
      BY <2>3, <3>1, <3>2 DEF OneCheck
  <2>6. ChecksAtOnce' /\ ClearedFirst'
    BY <2>1, <2>2, <2>3, <2>4 DEF Calm, ChecksAtOnce, ClearedFirst
  <2>7. RemovesInPause' /\ EndsInTime'
    BY <2>1, <2>2, <2>4 DEF Calm, RemovesInPause, EndsInTime
  <2>8. OneTimer' /\ ArmedAhead' /\ ArmedForEnd'
    BY <2>1, <2>2, <2>4 DEF Calm, OneTimer, ArmedAhead, ArmedForEnd
  <2> QED
    BY <2>5, <2>6, <2>7, <2>8 DEF Calm
<1>4. ASSUME NEW k \in Tasks, ReadFlag(k)
      PROVE  Calm'
  <2>1. ~disturbed /\ Calm /\ task[k].pc = "flag"
    BY <1>4, <1>a DEF ReadFlag, history
  <2>2. UNCHANGED <<flag, now, events, up, disableAllTimer>>
    BY <1>4 DEF ReadFlag, redis
  <2>3. \A t \in Timers : armed'[t] = None
    BY <1>4, <2>1, Types DEF ReadFlag, Calm, OneTimer
  <2>4. events = 0 /\ \A l \in Tasks \ {k} : task[l].pc \notin {"flag", "times"}
    BY <2>1 DEF Calm, OneCheck
  <2>5. OneTimer' /\ ArmedAhead' /\ ArmedForEnd'
    BY <2>3 DEF OneTimer, ArmedAhead, ArmedForEnd
  <2>6. Paused' = Paused
    BY <2>2 DEF Paused
  <2>7. CASE flag.on
    <3>1. up /\ now = flag.start
      BY <2>1, <2>7 DEF Calm, ChecksAtOnce, Checking
    <3>2. Paused
      BY <2>7, <3>1, Types DEF Paused
    <3>3. task'[k].pc = "times" /\ ~task'[k].thenOff
      BY <1>4, <2>7, FlagIsOn
    <3>4. \A l \in Tasks \ {k} : task'[l] = task[l] \/ task'[l] = All("unenforce", FALSE)
      BY <1>4, <2>7, FlagIsOn
    <3>5. \A l \in Tasks \ {k} : task'[l] = task[l] \/ (task'[l].pc = "load" /\ ~task'[l].thenOff)
      BY <3>4, SomeTasks DEF Actions
    <3>6. OneCheck' /\ ClearedFirst'
      BY <2>2, <2>3, <2>4, <2>7, <3>3, <3>5 DEF OneCheck, ClearedFirst
    <3>7. ChecksAtOnce' /\ RemovesInPause' /\ EndsInTime'
      BY <2>1, <2>2, <2>6, <3>1, <3>2, <3>3, <3>5
         DEF Calm, ChecksAtOnce, RemovesInPause, EndsInTime
    <3> QED
      BY <2>5, <3>6, <3>7 DEF Calm
  <2>8. CASE ~flag.on
    <3>1. /\ task'[k].pc = "load" /\ task'[k].action = "enforce" /\ ~task'[k].thenOff
          /\ \A l \in Tasks \ {k} : task'[l] = task[l]
      BY <1>4, <2>8, Types, SomeTasks DEF ReadFlag, Actions
    <3>2. OneCheck' /\ ClearedFirst' /\ ChecksAtOnce'
      BY <2>2, <2>4, <2>8, <3>1 DEF OneCheck, ClearedFirst, ChecksAtOnce
    <3>3. RemovesInPause' /\ EndsInTime'
      BY <2>1, <2>6, <3>1 DEF Calm, RemovesInPause, EndsInTime
    <3> QED
      BY <2>5, <3>2, <3>3 DEF Calm
  <2> QED
    BY <2>7, <2>8
<1>5. ASSUME NEW k \in Tasks, ReadTimes(k)
      PROVE  Calm'
  <2>1. ~disturbed /\ Calm /\ task[k].pc = "times"
    BY <1>5, <1>a DEF ReadTimes, history
  <2>2. UNCHANGED <<flag, now, events, up>>
    BY <1>5 DEF ReadTimes, redis
  <2>3. flag.on /\ now = flag.start /\ \A t \in Timers : armed[t] = None
    BY <2>1 DEF Calm, ClearedFirst, ChecksAtOnce
  <2>4. events = 0 /\ \A l \in Tasks \ {k} : task[l].pc \notin {"flag", "times"}
    BY <2>1 DEF Calm, OneCheck
  <2>5. flag.expire \in Nat /\ flag.expire # 1 /\ now \in Nat
    BY Types DEF Flag
  <2>6. /\ task' = [task EXCEPT ![k] = Idle]
        /\ \/ armed' = armed
           \/ \E t \in Timers : /\ armed' = [armed EXCEPT ![t] = flag.start + flag.expire]
                               /\ disableAllTimer' = t /\ flag.expire > 0
    <3>1. ~(flag.expire > 0 /\ flag.start + flag.expire <= now + 1)
      BY <2>3, <2>5
    <3> QED
      BY <1>5, <3>1 DEF ReadTimes, timers
  <2>7. /\ task'[k].pc = "idle" /\ ~task'[k].thenOff
        /\ \A l \in Tasks \ {k} : task'[l] = task[l]
    BY <2>6, Types, SomeTasks
  <2>8. OneCheck' /\ ClearedFirst' /\ ChecksAtOnce'
    BY <2>1, <2>2, <2>4, <2>7 DEF Calm, OneCheck, ClearedFirst, ChecksAtOnce, Checking
  <2>9. RemovesInPause' /\ EndsInTime'
    BY <2>1, <2>2, <2>7 DEF Calm, RemovesInPause, EndsInTime, Paused
  <2>10. OneTimer' /\ ArmedAhead' /\ ArmedForEnd'
    BY <2>2, <2>3, <2>5, <2>6, Types DEF OneTimer, ArmedAhead, ArmedForEnd
  <2> QED
    BY <2>8, <2>9, <2>10 DEF Calm
<1>6. ASSUME NEW k \in Tasks, NEW t \in Timers, TimerFires(t, k)
      PROVE  Calm'
  <2>1. ~disturbed /\ Calm /\ armed[t] # None /\ armed[t] <= now
    BY <1>6, <1>a DEF TimerFires, Due, history
  <2>2. ~Paused
    BY <2>1, Types DEF Calm, ArmedAhead
  <2>3. /\ task'[k].pc = "load" /\ task'[k].action = "enforce" /\ task[k].pc = "idle"
        /\ \A l \in Tasks \ {k} : task'[l] = task[l]
    BY <1>6, Types, SomeTasks DEF TimerFires, Free, Actions
  <2>4. \A l \in Timers : armed'[l] \in {armed[l], None}
    BY <1>6, Types DEF TimerFires
  <2>5. UNCHANGED <<flag, now, events, up, disableAllTimer>>
    BY <1>6 DEF TimerFires, redis
  <2> QED
    BY <2>1, <2>2, <2>3, <2>4, <2>5, CalmMoves
<1>7. ASSUME NEW k \in Tasks, Load(k) \/ Waited(k)
      PROVE  Calm'
  <2>1. ~disturbed /\ Calm /\ task[k].pc \in {"load", "wait"}
        /\ UNCHANGED <<flag, now, events, up, armed, disableAllTimer>>
    BY <1>7, <1>a DEF Load, Waited, history, redis, timers
  <2>2. task[k].pc = "wait" => task[k].thenOff
    BY DEF TypeInv, Steady
  <2>3. /\ task'[k].pc \in {"idle", "wait", "off"}
        /\ task'[k].thenOff => task[k].thenOff
        /\ \A l \in Tasks \ {k} : task'[l] = task[l]
    BY <1>7, <2>2, LoadMoves, WaitedMoves, SomeTasks DEF Waited
  <2>4. task[k].thenOff => ~Paused
    BY <2>1 DEF Calm, EndsInTime
  <2> QED
    BY <2>1, <2>3, <2>4, CalmMoves
<1>8. ASSUME NEW k \in Tasks, SetOff(k)
      PROVE  Calm'
  <2>1. ~disturbed /\ Calm /\ task[k].pc = "off"
        /\ UNCHANGED <<now, events, up, armed, disableAllTimer>>
    BY <1>8, <1>a DEF SetOff, history, timers
  <2>2. ~flag'.on
    BY <1>8, Types DEF SetOff, Flag
  <2>3. task[k].thenOff
    BY <2>1 DEF TypeInv, Steady
  <2>4. ~Paused
    BY <2>1, <2>3 DEF Calm, EndsInTime
  <2>5. /\ task'[k].pc = "idle" /\ ~task'[k].thenOff
        /\ \A l \in Tasks \ {k} : task'[l] = task[l]
    BY <1>8, Types, SomeTasks DEF SetOff
  <2>6. ASSUME NEW l \in Tasks
        PROVE  task[l].pc # "times"
    <3> SUFFICES ASSUME task[l].pc = "times"
                 PROVE  FALSE
      OBVIOUS
    <3>1. flag.on /\ now = flag.start
      BY <2>1 DEF Calm, ClearedFirst, ChecksAtOnce
    <3> QED
      BY <2>4, <3>1, Types DEF Paused
  <2>7. OneCheck'
    BY <2>1, <2>5 DEF Calm, OneCheck
  <2>8. ChecksAtOnce' /\ ClearedFirst' /\ EndsInTime' /\ ArmedAhead' /\ ArmedForEnd'
    BY <2>2, <2>5, <2>6 DEF ChecksAtOnce, ClearedFirst, EndsInTime, ArmedAhead, ArmedForEnd, Paused
  <2>9. RemovesInPause' /\ OneTimer'
    BY <2>1, <2>4, <2>5 DEF Calm, RemovesInPause, OneTimer
  <2> QED
    BY <2>7, <2>8, <2>9 DEF Calm
<1>9. ASSUME Tick
      PROVE  Calm'
  <2>1. ~disturbed /\ Quiet /\ Calm /\ now' = now + 1
        /\ UNCHANGED <<flag, events, up, task, armed, disableAllTimer>>
    BY <1>9, <1>a DEF Tick, redis, timers
  <2>2. up /\ events = 0 /\ ~Checking /\ \A k \in Tasks : task[k].pc = "idle" /\ ~task[k].thenOff
    BY <2>1, QuietMeans
  <2>3. ~Checking'
    BY <2>1, <2>2 DEF Checking
  <2>4. OneCheck' /\ ChecksAtOnce' /\ ClearedFirst' /\ RemovesInPause' /\ EndsInTime'
    BY <2>1, <2>2, <2>3 DEF OneCheck, ChecksAtOnce, ClearedFirst, RemovesInPause, EndsInTime
  <2>5. OneTimer' /\ ArmedForEnd'
    BY <2>1, <2>2 DEF Calm, OneTimer, ArmedForEnd
  <2>6. ArmedAhead'
    <3> SUFFICES ASSUME NEW t \in Timers, armed'[t] # None, Paused'
                 PROVE  armed'[t] > now'
      BY DEF ArmedAhead
    <3>1. flag.on /\ (flag.expire > 0 => flag.start + flag.expire > now + 1)
      BY <2>1 DEF Paused
    <3>2. flag.expire > 0 /\ armed[t] = flag.start + flag.expire
      BY <2>1, <2>2, <3>1 DEF Calm, ArmedForEnd
    <3> QED
      BY <2>1, <3>1, <3>2
  <2> QED
    BY <2>4, <2>5, <2>6 DEF Calm
<1>10. ASSUME Crash
       PROVE  Calm'
  <2>1. ~flag'.on /\ events' = 0 /\ \A k \in Tasks : task'[k].pc = "idle" /\ ~task'[k].thenOff
    BY <1>10, SomeTasks DEF Crash, redis
  <2>2. \A t \in Timers : armed'[t] = None
    BY <1>10 DEF Crash
  <2> QED
    BY <2>1, <2>2 DEF Calm, OneCheck, ChecksAtOnce, ClearedFirst, RemovesInPause, EndsInTime,
                      OneTimer, ArmedAhead, ArmedForEnd
<1>11. ASSUME NEW k \in Tasks, Boot(k)
       PROVE  Calm'
  <2>1. ~disturbed /\ Calm /\ ~up /\ up' /\ UNCHANGED <<flag, events, armed>>
    BY <1>11, <1>a DEF Boot, history, redis, timers
  <2>2. ~flag.on
    BY <2>1 DEF Calm, ChecksAtOnce
  <2>3. events = 0 /\ \A t \in Timers : armed[t] = None
    BY <2>1 DEF TypeInv, Stopped
  <2>4. /\ task'[k].pc = "flag" /\ ~task'[k].thenOff
        /\ \A l \in Tasks \ {k} : task'[l].pc = "idle" /\ ~task'[l].thenOff
    BY <1>11, <2>1, Types, SomeTasks DEF Boot, BootTask, TypeInv, Stopped
  <2>5. OneCheck' /\ ChecksAtOnce' /\ ClearedFirst' /\ RemovesInPause' /\ EndsInTime'
    BY <2>1, <2>2, <2>3, <2>4 DEF OneCheck, ChecksAtOnce, ClearedFirst, RemovesInPause, EndsInTime
  <2>6. OneTimer' /\ ArmedAhead' /\ ArmedForEnd'
    BY <2>1, <2>3 DEF OneTimer, ArmedAhead, ArmedForEnd
  <2> QED
    BY <2>5, <2>6 DEF Calm
<1>12. ASSUME TakeJob \/ EnforceChecks \/ Apply
       PROVE  Calm'
  BY <1>2, <1>12 DEF TakeJob, EnforceChecks, Apply, history, redis
<1>13. ASSUME NEW r \in Rules, Announce(r) \/ Toggle(r)
       PROVE  Calm'
  BY <1>2, <1>13 DEF Announce, Toggle, Op, history, redis
<1>14. ASSUME UNCHANGED vars
       PROVE  Calm'
  BY <1>2, <1>14 DEF vars, timers
<1> QED
  BY <1>1, <1>3, <1>4, <1>5, <1>6, <1>7, <1>8, <1>9, <1>10, <1>11, <1>12, <1>13, <1>14
     DEF Next, TaskStep, WorkerStep

\* An enabled rule rises as long as nothing is disturbed.
LEMMA NextRises ==
  TypeInv /\ Orderly /\ EndIsComing /\ EnabledRises /\ [Next]_vars => EnabledRises'
<1> SUFFICES ASSUME TypeInv, Orderly, EndIsComing, EnabledRises, [Next]_vars, up', ~disturbed',
                    ~Paused', NEW r \in Rules, enabled'[r], app'[r] = "idle"
             PROVE  WillRise(r)'
  BY DEF EnabledRises
<1> USE DEF At
<1> DEFINE a == "enforce"
<1>a. a \in Actions /\ Opposite(a) = "unenforce"
  BY Opposites DEF Actions
<1>b. app \in [Rules -> {"idle", "enable", "disable"}] /\ enabled \in [Rules -> BOOLEAN]
  BY DEF TypeInv, TypeOK
<1>c. ASSUME up, ~disturbed, ~Paused, enabled[r], app[r] = "idle"
      PROVE  WillRise(r)
  BY <1>c DEF EnabledRises
<1>d. ASSUME ~disturbed
      PROVE  Calm
  BY <1>d DEF Orderly
<1>1. ASSUME NEW on \in BOOLEAN, NEW e \in Expiries, SetDisableAll(on, IF on THEN e ELSE 0)
      PROVE  WillRise(r)'
  <2>1. Checking'
    BY <1>1, Types DEF SetDisableAll, Checking
  <2> QED
    BY <2>1 DEF WillRise
<1>2. ASSUME NEW q \in Rules, Toggle(q)
      PROVE  WillRise(r)'
  <2>1. q # r
    BY <1>2, <1>b DEF Toggle
  <2>2. up /\ ~disturbed /\ ~Paused /\ enabled[r] /\ app[r] = "idle"
    BY <1>2, <1>b, <2>1 DEF Toggle, Op, Paused
  <2>3. WillRise(r) /\ UNCHANGED <<events, task, queue, worker, kernel, armed, now>>
    BY <1>2, <1>c, <2>2 DEF Toggle, timers
  <2> QED
    BY <2>3 DEF WillRise, Checking, Loading, Settles, Due
<1>3. ASSUME NEW q \in Rules, Announce(q)
      PROVE  WillRise(r)'
  <2>1. /\ up /\ ~disturbed /\ ~Paused /\ enabled[r]
        /\ UNCHANGED <<events, task, worker, kernel, armed, now>>
    BY <1>3 DEF Announce, redis, history, timers, Paused
  <2>2. JobFor(q) \in Job /\ queue' = queue \o <<JobFor(q)>>
    BY <1>3, <2>1, Announced
  <2>3. CASE q = r
    <3>1. app[r] = "enable"
      <4>1. app[r] = "disable" => ~enabled[r]
        BY DEF TypeInv, Written
      <4>2. app[r] \in {"enable", "disable"}
        BY <1>3, <2>3, Announced
      <4> QED
        BY <2>1, <4>1, <4>2
    <3>2. Says(JobFor(r), a, r) /\ ~Says(JobFor(r), "unenforce", r)
      BY <1>3, <2>3, <3>1, Announced DEF Says
    <3>3. /\ <<JobFor(r)>> \in Seq(Job) /\ Holds(<<JobFor(r)>>, a, r)
          /\ Without(<<JobFor(r)>>, "unenforce", r)
      BY <1>a, <2>2, <2>3, <3>2, OneJob DEF Actions
    <3>4. Settles(a, r)'
      BY <1>a, <2>1, <2>2, <2>3, <3>3, SettlesJoined
    <3> QED
      BY <3>4 DEF WillRise
  <2>4. CASE q # r
    <3>1. WillRise(r)
      BY <1>3, <1>b, <1>c, <2>1, <2>4 DEF Announce
    <3>2. ~Says(JobFor(q), "unenforce", r)
      BY <1>3, <2>4, Announced DEF Says
    <3>3. <<JobFor(q)>> \in Seq(Job) /\ Without(<<JobFor(q)>>, "unenforce", r)
      BY <2>2, <3>2, OneJob DEF Actions
    <3>4. Settles(a, r) => Settles(a, r)'
      BY <1>a, <2>1, <2>2, <3>3, SettlesJoined
    <3> QED
      BY <2>1, <3>1, <3>4 DEF WillRise, Checking, Loading, Due
  <2> QED
    BY <2>3, <2>4
<1>4. ASSUME NEW k \in Tasks, Receive(k) \/ Boot(k)
      PROVE  WillRise(r)'
  <2>1. task'[k].pc = "flag"
    BY <1>4, Types, SomeTasks DEF Receive, Boot, BootTask
  <2> QED
    BY <2>1 DEF WillRise, Checking
<1>5. ASSUME NEW k \in Tasks, ReadFlag(k)
      PROVE  WillRise(r)'
  <2>1. Calm /\ ~Paused /\ task[k].pc = "flag"
    BY <1>5, <1>d DEF ReadFlag, history, redis, Paused
  <2>2. ~flag.on
    <3> SUFFICES ASSUME flag.on
                 PROVE  FALSE
      OBVIOUS
    <3>1. now = flag.start
      BY <2>1 DEF Calm, ChecksAtOnce, Checking
    <3> QED
      BY <2>1, <3>1, Types DEF Paused
  <2>3. task'[k].pc = "load" /\ task'[k].action = a
    BY <1>5, <2>2, Types, SomeTasks DEF ReadFlag, Actions
  <2> QED
    BY <2>3 DEF WillRise, Loading
<1>6. ASSUME NEW k \in Tasks, ReadTimes(k)
      PROVE  FALSE
  <2>1. Calm /\ ~Paused /\ task[k].pc = "times"
    BY <1>6, <1>d DEF ReadTimes, history, redis, Paused
  <2>2. flag.on /\ now = flag.start
    BY <2>1 DEF Calm, ClearedFirst, ChecksAtOnce
  <2> QED
    BY <2>1, <2>2, Types DEF Paused
<1>7. ASSUME NEW k \in Tasks, NEW t \in Timers, TimerFires(t, k)
      PROVE  WillRise(r)'
  <2>1. task'[k].pc = "load" /\ task'[k].action = a
    BY <1>7, Types, SomeTasks DEF TimerFires, Actions
  <2> QED
    BY <2>1 DEF WillRise, Loading
<1>8. ASSUME NEW k \in Tasks, Load(k)
      PROVE  WillRise(r)'
  <2>1. /\ up /\ ~disturbed /\ ~Paused /\ enabled[r] /\ app[r] = "idle" /\ task[k].pc = "load"
        /\ UNCHANGED <<events, worker, kernel, armed, now>>
        /\ \A l \in Tasks \ {k} : task'[l] = task[l]
    BY <1>8, LoadMoves DEF Load, redis, history, timers, Paused
  <2>2. task[k].action = a
    <3>1. task[k].action \in Actions
      BY Types DEF Task, Actions
    <3>2. task[k].action # "unenforce"
      BY <1>d, <2>1 DEF Calm, RemovesInPause
    <3> QED
      BY <3>1, <3>2 DEF Actions
  <2>3. PICK js \in Seq(Job) :
           /\ queue' = queue \o js
           /\ \A i \in 1 .. Len(js) : js[i].action = task[k].action /\ enabled[js[i].rule]
           /\ \A q \in Rules :
                 enabled[q] /\ (task[k].action = "unenforce" => q \notin Inbound) =>
                    Holds(js, task[k].action, q)
    BY <1>8, LoadQueues
  <2>4. Holds(js, a, r)
    BY <2>1, <2>2, <2>3
  <2>5. Without(js, "unenforce", r)
    BY <1>a, <2>2, <2>3, LoadIsOneSided
  <2>6. Settles(a, r)'
    BY <1>a, <2>1, <2>3, <2>4, <2>5, SettlesJoined
  <2> QED
    BY <2>6 DEF WillRise
<1>9. ASSUME NEW k \in Tasks, Waited(k) \/ SetOff(k)
      PROVE  WillRise(r)'
  <2>1. /\ up /\ ~disturbed /\ enabled[r] /\ app[r] = "idle" /\ task[k].pc \in {"wait", "off"}
        /\ UNCHANGED <<events, queue, worker, kernel, armed, now>>
    <3>1. CASE Waited(k)
      BY <3>1 DEF Waited, redis, history, timers
    <3>2. CASE SetOff(k)
      BY <3>2 DEF SetOff, history, timers
    <3> QED
      BY <1>9, <3>1, <3>2
  <2>2. \A l \in Tasks \ {k} : task'[l] = task[l]
    <3>1. CASE Waited(k)
      BY <3>1, WaitedMoves
    <3>2. CASE SetOff(k)
      BY <3>2, Types DEF SetOff
    <3> QED
      BY <1>9, <3>1, <3>2
  <2>3. task[k].thenOff
    BY <2>1 DEF TypeInv, Steady
  <2>4. ~Paused
    BY <1>d, <2>1, <2>3 DEF Calm, EndsInTime
  <2>5. WillRise(r)
    BY <1>c, <2>1, <2>4
  <2> QED
    BY <2>1, <2>2, <2>5 DEF WillRise, Checking, Loading, Settles, Due
<1>10. ASSUME TakeJob \/ EnforceChecks \/ Apply
       PROVE  WillRise(r)'
  <2>1. /\ up /\ ~disturbed /\ ~Paused /\ enabled[r] /\ app[r] = "idle"
        /\ UNCHANGED <<events, task, armed, now>>
    <3>1. UNCHANGED <<flag, enabled, app, up, disturbed, events, task, armed, now>>
      BY <1>10 DEF TakeJob, EnforceChecks, Apply, redis, history, timers
    <3> QED
      BY <3>1 DEF Paused
  <2>2. Settles(a, r) => Settles(a, r)'
    BY <1>10, <1>a, <2>1, SettlesTaken, SettlesChecked, SettlesApplied
  <2> QED
    BY <1>c, <2>1, <2>2 DEF WillRise, Checking, Loading, Due
<1>11. ASSUME Tick
       PROVE  WillRise(r)'
  <2>1. /\ Quiet /\ up /\ ~disturbed /\ enabled[r] /\ app[r] = "idle" /\ now' = now + 1
        /\ UNCHANGED <<flag, events, task, queue, worker, kernel, armed>>
    BY <1>11 DEF Tick, redis, timers
  <2>2. CASE Paused
    <3>1. flag.on /\ flag.expire > 0 /\ flag.start + flag.expire <= now + 1
      BY <2>1, <2>2, Types DEF Paused
    <3>2. ~Checking /\ \A k \in Tasks : task[k].pc = "idle" /\ ~task[k].thenOff
      BY <2>1, QuietMeans
    <3>3. PICK t \in Timers : armed[t] = flag.start + flag.expire
      BY <2>1, <3>1, <3>2 DEF EndIsComing, EndComes
    <3>4. armed[t] # None /\ armed'[t] <= now'
      <4>1. armed[t] \in 0 .. MaxNow
        BY <3>3, Types
      <4> QED
        BY <2>1, <3>1, <3>3, <4>1, PauseAssumption
    <3> QED
      BY <2>1, <3>4 DEF WillRise, Due
  <2>3. CASE ~Paused
    <3>1. WillRise(r)
      BY <1>c, <2>1, <2>3
    <3>2. ~Checking /\ ~Loading(a) /\ \A t \in Timers : ~Due(t)
      BY <2>1, QuietMeans DEF Loading, Due
    <3>3. Settles(a, r)
      BY <3>1, <3>2 DEF WillRise
    <3> QED
      BY <2>1, <3>3 DEF WillRise, Settles
  <2> QED
    BY <2>2, <2>3
<1>12. ASSUME Crash
       PROVE  FALSE
  BY <1>12 DEF Crash
<1>13. ASSUME UNCHANGED vars
       PROVE  WillRise(r)'
  BY <1>13, <1>c DEF vars, WillRise, Checking, Loading, Settles, Due, Paused
<1> QED
  BY <1>1, <1>2, <1>3, <1>4, <1>5, <1>6, <1>7, <1>8, <1>9, <1>10, <1>11, <1>12, <1>13
     DEF Next, TaskStep, WorkerStep

\* Outside a pause, when nothing is under way, the rules in the kernel are those that
\* are enabled: the ones a pause took out come back when it is turned off or its time
\* is over. A pause of one minute is left out, since it ends before its flag is off
\* and nothing comes back.
THEOREM PausesRestore ==
  ASSUME 1 \notin Expiries
  PROVE  Spec => []NotPausedMeansInstalled
<1>1. Init => EndIsComing /\ DisabledFades /\ Orderly /\ EnabledRises
  <2> SUFFICES ASSUME Init
               PROVE  EndIsComing /\ DisabledFades /\ Orderly /\ EnabledRises
    OBVIOUS
  <2>1. /\ queue = <<>> /\ worker = NoJob /\ kernel = enabled /\ events = 0 /\ up
        /\ ~flag.on /\ enabled \in [Rules -> BOOLEAN]
    BY DEF Init
  <2>2. /\ \A k \in Tasks : task[k].pc = "idle" /\ ~task[k].thenOff
        /\ \A t \in Timers : armed[t] = None
    BY SomeTasks DEF Init
  <2>3. ASSUME NEW r \in Rules, NEW action \in Actions, enabled[r] = (action = "enforce")
        PROVE  Settles(action, r)
    <3>1. Without(queue, Opposite(action), r)
      BY <2>1 DEF Without
    <3> QED
      BY <2>1, <2>3, <3>1 DEF Settles
  <2>4. DisabledFades /\ EnabledRises
    BY <2>1, <2>3 DEF DisabledFades, EnabledRises, WillRise, Actions
  <2>5. Calm
    BY <2>1, <2>2 DEF Calm, OneCheck, ChecksAtOnce, ClearedFirst, RemovesInPause, EndsInTime,
                      OneTimer, ArmedAhead, ArmedForEnd, At
  <2> QED
    BY <2>1, <2>4, <2>5 DEF EndIsComing, Orderly
<1>2. TypeInv /\ DisabledFades /\ EnabledRises => NotPausedMeansInstalled
  <2> SUFFICES ASSUME TypeInv, DisabledFades, EnabledRises, ~disturbed, Quiet, ~Paused
               PROVE  kernel = enabled
    BY DEF NotPausedMeansInstalled
  <2>1. /\ up /\ queue = <<>> /\ worker = NoJob /\ ~Checking
        /\ \A r \in Rules : app[r] = "idle"
    BY QuietMeans
  <2>2. ~Loading("enforce") /\ \A t \in Timers : ~Due(t)
    BY QuietMeans DEF Loading, At, Due
  <2>3. ASSUME NEW r \in Rules, NEW action \in Actions, Settles(action, r)
        PROVE  kernel[r] = (action = "enforce")
    <3>1. ~Ends(queue, action, r)
      BY <2>1 DEF Ends
    <3> QED
      BY <2>1, <2>3, <3>1 DEF Settles
  <2>4. kernel \in [Rules -> BOOLEAN] /\ enabled \in [Rules -> BOOLEAN]
    BY DEF TypeInv, TypeOK
  <2>5. ASSUME NEW r \in Rules
        PROVE  kernel[r] = enabled[r]
    <3>1. CASE enabled[r]
      <4>1. Settles("enforce", r)
        BY <2>1, <2>2, <3>1 DEF EnabledRises, WillRise
      <4>2. kernel[r] = TRUE
        BY <2>3, <4>1 DEF Actions
      <4> QED
        BY <2>4, <3>1, <4>2
    <3>2. CASE ~enabled[r]
      <4>1. Settles("unenforce", r)
        BY <2>1, <3>2 DEF DisabledFades
      <4>2. kernel[r] = FALSE
        BY <2>3, <4>1 DEF Actions
      <4> QED
        BY <2>4, <3>2, <4>2
    <3> QED
      BY <3>1, <3>2
  <2> QED
    BY <2>4, <2>5
<1>3. TypeInv /\ Orderly /\ [Next]_vars => Orderly'
  BY NextOrderly
<1> QED
  BY <1>1, <1>2, <1>3, InitTypeInv, NextTypeInv, NextEnd, NextFades, NextRises, PTL DEF Spec

-----------------------------------------------------------------------------
(* The VPN client                                                             *)

Starting == {"start", "poll", "routes", "push", "up", "after"}
Stopping == {"stop", "unredirect", "kill", "down"}
Ending == {"merge", "write"}
AnyPolicy == [state : BOOLEAN, running : BOOLEAN, reconnecting : Nat]

ClientTypes ==
    /\ {stored, memory, oper} \subseteq AnyPolicy
    /\ {aliased, exec, service, link, started, listening, wanted} \subseteq BOOLEAN
    /\ call \in [Calls -> [pc : {"idle"} \cup Starting \cup Stopping \cup Ending,
                           policy : AnyPolicy, result : BOOLEAN, data : AnyPolicy]]
    /\ writer \in [Vpn!Listeners -> [pc : {"idle", "read", "write"}, data : AnyPolicy,
                                     aliased : BOOLEAN]]
    /\ refresh \in {"none", "told", "checked"}
    /\ enforced \in [routes : BOOLEAN, redirect : BOOLEAN, strict : BOOLEAN]

CallAt(pcs) == \E c \in Calls : call[c].pc \in pcs

\* The app has changed its mind, and the policy has not been executed since.
Asked == /\ exec /\ memory.state # wanted /\ oper.state # wanted
         /\ \A c \in Calls : call[c].pc = "idle"
         /\ \A l \in Vpn!Listeners : writer[l].pc = "idle"

\* Otherwise every copy of the policy says what the app wants.
Agreed == /\ stored.state = wanted
          /\ Asked \/ (memory.state = wanted /\ oper.state = wanted)
          /\ \A l \in Vpn!Listeners : writer[l].pc = "write" => writer[l].data.state = wanted
          /\ \A c \in Calls : call[c].pc = "write" => call[c].data.state = wanted
          /\ \A c \in Calls : /\ call[c].pc \in Starting => wanted
                              /\ call[c].pc \in Stopping => ~wanted

\* A client that is wanted gets its strict mode from a start under way.
Held == wanted => Asked \/ CallAt(Starting) \/ enforced.strict = Strict

\* Of a client that is not wanted there is only what a stop under way takes away.
Leaves == ~wanted =>
    /\ writer["push_start"].pc = "idle"
    /\ started /\ service => link /\ refresh = "none"
    /\ refresh # "checked"
    /\ \/ Asked
       \/ /\ started \/ enforced.routes => CallAt({"stop"})
          /\ enforced.redirect => CallAt({"stop", "unredirect"})
          /\ service => CallAt({"stop", "unredirect", "kill"})
          /\ enforced.strict => CallAt(Stopping)

ClientInv == ClientTypes /\ Agreed /\ Held /\ Leaves /\ (Asked /\ started => link)
                         /\ (link => service)

USE DEF Vpn!Listeners

LEMMA InitClient == Vpn!Init => ClientInv
<1> SUFFICES ASSUME Vpn!Init PROVE ClientInv
  OBVIOUS
<1>0. Vpn!Off \in AnyPolicy
  BY DEF Vpn!Off, AnyPolicy
<1>1. ClientTypes
  <2>1. call \in [Calls -> [pc : {"idle"} \cup Starting \cup Stopping \cup Ending,
                           policy : AnyPolicy, result : BOOLEAN, data : AnyPolicy]]
    BY <1>0 DEF Vpn!Init, Vpn!NoCall
  <2>2. writer \in [Vpn!Listeners -> [pc : {"idle", "read", "write"}, data : AnyPolicy,
                                     aliased : BOOLEAN]]
    BY <1>0 DEF Vpn!Init, Vpn!NoWrite
  <2>3. enforced \in [routes : BOOLEAN, redirect : BOOLEAN, strict : BOOLEAN]
    BY DEF Vpn!Init, Vpn!Nothing
  <2> QED
    BY <1>0, <2>1, <2>2, <2>3 DEF Vpn!Init, ClientTypes
<1>2. Agreed /\ Held
  BY DEF Vpn!Init, Vpn!Off, Vpn!NoCall, Vpn!NoWrite, Agreed, Held, Starting, Stopping
<1>3. Leaves /\ (Asked /\ started => link) /\ (link => service)
  BY DEF Vpn!Init, Vpn!NoWrite, Vpn!Nothing, Leaves
<1> QED
  BY <1>1, <1>2, <1>3 DEF ClientInv

\* When nothing is under way, nothing that the app does not want is left.
LEMMA RestLeaves ==
  ASSUME ClientInv, Vpn!AtRest
  PROVE  /\ stored.state = wanted /\ memory.state = wanted /\ oper.state = wanted
         /\ wanted => enforced.strict = Strict
         /\ ~wanted => /\ ~started /\ ~service
                       /\ ~enforced.routes /\ ~enforced.redirect /\ ~enforced.strict
<1>1. ~Asked
  BY DEF Asked, Vpn!AtRest
<1>2. \A c \in Calls : call[c].pc = "idle"
  BY DEF Vpn!AtRest, Vpn!NoCall
<1>3. ~CallAt(Starting) /\ ~CallAt(Stopping) /\ ~CallAt({"stop"}) /\ ~CallAt({"stop", "unredirect"})
      /\ ~CallAt({"stop", "unredirect", "kill"})
  BY <1>2 DEF CallAt, Starting, Stopping
<1> QED
  BY <1>1, <1>3 DEF ClientInv, Agreed, Held, Leaves

LEMMA AppSetsClient ==
  ASSUME ClientInv, Vpn!AppSets PROVE ClientInv'
<1>1. Vpn!AtRest /\ (started => link)
  BY DEF Vpn!AppSets, Vpn!Settled
<1>2. /\ \A c \in Calls : call[c].pc = "idle"
      /\ \A l \in Vpn!Listeners : writer[l].pc = "idle"
      /\ refresh = "none"
  BY <1>1 DEF Vpn!AtRest, Vpn!NoCall, Vpn!NoWrite
<1>3. /\ wanted' = ~wanted /\ exec' = TRUE
      /\ stored' = [state |-> ~wanted, running |-> FALSE, reconnecting |-> 0]
      /\ UNCHANGED <<memory, oper, aliased, call, writer, service, link, started, listening,
                     refresh, enforced>>
  BY DEF Vpn!AppSets, Vpn!Off, Vpn!tunnel
<1>4. ClientTypes'
  BY <1>3 DEF ClientInv, ClientTypes, AnyPolicy
<1>5. Asked'
  BY <1>1, <1>2, <1>3, RestLeaves DEF Asked, ClientInv, ClientTypes
<1>6. Agreed'
  BY <1>2, <1>3, <1>5 DEF Agreed, Starting, Stopping, ClientInv, ClientTypes, AnyPolicy
<1>7. Held' /\ Leaves'
  BY <1>1, <1>2, <1>3, <1>5 DEF Held, Leaves
<1> QED
  BY <1>1, <1>3, <1>4, <1>5, <1>6, <1>7 DEF ClientInv

LEMMA ExecPolicyClient ==
  ASSUME ClientInv, Vpn!ExecPolicy PROVE ClientInv'
<1> USE DEF ClientInv
<1>t. ClientTypes
  OBVIOUS
<1>1. /\ exec /\ exec' = FALSE /\ memory' = stored
      /\ UNCHANGED <<stored, service, link, started, listening, refresh, enforced, wanted>>
  BY DEF Vpn!ExecPolicy, Vpn!tunnel, Vpn!bounds
<1>2. ~Asked'
  BY <1>1 DEF Asked
<1>3. CASE stored = oper
  <2>1. aliased' = FALSE /\ UNCHANGED <<oper, call, writer>>
    BY <1>3 DEF Vpn!ExecPolicy
  <2>2. ~Asked
    BY <1>3 DEF Asked, Agreed
  <2>3. ClientTypes'
    BY <1>t, <1>1, <2>1 DEF ClientTypes
  <2>4. Agreed'
    BY <1>1, <1>3, <2>1, <2>2 DEF Agreed
  <2>5. Held' /\ Leaves'
    BY <1>1, <2>1, <2>2 DEF Held, Leaves, CallAt
  <2> QED
    BY <1>1, <1>2, <2>1, <2>3, <2>4, <2>5
<1>4. CASE stored # oper
  <2>1. /\ oper' = stored /\ aliased' = TRUE
        /\ writer' = [l \in Vpn!Listeners |-> [writer[l] EXCEPT !.aliased = FALSE]]
    BY <1>4 DEF Vpn!ExecPolicy
  <2>2. PICK c \in Calls :
          /\ call[c] = Vpn!NoCall
          /\ call' = [call EXCEPT ![c] = [Vpn!NoCall EXCEPT
                !.pc = IF stored.state THEN "start" ELSE "stop", !.policy = stored]]
    BY <1>4 DEF Vpn!ExecPolicy
  <2> DEFINE new == [Vpn!NoCall EXCEPT !.pc = IF stored.state THEN "start" ELSE "stop",
                                       !.policy = stored]
  <2>3. /\ new \in [pc : {"start", "stop"}, policy : AnyPolicy, result : BOOLEAN, data : AnyPolicy]
        /\ new.pc = IF wanted THEN "start" ELSE "stop"
    BY <1>t DEF ClientTypes, AnyPolicy, Vpn!NoCall, Vpn!Off, Agreed
  <2>4. \A d \in Calls : call'[d] = IF d = c THEN new ELSE call[d]
    BY <1>t, <2>2 DEF ClientTypes
  <2>5. \A l \in Vpn!Listeners : /\ writer'[l].pc = writer[l].pc
                                 /\ writer'[l].data = writer[l].data
    BY <1>t, <2>1 DEF ClientTypes
  <2>6. ClientTypes'
    <3>1. call' \in [Calls -> [pc : {"idle"} \cup Starting \cup Stopping \cup Ending,
                               policy : AnyPolicy, result : BOOLEAN, data : AnyPolicy]]
      BY <1>t, <2>2, <2>3 DEF ClientTypes, Starting, Stopping
    <3>2. writer' \in [Vpn!Listeners -> [pc : {"idle", "read", "write"}, data : AnyPolicy,
                                         aliased : BOOLEAN]]
      BY <1>t, <2>1, ZenonT(60) DEF ClientTypes
    <3> QED
      BY <1>t, <1>1, <2>1, <3>1, <3>2 DEF ClientTypes
  <2>7. Agreed'
    <3>1. \A d \in Calls : /\ call'[d].pc = "write" => call'[d].data.state = wanted
                           /\ call'[d].pc \in Starting => wanted
                           /\ call'[d].pc \in Stopping => ~wanted
      <4> TAKE d \in Calls
      <4>1. CASE d = c
        BY <2>3, <2>4, <4>1 DEF Starting, Stopping
      <4>2. CASE d # c
        BY <2>4, <4>2 DEF Agreed
      <4> QED
        BY <4>1, <4>2
    <3> QED
      BY <1>1, <2>1, <2>5, <3>1 DEF Agreed
  <2>8. wanted => CallAt(Starting)'
    BY <2>3, <2>4 DEF CallAt, Starting
  <2>9. ~wanted => CallAt({"stop"})' /\ CallAt({"stop", "unredirect"})'
                   /\ CallAt({"stop", "unredirect", "kill"})' /\ CallAt(Stopping)'
    BY <2>3, <2>4 DEF CallAt, Stopping
  <2>10. Held' /\ Leaves'
    BY <1>1, <2>5, <2>8, <2>9 DEF Held, Leaves
  <2> QED
    BY <1>1, <1>2, <2>6, <2>7, <2>10
<1> QED
  BY <1>3, <1>4

\* What the client and its listeners write leaves the state of the policy alone.
LEMMA WritesClient ==
  ASSUME ClientInv,
         \/ \E l \in Vpn!Listeners : Vpn!Listen(l)
         \/ \E c \in Calls : Vpn!Merge(c) \/ Vpn!Write(c)
         \/ Vpn!CheckConnectivity
  PROVE  ClientInv'
<1> USE DEF ClientInv
<1>t. ClientTypes
  OBVIOUS
<1>1. ~Asked
  BY DEF Asked, Vpn!Listen, Vpn!ListenerReads, Vpn!ListenerWrites, Vpn!Merge, Vpn!Write,
         Vpn!CheckConnectivity
<1>n. memory.state = wanted /\ oper.state = wanted
  BY <1>1 DEF Agreed
<1>w. ASSUME NEW l \in Vpn!Listeners, NEW r, writer' = [writer EXCEPT ![l] = r],
             r \in [pc : {"idle", "read", "write"}, data : AnyPolicy, aliased : BOOLEAN],
             r.pc = "write" => r.data.state = wanted,
             r.pc # "idle" => wanted \/ l # "push_start",
             ClientTypes', UNCHANGED <<call, service, link, started, refresh, wanted>>,
             stored'.state = wanted, memory'.state = wanted, oper'.state = wanted,
             \/ enforced' = enforced
             \/ enforced' = [enforced EXCEPT !.redirect = FALSE]
             \/ wanted /\ enforced'.strict = enforced.strict
      PROVE  ClientInv'
  <2>1. \A k \in Vpn!Listeners : writer'[k] = IF k = l THEN r ELSE writer[k]
    BY <1>t, <1>w DEF ClientTypes
  <2>2. ~Asked'
    BY <1>w DEF Asked
  <2>3. Agreed'
    BY <1>w, <2>1 DEF Agreed
  <2>4. /\ enforced'.strict = enforced.strict
        /\ ~wanted => enforced'.routes = enforced.routes
        /\ ~wanted /\ enforced'.redirect => enforced.redirect
    BY <1>t, <1>w DEF ClientTypes
  <2>5. Held'
    BY <1>1, <1>w, <2>4 DEF Held, CallAt
  <2>6. Leaves'
    <3>1. ~wanted => writer'["push_start"].pc = "idle"
      BY <1>w, <2>1 DEF Leaves
    <3> QED
      BY <1>1, <1>w, <2>4, <3>1 DEF Leaves, CallAt
  <2> QED
    BY <1>w, <2>2, <2>3, <2>5, <2>6
<1>v. ASSUME NEW c \in Calls, NEW r, call' = [call EXCEPT ![c] = r],
             call[c].pc \in Ending, r.pc \in {"idle", "write"},
             r.pc = "write" => r.data.state = wanted,
             ClientTypes', UNCHANGED <<oper, writer, service, link, started, refresh, enforced, wanted>>,
             stored'.state = wanted, memory'.state = wanted
      PROVE  ClientInv'
  <2>1. \A d \in Calls : call'[d] = IF d = c THEN r ELSE call[d]
    BY <1>t, <1>v DEF ClientTypes
  <2>2. ~Asked'
    BY <1>n, <1>v DEF Asked
  <2>3. Agreed'
    BY <1>n, <1>v, <2>1 DEF Agreed, Starting, Stopping
  <2>4. \A d \in Calls : call[d].pc \in Starting \cup Stopping => call'[d].pc = call[d].pc
    BY <1>v, <2>1 DEF Starting, Stopping, Ending
  <2>5. Held'
    BY <1>1, <1>v, <2>4 DEF Held, CallAt
  <2>6. \A pcs \in SUBSET Stopping : CallAt(pcs) => CallAt(pcs)'
    BY <2>4 DEF CallAt
  <2>7. Leaves'
    BY <1>1, <1>v, <2>6 DEF Leaves, Stopping
  <2> QED
    BY <1>v, <2>2, <2>3, <2>5, <2>7
<1>p. \A data \in AnyPolicy : \A f, g \in BOOLEAN :
         /\ [pc |-> "write", data |-> data, aliased |-> g]
              \in [pc : {"idle", "read", "write"}, data : AnyPolicy, aliased : BOOLEAN]
         /\ [data EXCEPT !.running = f] \in AnyPolicy
         /\ [data EXCEPT !.running = f].state = data.state
  BY DEF AnyPolicy
<1>q. \A data \in AnyPolicy : \A f \in BOOLEAN : \A n \in Nat :
         /\ [data EXCEPT !.running = f, !.reconnecting = n] \in AnyPolicy
         /\ [data EXCEPT !.running = f, !.reconnecting = n].state = data.state
  BY DEF AnyPolicy
<1>2. ASSUME NEW l \in Vpn!Listeners, Vpn!ListenerReads(l) PROVE ClientInv'
  <2> DEFINE data == IF l = "push_start" THEN [memory EXCEPT !.running = TRUE] ELSE memory
             r == [pc |-> "write", data |-> data, aliased |-> aliased]
  <2>1. /\ writer[l].pc = "read" /\ memory' = data /\ oper' = IF aliased THEN data ELSE oper
        /\ writer' = [writer EXCEPT ![l] = r]
        /\ enforced' = [enforced EXCEPT !.redirect = (l = "push_start")]
        /\ UNCHANGED <<stored, aliased, exec, call, service, link, started, listening, refresh,
                       wanted>>
    BY <1>2 DEF Vpn!ListenerReads, Vpn!Change, Vpn!tunnel, Vpn!bounds
  <2>2. data \in AnyPolicy /\ data.state = wanted
    BY <1>t, <1>n, <1>p, ZenonT(60) DEF ClientTypes
  <2>3. r \in [pc : {"idle", "read", "write"}, data : AnyPolicy, aliased : BOOLEAN]
    BY <1>t, <1>p, <2>2 DEF ClientTypes
  <2>4. wanted \/ l # "push_start"
    BY <2>1 DEF Leaves
  <2>5. ClientTypes'
    BY <1>t, <2>1, <2>2, <2>3 DEF ClientTypes
  <2>6. \/ enforced' = [enforced EXCEPT !.redirect = FALSE]
        \/ wanted /\ enforced'.strict = enforced.strict
    BY <1>t, <2>1, <2>4 DEF ClientTypes
  <2> HIDE DEF data, r
  <2>7. stored'.state = wanted /\ memory'.state = wanted /\ oper'.state = wanted
    BY <1>n, <2>1, <2>2 DEF Agreed
  <2>8. r.pc = "write" /\ r.data.state = wanted
    BY <2>2 DEF r
  <2> QED
    BY <1>w, <2>1, <2>3, <2>4, <2>5, <2>6, <2>7, <2>8
<1>3. ASSUME NEW l \in Vpn!Listeners, Vpn!ListenerWrites(l) PROVE ClientInv'
  <2>1. /\ writer[l].pc = "write"
        /\ memory' = writer[l].data /\ stored' = writer[l].data /\ exec' = TRUE
        /\ aliased' = writer[l].aliased
        /\ writer' = [writer EXCEPT ![l] = Vpn!NoWrite]
        /\ UNCHANGED <<oper, call, service, link, started, listening, refresh, enforced, wanted>>
    BY <1>3 DEF Vpn!ListenerWrites, Vpn!Set, Vpn!tunnel, Vpn!bounds
  <2>2. Vpn!NoWrite \in [pc : {"idle", "read", "write"}, data : AnyPolicy, aliased : BOOLEAN]
        /\ Vpn!NoWrite.pc = "idle"
    BY DEF Vpn!NoWrite, Vpn!Off, AnyPolicy
  <2>3. writer[l].data \in AnyPolicy /\ writer[l].data.state = wanted /\ writer[l].aliased \in BOOLEAN
    BY <1>t, <2>1 DEF ClientTypes, Agreed
  <2>4. ClientTypes'
    BY <1>t, <2>1, <2>2, <2>3 DEF ClientTypes
  <2> QED
    BY <1>n, <1>w, <2>1, <2>2, <2>3, <2>4
<1>4. ASSUME NEW c \in Calls, Vpn!Merge(c) PROVE ClientInv'
  <2>1. /\ call[c].pc = "merge"
        /\ call' = [call EXCEPT ![c].pc = "write", ![c].data = Vpn!Outcome(c)]
        /\ UNCHANGED <<stored, memory, oper, aliased, exec, writer, service, link, started,
                       listening, refresh, enforced, wanted>>
    BY <1>4 DEF Vpn!Merge, Vpn!policies, Vpn!tunnel, Vpn!bounds
  <2>2. Vpn!Outcome(c) \in AnyPolicy /\ Vpn!Outcome(c).state = wanted
    <3>1. memory \in AnyPolicy /\ call[c].policy \in AnyPolicy /\ call[c].result \in BOOLEAN
      BY <1>t DEF ClientTypes
    <3>2. call[c].policy.reconnecting + 1 \in Nat
      BY <3>1 DEF AnyPolicy
    <3> DEFINE n == IF call[c].result \/ ~call[c].policy.state THEN 0
                    ELSE call[c].policy.reconnecting + 1
    <3>3. n \in Nat
      BY <3>2
    <3>4. Vpn!Outcome(c) = [memory EXCEPT !.running = call[c].result, !.reconnecting = n]
      BY DEF Vpn!Outcome
    <3> HIDE DEF n
    <3>5. /\ [memory EXCEPT !.running = call[c].result, !.reconnecting = n] \in AnyPolicy
          /\ [memory EXCEPT !.running = call[c].result, !.reconnecting = n].state = memory.state
      BY ONLY <1>q, <3>1, <3>3, Zenon
    <3> QED
      BY <1>n, <3>4, <3>5
  <2> DEFINE r == [call[c] EXCEPT !.pc = "write", !.data = Vpn!Outcome(c)]
  <2>3. call' = [call EXCEPT ![c] = r]
    BY <1>t, <2>1 DEF ClientTypes
  <2>4. /\ r.pc = "write"
        /\ r \in [pc : {"write"}, policy : AnyPolicy, result : BOOLEAN, data : AnyPolicy]
        /\ r.data = Vpn!Outcome(c)
    BY <1>t, <2>2, ZenonT(60) DEF ClientTypes
  <2> HIDE DEF r
  <2>5. ClientTypes'
    <3>1. r \in [pc : {"idle"} \cup Starting \cup Stopping \cup Ending,
                policy : AnyPolicy, result : BOOLEAN, data : AnyPolicy]
      BY <2>4 DEF Ending
    <3> QED
      BY <1>t, <2>1, <2>3, <3>1, ZenonT(60) DEF ClientTypes
  <2>6. stored'.state = wanted /\ memory'.state = wanted /\ r.data.state = wanted
    BY <1>n, <2>1, <2>2, <2>4 DEF Agreed
  <2> QED
    BY <1>v, <2>1, <2>3, <2>4, <2>5, <2>6 DEF Ending
<1>5. ASSUME NEW c \in Calls, Vpn!Write(c) PROVE ClientInv'
  <2>1. /\ call[c].pc = "write" /\ memory' = call[c].data /\ stored' = call[c].data /\ exec' = TRUE
        /\ aliased' = FALSE
        /\ call' = [call EXCEPT ![c] = Vpn!NoCall]
        /\ UNCHANGED <<oper, writer, service, link, started, listening, refresh, enforced, wanted>>
    BY <1>5 DEF Vpn!Write, Vpn!Set, Vpn!tunnel, Vpn!bounds
  <2>2. /\ Vpn!NoCall \in [pc : {"idle"}, policy : AnyPolicy, result : BOOLEAN, data : AnyPolicy]
        /\ Vpn!NoCall.pc = "idle"
    BY DEF Vpn!NoCall, Vpn!Off, AnyPolicy
  <2>3. call[c].data \in AnyPolicy /\ call[c].data.state = wanted
    BY <1>t, <2>1 DEF ClientTypes, Agreed
  <2>4. ClientTypes'
    BY <1>t, <2>1, <2>2, <2>3 DEF ClientTypes
  <2> QED
    BY <1>v, <2>1, <2>2, <2>3, <2>4 DEF Ending
<1>6. ASSUME Vpn!CheckConnectivity PROVE ClientInv'
  <2> DEFINE data == [memory EXCEPT !.running = FALSE, !.reconnecting = @ + 1]
             r == [pc |-> "write", data |-> data, aliased |-> aliased]
  <2>1. /\ started /\ ~link /\ listening' = FALSE
        /\ memory' = data /\ oper' = IF aliased THEN data ELSE oper
        /\ writer' = [writer EXCEPT !["link_broken"] = r]
        /\ UNCHANGED <<stored, aliased, exec, call, service, link, started, refresh, enforced,
                       wanted>>
    BY <1>6 DEF Vpn!CheckConnectivity, Vpn!Change, Vpn!bounds
  <2>2. data \in AnyPolicy /\ data.state = wanted
    <3>1. memory \in AnyPolicy /\ memory.reconnecting + 1 \in Nat
      BY <1>t DEF ClientTypes, AnyPolicy
    <3> QED
      BY <1>n, <1>q, <3>1
  <2>3. r \in [pc : {"idle", "read", "write"}, data : AnyPolicy, aliased : BOOLEAN]
    BY <1>t, <1>p, <2>2 DEF ClientTypes
  <2>5. ClientTypes'
    BY <1>t, <2>1, <2>2, <2>3 DEF ClientTypes
  <2>8. r.pc = "write" /\ r.data.state = wanted
    BY <2>2
  <2> HIDE DEF data, r
  <2>7. stored'.state = wanted /\ memory'.state = wanted /\ oper'.state = wanted
    BY <1>n, <2>1, <2>2 DEF Agreed
  <2> QED
    BY <1>w, <2>1, <2>3, <2>5, <2>7, <2>8
<1> QED
  BY <1>2, <1>3, <1>4, <1>5, <1>6 DEF Vpn!Listen

CallType == [pc : {"idle"} \cup Starting \cup Stopping \cup Ending,
             policy : AnyPolicy, result : BOOLEAN, data : AnyPolicy]

\* A start or a stop goes on to pc; result is what it will return.
LEMMA CallGoesOn ==
  ASSUME ClientInv, NEW c \in Calls, NEW pc \in Starting \cup Stopping \cup {"merge"},
         NEW result \in BOOLEAN,
         call' = [call EXCEPT ![c].pc = pc, ![c].result = result],
         \/ call[c].pc \in Starting /\ pc \in Starting \cup {"merge"}
         \/ call[c].pc \in Stopping /\ pc \in Stopping \cup {"merge"},
         UNCHANGED <<stored, memory, oper, aliased, exec, wanted>>,
         \A l \in Vpn!Listeners : \/ writer'[l] = writer[l]
                                  \/ writer[l].pc = "idle" /\ writer'[l].pc = "read"
  PROVE  /\ call' \in [Calls -> CallType]
         /\ \A d \in Calls : call'[d].pc = IF d = c THEN pc ELSE call[d].pc
         /\ ~Asked /\ ~Asked' /\ Agreed'
         /\ wanted <=> call[c].pc \in Starting
<1>t. call \in [Calls -> CallType]
  BY DEF ClientInv, ClientTypes, CallType
<1> DEFINE r == [call[c] EXCEPT !.pc = pc, !.result = result]
<1>1. r \in CallType /\ r.pc = pc /\ r.data = call[c].data
  BY <1>t DEF CallType, Ending
<1>2. call' = [call EXCEPT ![c] = r]
  BY <1>t DEF CallType
<1> HIDE DEF r
<1>3. call' \in [Calls -> CallType]
  BY <1>t, <1>1, <1>2
<1>4. \A d \in Calls : call'[d] = IF d = c THEN r ELSE call[d]
  BY <1>t, <1>2
<1>5. wanted <=> call[c].pc \in Starting
  BY DEF ClientInv, Agreed
<1>6. ~Asked /\ ~Asked'
  BY <1>1, <1>4 DEF Asked, Starting, Stopping
<1>7. Agreed'
  <2>0. /\ pc # "write" /\ (pc \in Starting => wanted) /\ (pc \in Stopping => ~wanted)
    BY <1>5 DEF Starting, Stopping
  <2>1. \A d \in Calls : /\ call'[d].pc = "write" => call'[d].data.state = wanted
                         /\ call'[d].pc \in Starting => wanted
                         /\ call'[d].pc \in Stopping => ~wanted
    <3>1. CASE r.pc = pc /\ pc # "write"
      <4>1. ASSUME NEW d \in Calls, d # c
            PROVE  /\ call'[d].pc = "write" => call'[d].data.state = wanted
                   /\ call'[d].pc \in Starting => wanted
                   /\ call'[d].pc \in Stopping => ~wanted
        BY <1>4, <4>1, ZenonT(60) DEF ClientInv, Agreed
      <4>2. call'[c].pc = pc
        BY <1>1, <1>4
      <4> QED
        BY <2>0, <4>1, <4>2
    <3> QED
      BY <1>1, <2>0, <3>1
  <2>2. \A l \in Vpn!Listeners : writer'[l].pc = "write" => writer'[l].data.state = wanted
    BY DEF ClientInv, Agreed
  <2> QED
    BY <1>6, <2>1, <2>2 DEF ClientInv, Agreed
<1> QED
  BY <1>1, <1>3, <1>4, <1>5, <1>6, <1>7

LEMMA StartClient ==
  ASSUME ClientInv, NEW c \in Calls, Vpn!Start(c) PROVE ClientInv'
<1>t. ClientTypes /\ call \in [Calls -> CallType] /\ call[c].result \in BOOLEAN
  BY DEF ClientInv, ClientTypes, CallType
<1>1. ASSUME NEW pc \in Starting \cup {"merge"}, NEW result \in BOOLEAN,
             call[c].pc \in Starting,
             call' = [call EXCEPT ![c].pc = pc, ![c].result = result],
             UNCHANGED <<stored, memory, oper, aliased, exec, wanted>>,
             \A l \in Vpn!Listeners : \/ writer'[l] = writer[l]
                                      \/ writer[l].pc = "idle" /\ writer'[l].pc = "read",
             writer' \in [Vpn!Listeners -> [pc : {"idle", "read", "write"}, data : AnyPolicy,
                                            aliased : BOOLEAN]],
             {service', link', started', listening'} \subseteq BOOLEAN,
             refresh' = refresh,
             enforced' \in [routes : BOOLEAN, redirect : BOOLEAN, strict : BOOLEAN],
             link' => service',
             enforced'.strict = enforced.strict \/ enforced'.strict = Strict,
             pc = "merge" => enforced'.strict = Strict
      PROVE  ClientInv'
  <2>1. /\ call' \in [Calls -> CallType]
        /\ \A d \in Calls : call'[d].pc = IF d = c THEN pc ELSE call[d].pc
        /\ ~Asked' /\ Agreed' /\ wanted
    <3>1. pc \in Starting \cup Stopping \cup {"merge"}
      OBVIOUS
    <3>2. \/ call[c].pc \in Starting /\ pc \in Starting \cup {"merge"}
          \/ call[c].pc \in Stopping /\ pc \in Stopping \cup {"merge"}
      BY <1>1
    <3> QED
      BY <1>1, <3>1, <3>2, CallGoesOn, ZenonT(60)
  <2>2. ClientTypes'
    BY <1>t, <1>1, <2>1 DEF ClientTypes, CallType
  <2>3. Held'
    BY <1>1, <2>1 DEF Held, CallAt
  <2>4. Leaves'
    BY <1>1, <2>1 DEF Leaves
  <2> QED
    BY <1>1, <2>1, <2>2, <2>3, <2>4 DEF ClientInv
<1>2. ASSUME NEW pc, Vpn!To(c, pc)
      PROVE  call' = [call EXCEPT ![c].pc = pc, ![c].result = call[c].result]
  BY <1>t, <1>2 DEF Vpn!To, CallType
<1> USE DEF Vpn!policies, Vpn!tunnel, Vpn!bounds
<1>3. CASE Vpn!StartService(c)
  BY <1>t, <1>1, <1>2, <1>3, StrictAssumption DEF Vpn!StartService, ClientTypes, Starting
<1>4. CASE Vpn!Established(c)
  BY <1>t, <1>1, <1>2, <1>4 DEF Vpn!Established, ClientTypes, ClientInv, Starting
<1>5. CASE Vpn!GiveUp(c)
  BY <1>t, <1>1, <1>2, <1>5 DEF Vpn!GiveUp, ClientTypes, ClientInv, Starting
<1>6. CASE Vpn!EnforceRoutes(c)
  <2>1. /\ enforced' \in [routes : BOOLEAN, redirect : BOOLEAN, strict : BOOLEAN]
        /\ enforced'.strict = enforced.strict
    BY <1>t, <1>6 DEF Vpn!EnforceRoutes, ClientTypes
  <2>2. /\ call[c].pc \in Starting /\ "push" \in Starting \cup {"merge"}
        /\ UNCHANGED <<stored, memory, oper, aliased, exec, writer, service, link, started,
                       listening, refresh, wanted>>
        /\ Vpn!To(c, "push")
    BY <1>6 DEF Vpn!EnforceRoutes, Starting
  <2>3. call' = [call EXCEPT ![c].pc = "push", ![c].result = call[c].result]
    BY <1>2, <2>2
  <2>4. /\ {service, link, started, listening} \subseteq BOOLEAN /\ (link => service)
        /\ writer \in [Vpn!Listeners -> [pc : {"idle", "read", "write"}, data : AnyPolicy,
                                         aliased : BOOLEAN]]
    BY <1>t DEF ClientTypes, ClientInv
  <2> QED
    BY <1>t, <1>1, <2>1, <2>2, <2>3, <2>4
<1>7. CASE Vpn!PushOptions(c)
  BY <1>t, <1>1, <1>2, <1>7, SMTT(40) DEF Vpn!PushOptions, ClientTypes, ClientInv, Starting
<1>8. CASE Vpn!Up(c)
  BY <1>t, <1>1, <1>8, StrictAssumption DEF Vpn!Up, ClientTypes, ClientInv, Starting
<1>9. CASE Vpn!AfterStart(c)
  BY <1>t, <1>1, <1>2, <1>9, StrictAssumption, SMTT(40) DEF Vpn!AfterStart, ClientTypes, ClientInv, Starting
<1> QED
  BY <1>3, <1>4, <1>5, <1>6, <1>7, <1>8, <1>9 DEF Vpn!Start

LEMMA StopClient ==
  ASSUME ClientInv, NEW c \in Calls, Vpn!Stop(c) PROVE ClientInv'
<1>t. ClientTypes /\ call \in [Calls -> CallType] /\ call[c].result \in BOOLEAN
  BY DEF ClientInv, ClientTypes, CallType
<1>2. ASSUME NEW pc, Vpn!To(c, pc)
      PROVE  call' = [call EXCEPT ![c].pc = pc, ![c].result = call[c].result]
  BY <1>t, <1>2 DEF Vpn!To, CallType
<1>1. ASSUME NEW pc \in Stopping \cup {"merge"},
             call[c].pc \in Stopping, Vpn!To(c, pc),
             UNCHANGED <<stored, memory, oper, aliased, exec, wanted, refresh>>,
             \A l \in Vpn!Listeners : \/ writer'[l] = writer[l]
                                      \/ writer[l].pc = "idle" /\ writer'[l].pc = "read"
      PROVE  /\ call' \in [Calls -> CallType]
             /\ \A d \in Calls : call'[d].pc = IF d = c THEN pc ELSE call[d].pc
             /\ ~Asked /\ ~Asked' /\ Agreed' /\ ~wanted
  <2>1. pc \in Starting \cup Stopping \cup {"merge"}
    BY <1>1
  <2>2. call[c].pc \notin Starting
    BY <1>1 DEF Starting, Stopping
  <2>3. \/ call[c].pc \in Starting /\ pc \in Starting \cup {"merge"}
        \/ call[c].pc \in Stopping /\ pc \in Stopping \cup {"merge"}
    BY <1>1
  <2>4. call' = [call EXCEPT ![c].pc = pc, ![c].result = call[c].result]
    BY <1>1, <1>2
  <2> QED
    BY <1>1, <1>t, <2>1, <2>2, <2>3, <2>4, CallGoesOn, ZenonT(60)
<1> USE DEF Vpn!policies, Vpn!tunnel, Vpn!bounds
<1>3. CASE Vpn!FlushRoutes(c)
  <2>1. /\ call' \in [Calls -> CallType]
        /\ \A d \in Calls : call'[d].pc = IF d = c THEN "unredirect" ELSE call[d].pc
        /\ ~Asked /\ ~Asked' /\ Agreed' /\ ~wanted
    BY <1>1, <1>3 DEF Vpn!FlushRoutes, Stopping
  <2>2. /\ started' = FALSE /\ enforced' = [enforced EXCEPT !.routes = FALSE]
        /\ UNCHANGED <<stored, memory, oper, aliased, exec, writer, service, link, listening,
                       refresh, wanted>>
    BY <1>3 DEF Vpn!FlushRoutes
  <2>3. ClientTypes'
    BY <1>t, <2>1, <2>2 DEF ClientTypes, CallType
  <2>4. /\ CallAt({"stop", "unredirect"})' /\ CallAt({"stop", "unredirect", "kill"})' /\ CallAt(Stopping)'
    BY <2>1 DEF CallAt, Stopping
  <2>5. Held' /\ Leaves'
    BY <1>t, <2>1, <2>2, <2>4 DEF Held, Leaves, ClientTypes, ClientInv
  <2> QED
    BY <2>1, <2>2, <2>3, <2>5 DEF ClientInv
<1>4. CASE Vpn!Unredirect(c)
  <2>0. \A l \in Vpn!Listeners : \/ writer'[l] = writer[l]
                                 \/ writer[l].pc = "idle" /\ writer'[l].pc = "read"
    BY <1>t, <1>4 DEF Vpn!Unredirect, ClientTypes
  <2>1. /\ call' \in [Calls -> CallType]
        /\ \A d \in Calls : call'[d].pc = IF d = c THEN "kill" ELSE call[d].pc
        /\ ~Asked /\ ~Asked' /\ Agreed' /\ ~wanted
    BY <1>1, <1>4, <2>0 DEF Vpn!Unredirect, Stopping
  <2>2. /\ enforced' = [enforced EXCEPT !.redirect = FALSE]
        /\ UNCHANGED <<stored, memory, oper, aliased, exec, service, link, started, listening,
                       refresh, wanted>>
        /\ \A l \in Vpn!Listeners \ {"push_stop"} : writer'[l] = writer[l]
        /\ writer' \in [Vpn!Listeners -> [pc : {"idle", "read", "write"}, data : AnyPolicy,
                                          aliased : BOOLEAN]]
    BY <1>t, <1>4 DEF Vpn!Unredirect, ClientTypes
  <2>3. ClientTypes'
    BY <1>t, <2>1, <2>2 DEF ClientTypes, CallType
  <2>4. /\ CallAt({"stop", "unredirect", "kill"})' /\ CallAt(Stopping)'
        /\ CallAt({"stop"}) => CallAt({"stop"})'
    BY <1>4, <2>1 DEF CallAt, Stopping, Vpn!Unredirect
  <2>5. Held' /\ Leaves'
    BY <1>t, <2>1, <2>2, <2>4 DEF Held, Leaves, ClientTypes, ClientInv
  <2> QED
    BY <2>1, <2>2, <2>3, <2>5 DEF ClientInv
<1>5. CASE Vpn!StopService(c)
  <2>1. /\ call' \in [Calls -> CallType]
        /\ \A d \in Calls : call'[d].pc = IF d = c THEN "down" ELSE call[d].pc
        /\ ~Asked /\ ~Asked' /\ Agreed' /\ ~wanted
    BY <1>1, <1>5 DEF Vpn!StopService, Stopping
  <2>2. /\ service' = FALSE /\ link' = FALSE
        /\ UNCHANGED <<stored, memory, oper, aliased, exec, writer, started, listening, refresh,
                       enforced, wanted>>
    BY <1>5 DEF Vpn!StopService
  <2>3. ClientTypes'
    BY <1>t, <2>1, <2>2 DEF ClientTypes, CallType
  <2>4. /\ CallAt(Stopping)'
        /\ CallAt({"stop"}) => CallAt({"stop"})'
        /\ CallAt({"stop", "unredirect"}) => CallAt({"stop", "unredirect"})'
    BY <1>5, <2>1 DEF CallAt, Stopping, Vpn!StopService
  <2>5. Held' /\ Leaves'
    BY <1>t, <2>1, <2>2, <2>4 DEF Held, Leaves, ClientTypes, ClientInv
  <2> QED
    BY <2>1, <2>2, <2>3, <2>5 DEF ClientInv
<1>6. CASE Vpn!Down(c)
  <2>1. /\ call' \in [Calls -> CallType]
        /\ \A d \in Calls : call'[d].pc = IF d = c THEN "merge" ELSE call[d].pc
        /\ ~Asked /\ ~Asked' /\ Agreed' /\ ~wanted
    BY <1>1, <1>6 DEF Vpn!Down, Stopping
  <2>2. /\ enforced' = [enforced EXCEPT !.strict = FALSE]
        /\ UNCHANGED <<stored, memory, oper, aliased, exec, writer, service, link, started,
                       listening, refresh, wanted>>
    BY <1>6 DEF Vpn!Down, Vpn!Unstrict
  <2>3. ClientTypes'
    BY <1>t, <2>1, <2>2 DEF ClientTypes, CallType
  <2>4. /\ CallAt({"stop"}) => CallAt({"stop"})'
        /\ CallAt({"stop", "unredirect"}) => CallAt({"stop", "unredirect"})'
        /\ CallAt({"stop", "unredirect", "kill"}) => CallAt({"stop", "unredirect", "kill"})'
    BY <1>6, <2>1 DEF CallAt, Vpn!Down
  <2>5. Held' /\ Leaves'
    BY <1>t, <2>1, <2>2, <2>4 DEF Held, Leaves, ClientTypes, ClientInv
  <2> QED
    BY <2>1, <2>2, <2>3, <2>5 DEF ClientInv
<1> QED
  BY <1>3, <1>4, <1>5, <1>6 DEF Vpn!Stop

LEMMA LinkClient ==
  ASSUME ClientInv, Vpn!LinkUp \/ Vpn!LinkDown \/ Vpn!Refresh PROVE ClientInv'
<1> USE DEF Vpn!policies, Vpn!tunnel, Vpn!bounds
<1>0. UNCHANGED <<stored, memory, oper, aliased, exec, call, writer, service, started, listening,
                  wanted>>
  BY DEF Vpn!LinkUp, Vpn!LinkDown, Vpn!Refresh, Vpn!RefreshCheck, Vpn!RefreshRoutes
<1>1. Agreed' /\ Asked' = Asked /\ \A pcs \in SUBSET Stopping : CallAt(pcs)' = CallAt(pcs)
  BY <1>0 DEF Agreed, Asked, CallAt, ClientInv
<1>2. CASE Vpn!LinkUp
  BY <1>0, <1>1, <1>2 DEF Vpn!LinkUp, ClientInv, ClientTypes, Held, Leaves, CallAt
<1>3. CASE Vpn!LinkDown
  <2>1. ~wanted => ~service /\ ~started
    BY <1>3, RestLeaves DEF Vpn!LinkDown, Vpn!Settled
  <2>2. ~exec
    BY <1>3 DEF Vpn!LinkDown, Vpn!Settled, Vpn!AtRest
  <2> QED
    <3>0. link' = FALSE /\ UNCHANGED <<refresh, enforced>>
      BY <1>3 DEF Vpn!LinkDown
    <3>1. ClientTypes' /\ Held'
      BY <1>0, <1>1, <3>0 DEF ClientInv, ClientTypes, Held, CallAt
    <3>2. Leaves'
      BY <1>0, <1>1, <1>3, <2>1 DEF Vpn!LinkDown, ClientInv, Leaves, Stopping
    <3> QED
      BY <1>0, <1>1, <1>3, <2>2, <3>1, <3>2 DEF Vpn!LinkDown, ClientInv, Asked
<1>4. CASE Vpn!RefreshCheck
  <2>1. /\ refresh = "told" /\ refresh' \in {"none", "checked"}
        /\ refresh' = "checked" => started
        /\ UNCHANGED <<link, enforced>>
    BY <1>4 DEF Vpn!RefreshCheck
  <2>2. ClientTypes' /\ Held'
    BY <1>0, <1>1, <2>1 DEF ClientInv, ClientTypes, Held, CallAt
  <2>3. Leaves'
    <3>1. ~wanted => refresh' # "checked"
      BY <2>1, <1>4 DEF ClientInv, Leaves, Vpn!RefreshCheck
    <3>2. ~wanted /\ started /\ service => refresh' = "none"
      BY <2>1 DEF ClientInv, Leaves
    <3> QED
      BY <1>0, <1>1, <2>1, <3>1, <3>2 DEF ClientInv, Leaves, Stopping
  <2> QED
    BY <1>0, <1>1, <2>1, <2>2, <2>3 DEF ClientInv
<1>5. CASE Vpn!RefreshRoutes
  <2>1. /\ refresh = "checked" /\ refresh' = "none"
        /\ enforced' = [enforced EXCEPT !.routes = TRUE, !.redirect = TRUE]
        /\ UNCHANGED link
    BY <1>5 DEF Vpn!RefreshRoutes
  <2>2. ClientTypes' /\ enforced'.strict = enforced.strict
    BY <1>0, <2>1 DEF ClientInv, ClientTypes
  <2>3. wanted
    BY <2>1 DEF ClientInv, Leaves
  <2>4. Held' /\ Leaves'
    BY <1>0, <1>1, <2>2, <2>3 DEF ClientInv, Held, Leaves, CallAt
  <2> QED
    BY <1>0, <1>1, <2>1, <2>2, <2>4 DEF ClientInv
<1> QED
  BY <1>2, <1>3, <1>4, <1>5 DEF Vpn!Refresh

LEMMA NextClient == ClientInv /\ [Vpn!Next]_(Vpn!vars) => ClientInv'
<1>1. ASSUME ClientInv, UNCHANGED Vpn!vars PROVE ClientInv'
  BY <1>1 DEF Vpn!vars, Vpn!policies, Vpn!tunnel, Vpn!bounds, ClientInv, ClientTypes, Agreed, Held,
              Leaves, Asked, CallAt
<1>2. ASSUME ClientInv, NEW c \in Calls, Vpn!Work(c) PROVE ClientInv'
  BY <1>2, StartClient, StopClient, WritesClient DEF Vpn!Work
<1> QED
  BY <1>1, <1>2, AppSetsClient, ExecPolicyClient, WritesClient, LinkClient DEF Vpn!Next

LEMMA ClientInvariant == Vpn!Spec => []ClientInv
  BY InitClient, NextClient, PTL DEF Vpn!Spec

\* When nothing is under way, a strict VPN drops what goes past the tunnel exactly while
\* the app wants the client: whatever starts failed, links broke and were started again,
\* and whatever of these the app's next change came between (VPNClient.js).
THEOREM StrictIsWanted == Vpn!Spec => []StrictFollowsState
<1>1. ClientInv => StrictFollowsState
  <2> SUFFICES ASSUME ClientInv, Vpn!AtRest PROVE enforced.strict = (stored.state /\ Strict)
    BY DEF StrictFollowsState, Vpn!StrictFollowsState
  <2> QED
    BY RestLeaves, StrictAssumption DEF ClientInv, ClientTypes
<1> QED
  BY <1>1, ClientInvariant, PTL

\* A client that the app does not want leaves no route, no redirection, no strict rule
\* and no service behind, once nothing is under way.
THEOREM NothingIsLeft == Vpn!Spec => []Vpn!StoppedLeavesNothing
<1>1. ClientInv => Vpn!StoppedLeavesNothing
  BY RestLeaves DEF Vpn!StoppedLeavesNothing, Vpn!Nothing, ClientInv, ClientTypes
<1> QED
  BY <1>1, ClientInvariant, PTL
=============================================================================

------------------------- MODULE AlarmManagerProofs -------------------------
(***************************************************************************)
(* Theorems about AlarmManager, for any processes, creations and operations*)
(* of the app under way, queues, alarms and kinds.                         *)
(*                                                                         *)
(* On a box that has had an alarm, or where one queue creates every alarm  *)
(* (Once), ids grow: an id is given to one creation and until the alarm is *)
(* listed nobody else knows it (NewIsPrivate), for what everybody knows was*)
(* listed once (KnownIsOld).  Hence an alarm that has left the active list *)
(* never comes back to it, which is what archiving and deleting rely on.   *)
(*                                                                         *)
(* With one queue, one creation is at work at a time (AtWork): what it has *)
(* found of duplicates stays true until its alarm is listed (Distinct), for*)
(* what an alarm is about is said in its record and never changes (Agree). *)
(***************************************************************************)
EXTENDS AlarmManager, SequenceTheorems, TLAPS

Creating == {"dedup", "exceptions", "policies", "getId", "setId", "incrId", "hmset", "zadd"}

\* The points at which a process is about to take the alarm out of the active
\* list, and those at which the alarm is its own.
Leaving == {"archive", "archiveNext"}
Private == {"hmset", "zadd"}

\* What the code of process x finds in its frame f at the point where it is.
Good(x, f) ==
    /\ f \in Frame
    /\ f.pc \in Creating => x \in Workers /\ f.op = "create" /\ f.alarm \in {Fresh(k) : k \in Kinds}
    /\ f.pc \in Private \cup Leaving \cup {"load", "same", "save", "update", "delete", "clear",
                                "remove", "removeActive", "del"} => f.aid \in Aids
    /\ f.pc \in Leaving \cup {"same", "save", "update", "similar", "related", "updateNext",
                              "delete", "clear"} => f.alarm \in Alarm
    /\ f.pc \in {"same", "save", "update"} => f.op \in {"block", "allow"}
    /\ f.pc \in {"similar", "updateNext", "archiveNext"} =>
          f.op \in {"block", "allow", "archiveByException"}
    /\ f.pc = "archive" => f.op \in {"block", "allow", "ignore"}
    /\ f.pc = "load" => f.op \in {"block", "allow", "ignore", "unblock", "unallow"}
    /\ f.op = "deleteArchivedAll" => f.pc = "all"
    /\ f.pc = "all" => f.op \in {"ignoreAll", "deleteActiveAll", "deleteArchivedAll"}
    /\ f.pc \in {"zremDead", "zremDeadArchived"} => f.op = "cleanIndex"
    /\ f.pc \in {"updateNext", "archiveNext"} => \A t \in f.todo : t[2] \in Alarm

TypeInv == TypeOK /\ \A x \in Procs : Good(x, proc[x])

\* One queue creates every alarm, each within the time of its job: then one
\* worker is at work at a time, the one the queue waits for.
Orderly == ~Slow /\ direct = 0 /\ \E q \in Queues : Queues = {q}
AtWork ==
    Orderly => \A w \in Workers : proc[w].pc # "idle" => \E q \in Queues : current[q] = w

\* An id is given out once.
Once == firstId # 0 \/ Orderly

\* The alarms that a frame names.
Known(f) == {f.aid} \cup {t[1] : t \in f.todo}

\* A process that has the id of an alarm to be has it alone.
NewIsPrivate ==
    \A w \in Procs : proc[w].pc \in Private =>
        /\ proc[w].aid \notin active \cup archive
        /\ \A x \in Procs \ {w} : proc[w].aid \notin Known(proc[x])

\* Everything that is listed or named has been given an id.
KnownIsOld ==
    /\ firstId # 0 => id # 0
    /\ \A a \in active \cup archive : a <= id
    /\ \A a \in Aids : alarms[a] # None => a <= id
    /\ \A x \in Procs : \A a \in Known(proc[x]) : a <= id

\* A record is written before the alarm is listed, and deleted after it has
\* left the list; one that has expired is no duplicate of anything any more.
Present(a) == alarms[a] # None \/ (a \in expired /\ a \notin recent)
RecordsFirst ==
    /\ \A a \in active : Present(a)
    /\ \A x \in Procs :
          /\ proc[x].pc = "setId" => id = 0
          /\ proc[x].pc = "zadd" => alarms[proc[x].aid] = proc[x].alarm
          /\ proc[x].pc = "del" => proc[x].aid \notin active
          /\ proc[x].pc = "delHost" \/ proc[x].op = "deleteArchivedAll" =>
                {t[1] : t \in proc[x].todo} \cap active = {}

\* Whoever writes the result of an alarm that is listed unlists it next.
Stale(alarm) == alarm.result # "" /\ ~alarm.auto
Takes(f, a) == f.pc \in Leaving /\ f.aid = a
HandledIsTaken ==
    \A a \in active : alarms[a] # None /\ Stale(alarms[a]) => \E x \in Procs : Takes(proc[x], a)

UsedInv == active \cap archive = {} /\ KnownIsOld /\ NewIsPrivate /\ RecordsFirst /\ HandledIsTaken

IInv == TypeInv /\ AtWork /\ (Once => UsedInv)

-----------------------------------------------------------------------------
(* Operators *)

LEMMA AidsAreIds == Aids \subseteq Nat \ {0}
BY AlarmAssumption DEF Aids

LEMMA IdIsNumber == TypeOK => id \in Nat
BY AidsAreIds, AlarmAssumption DEF TypeOK

LEMMA FirstIsId == (\E i \in FirstIds : TRUE) => 1 \in Aids
<1> SUFFICES ASSUME NEW i \in FirstIds PROVE 1 \in Aids
  OBVIOUS
<1>1. MaxAlarms \in Nat /\ MaxAlarms > 0 /\ i \in Nat
  BY AlarmAssumption
<1>2. 1 \in 1 .. i + MaxAlarms
  BY <1>1
<1> QED
  BY <1>2 DEF Aids

LEMMA FreshIsAlarm ==
  ASSUME NEW k \in Kinds
  PROVE  Fresh(k) \in Alarm /\ Fresh(k).kind = k /\ ~Stale(Fresh(k))
BY DEF Fresh, Alarm, Stale

\* A record that is there is an alarm, not None.
LEMMA NoneIsNoAlarm == TypeOK => \A a \in Aids : alarms[a] # None => alarms[a] \in Alarm
BY DEF TypeOK

\* What is like a kind is listed as active, with its record.
LEMMA LikeIsListed ==
  ASSUME TypeOK, NEW k
  PROVE  /\ Like(k) \subseteq Aids \X Alarm
         /\ {t[1] : t \in Like(k)} \subseteq active
BY DEF TypeOK, Like

\* The result of an operation on an alarm is an alarm; it is to be kept, to be
\* taken out of the active list or was handled automatically.
LEMMA HandledIsAlarm ==
  ASSUME NEW f \in Frame, NEW alarm \in Alarm,
         f.op \in {"block", "allow", "archiveByException"}
  PROVE  Handled(f, alarm) \in Alarm
BY ZenonT(60) DEF Handled, Alarm, Frame

\* Deleting the records of todo leaves the others.
LEMMA DeletedKeeps ==
  ASSUME TypeOK, NEW todo
  PROVE  /\ Deleted(todo) \in [Aids -> Alarm \cup {None}]
         /\ \A a \in Aids : a \notin {t[1] : t \in todo} => Deleted(todo)[a] = alarms[a]
BY DEF TypeOK, Deleted

-----------------------------------------------------------------------------
(* Frames *)

\* A process that has nothing to do, or hangs.
LEMMA IdleIsGood ==
  /\ \A x \in Procs : Good(x, Idle) /\ Good(x, [Idle EXCEPT !.pc = "hung"])
  /\ Known(Idle) = {0} /\ Known([Idle EXCEPT !.pc = "hung"]) = {0}
BY DEF Idle, Good, Frame, Points, Creating, Private, Leaving, Known

LEMMA CreationIsGood ==
  \A k \in Kinds : /\ \A w \in Workers : Good(w, Creation(k))
                   /\ Known(Creation(k)) = {0}
                   /\ Creation(k).pc = "dedup" /\ Creation(k).op = "create"
BY FreshIsAlarm, ZenonT(60) DEF Creation, Idle, Good, Frame, Points, Creating, Private, Leaving, Known

\* One process goes to a frame that is good.
Moves(x) == proc' = [proc EXCEPT ![x] = proc'[x]] /\ Good(x, proc'[x])

LEMMA MoveKeepsGood ==
  ASSUME TypeInv, NEW x \in Procs, Moves(x)
  PROVE  /\ proc' \in [Procs -> Frame]
         /\ \A y \in Procs : Good(y, proc'[y])
         /\ \A y \in Procs \ {x} : proc'[y] = proc[y]
<1>1. proc \in [Procs -> Frame] /\ \A y \in Procs : Good(y, proc[y])
  BY DEF TypeInv, TypeOK
<1>2. proc' = [proc EXCEPT ![x] = proc'[x]] /\ Good(x, proc'[x])
  BY DEF Moves
<1>3. proc'[x] \in Frame
  BY <1>2 DEF Good
<1> QED
  BY <1>1, <1>2, <1>3

LEMMA GotoMoves ==
  ASSUME TypeInv, NEW x \in Procs, NEW f, Goto(x, f), Good(x, f)
  PROVE  Moves(x) /\ proc'[x] = f
BY DEF TypeInv, TypeOK, Goto, Moves

-----------------------------------------------------------------------------
(* Types *)

\* The variables that the code of a process does not touch.
OwnStep == /\ UNCHANGED <<queue, current, firstId, expired, jobs, direct>>
           /\ ops' \in 0 .. MaxOps /\ ttl' \subseteq Aids

TypedStore ==
    /\ alarms \in [Aids -> Alarm \cup {None}]
    /\ active \subseteq Aids /\ archive \subseteq Aids /\ recent \subseteq Aids
    /\ id \in Aids \cup FirstIds
    /\ rules \in [RuleIds -> [class : {"block", "allow"}, kind : Kinds] \cup {None}]

LEMMA StepIsTyped ==
  ASSUME TypeInv, NEW x \in Procs, Moves(x), TypedStore', OwnStep
  PROVE  TypeInv'
<1>1. TypeOK
  BY DEF TypeInv
<1> QED
  BY <1>1, MoveKeepsGood DEF TypeInv, TypeOK, TypedStore, OwnStep

LEMMA CreateMoves ==
  ASSUME TypeInv, NEW w \in Workers, CreateStep(w)
  PROVE  Moves(w) /\ TypedStore' /\ OwnStep
<1> DEFINE f == proc[w]
<1>t. /\ w \in Procs /\ Good(w, f) /\ f \in Frame /\ TypedStore
      /\ ops \in 0 .. MaxOps /\ firstId \in FirstIds /\ ttl \subseteq Aids
  BY DEF TypeInv, TypeOK, TypedStore, Procs, Good
<1>i. Good(w, Idle)
  BY <1>t, IdleIsGood
<1> HIDE DEF f
<1>g. ASSUME NEW pc \in Creating \ Private, f.pc \in Creating
      PROVE  Good(w, [f EXCEPT !.pc = pc])
  BY <1>t, <1>g, ZenonT(60) DEF Good, Frame, Points, Creating, Private, Leaving
<1>p. ASSUME NEW pc \in Private, NEW aid \in Aids, f.pc \in Creating
      PROVE  Good(w, [f EXCEPT !.pc = pc, !.aid = aid])
  BY <1>t, <1>p, ZenonT(60) DEF Good, Frame, Points, Creating, Private, Leaving
<1>1. CASE Dedup(w)
  <2>1. f.pc = "dedup" /\ \/ Goto(w, Idle)
                          \/ Goto(w, [f EXCEPT !.pc = "exceptions"])
    BY <1>1 DEF Dedup, At, f
  <2>2. Moves(w)
    BY <1>t, <1>i, <1>g, <2>1, GotoMoves DEF Creating, Private
  <2> QED
    BY <1>1, <1>t, <2>2 DEF Dedup, TypedStore, OwnStep, Stays, counters, lists
<1>2. CASE MatchExceptions(w)
  <2>1. f.pc = "exceptions" /\ \/ Goto(w, Idle)
                               \/ Goto(w, [f EXCEPT !.pc = "policies"])
    BY <1>2 DEF MatchExceptions, At, f
  <2>2. Moves(w)
    BY <1>t, <1>i, <1>g, <2>1, GotoMoves DEF Creating, Private
  <2> QED
    BY <1>2, <1>t, <2>2 DEF MatchExceptions, TypedStore, OwnStep, Stays, counters, lists
<1>3. CASE MatchPolicies(w)
  <2>1. f.pc = "policies" /\ \/ Goto(w, Idle)
                             \/ Goto(w, [f EXCEPT !.pc = "getId"])
    BY <1>3 DEF MatchPolicies, At, f
  <2>2. Moves(w)
    BY <1>t, <1>i, <1>g, <2>1, GotoMoves DEF Creating, Private
  <2> QED
    BY <1>3, <1>t, <2>2 DEF MatchPolicies, TypedStore, OwnStep, Stays, counters, lists
<1>4. CASE GetId(w)
  <2>1. f.pc = "getId" /\ \E pc \in {"setId", "incrId"} : Goto(w, [f EXCEPT !.pc = pc])
    BY <1>4 DEF GetId, At, f
  <2>2. Moves(w)
    BY <1>t, <1>g, <2>1, GotoMoves DEF Creating, Private
  <2> QED
    BY <1>4, <1>t, <2>2 DEF GetId, TypedStore, OwnStep, Stays, counters, lists
<1>5. CASE SetId(w)
  <2>1. f.pc = "setId" /\ Goto(w, [f EXCEPT !.pc = "hmset", !.aid = 1])
    BY <1>5 DEF SetId, At, f
  <2>2. 1 \in Aids
    BY <1>t, FirstIsId
  <2>3. Moves(w)
    BY <1>t, <1>p, <2>1, <2>2, GotoMoves DEF Creating, Private
  <2> QED
    BY <1>5, <1>t, <2>2, <2>3 DEF SetId, TypedStore, OwnStep, Stays, counters, lists
<1>6. CASE IncrId(w)
  <2>1. f.pc = "incrId" /\ id + 1 \in Aids /\ Goto(w, [f EXCEPT !.pc = "hmset", !.aid = id + 1])
    BY <1>6 DEF IncrId, At, f
  <2>2. Moves(w)
    BY <1>t, <1>p, <2>1, GotoMoves DEF Creating, Private
  <2> QED
    BY <1>6, <1>t, <2>1, <2>2, SMTT(40) DEF IncrId, TypedStore, OwnStep, Stays, counters, lists
<1>7. CASE Save(w)
  <2>1. f.pc = "hmset" /\ Goto(w, [f EXCEPT !.pc = "zadd"])
    BY <1>7 DEF Save, At, f
  <2>2. Good(w, [f EXCEPT !.pc = "zadd"])
    BY <1>t, <2>1 DEF Good, Frame, Points, Creating, Private, Leaving
  <2>3. Moves(w)
    BY <1>t, <2>1, <2>2, GotoMoves
  <2>4. f.alarm \in Alarm
    BY <1>t, <2>1, FreshIsAlarm DEF Good, Creating
  <2>5. alarms' \in [Aids -> Alarm \cup {None}]
    BY <1>7, <1>t, <2>4 DEF Save, TypedStore, f
  <2>6. ttl' \subseteq Aids
    BY <1>7, <1>t, <2>1 DEF Save, Good, Private, f
  <2> QED
    BY <1>7, <1>t, <2>3, <2>5, <2>6 DEF Save, TypedStore, OwnStep, StaysButTtl, counters, lists
<1>8. CASE AddToActiveQueue(w)
  <2>1. f.pc = "zadd" /\ f.aid \in Aids
    BY <1>8, <1>t DEF AddToActiveQueue, At, f, Good, Private
  <2>2. \/ Goto(w, Idle)
        \/ Goto(w, [f EXCEPT !.pc = "load", !.op = "block", !.auto = TRUE])
    BY <1>8 DEF AddToActiveQueue, f
  <2>3. Good(w, [f EXCEPT !.pc = "load", !.op = "block", !.auto = TRUE])
    BY <1>t, <2>1, ZenonT(60) DEF Good, Frame, Points, Creating, Private, Leaving
  <2>4. Moves(w)
    BY <1>t, <1>i, <2>2, <2>3, GotoMoves
  <2>5. active' \subseteq Aids /\ recent' \subseteq Aids
    BY <1>8, <1>t, <2>1 DEF AddToActiveQueue, TypedStore, f
  <2> QED
    BY <1>8, <1>t, <2>4, <2>5 DEF AddToActiveQueue, TypedStore, OwnStep, Stays, counters, lists
<1> QED
  BY <1>1, <1>2, <1>3, <1>4, <1>5, <1>6, <1>7, <1>8 DEF CreateStep

LEMMA OpMoves ==
  ASSUME TypeInv, NEW x \in Procs, OpStep(x)
  PROVE  Moves(x) /\ TypedStore' /\ OwnStep
<1> DEFINE f == proc[x]
<1>t. /\ Good(x, f) /\ f \in Frame /\ TypedStore /\ ops \in 0 .. MaxOps /\ TypeOK
      /\ ttl \subseteq Aids
  BY DEF TypeInv, TypeOK, TypedStore, Good
<1>i. Good(x, Idle)
  BY IdleIsGood
<1>u. UNCHANGED <<alarms, lists, recent, id, rules>> => TypedStore'
  BY <1>t DEF TypedStore, lists
<1>o. Stays \/ (StaysButTtl /\ ttl' \subseteq ttl) => OwnStep
  BY <1>t DEF Stays, StaysButTtl, OwnStep, counters
<1> HIDE DEF f
<1>1. CASE Load(x)
  <2>1. f.pc = "load" /\ f.aid \in Aids /\ f.op \in {"block", "allow", "ignore", "unblock", "unallow"}
    BY <1>1, <1>t DEF Load, At, f, Good
  <2>2. CASE alarms[f.aid] = None
    BY <1>1, <1>i, <1>u, <1>o, <2>2, GotoMoves DEF Load, f
  <2>3. CASE alarms[f.aid] # None
    <3>1. PICK next \in AfterLoad(f.op) : Goto(x, [f EXCEPT !.pc = next, !.alarm = alarms[f.aid]])
      BY <1>1, <2>3 DEF Load, f
    <3>2. alarms[f.aid] \in Alarm
      BY <1>t, <2>1, <2>3, NoneIsNoAlarm
    <3>3. \/ next = "same" /\ f.op \in {"block", "allow"}
          \/ next \in {"archive", "related"} /\ f.op = "ignore"
          \/ next = "delete" /\ f.op \in {"unblock", "unallow"}
      BY <2>1 DEF AfterLoad
    <3>4. Good(x, [f EXCEPT !.pc = next, !.alarm = alarms[f.aid]])
      BY <1>t, <2>1, <3>2, <3>3, ZenonT(60) DEF Good, Frame, Points, Creating, Private, Leaving
    <3> QED
      BY <1>1, <1>u, <1>o, <3>1, <3>4, GotoMoves DEF Load
  <2> QED
    BY <2>2, <2>3
<1>2. CASE FindSame(x)
  <2>1. f.pc = "same"
    BY <1>2 DEF FindSame, At, f
  <2>2. /\ Good(x, [f EXCEPT !.pc = "save"])
        /\ \A r \in RuleIds : Good(x, [f EXCEPT !.pc = "update", !.rule = r])
    BY <1>t, <2>1, ZenonT(60) DEF Good, Frame, Points, Creating, Private, Leaving
  <2> QED
    BY <1>2, <1>u, <1>o, <2>2, GotoMoves DEF FindSame, f
<1>3. CASE SaveRule(x)
  <2>1. f.pc = "save"
    BY <1>3 DEF SaveRule, At, f
  <2>2. \A r \in RuleIds : Good(x, [f EXCEPT !.pc = "update", !.rule = r])
    BY <1>t, <2>1, ZenonT(60) DEF Good, Frame, Points, Creating, Private, Leaving
  <2>3. f.op \in {"block", "allow"} /\ f.alarm.kind \in Kinds
    BY <1>t, <2>1 DEF Good, Alarm
  <2>4. PICK r \in RuleIds : /\ rules' = [rules EXCEPT ![r] = [class |-> f.op, kind |-> f.alarm.kind]]
                             /\ Goto(x, [f EXCEPT !.pc = "update", !.rule = r])
    BY <1>3 DEF SaveRule, f
  <2>5. rules' \in [RuleIds -> [class : {"block", "allow"}, kind : Kinds] \cup {None}]
    BY <1>t, <2>3, <2>4 DEF TypedStore
  <2> QED
    BY <1>3, <1>t, <1>o, <2>2, <2>4, <2>5, GotoMoves DEF SaveRule, TypedStore, lists
<1>4. CASE Update(x)
  <2> DEFINE alarm == Handled(f, f.alarm)
             next == IF Kept(f, alarm) THEN "similar" ELSE "archive"
  <2>1. f.pc = "update"
    BY <1>4 DEF Update, At, f
  <2>2. alarm \in Alarm /\ f.aid \in Aids
    BY <1>t, <2>1, HandledIsAlarm DEF Good
  <2>3. next = "similar" \/ next = "archive"
    OBVIOUS
  <2>4. Goto(x, [f EXCEPT !.alarm = alarm, !.pc = next])
    BY <1>4 DEF Update, f
  <2>5. alarms' \in [Aids -> Alarm \cup {None}]
    BY <1>4, <1>t, <2>2 DEF Update, TypedStore, f
  <2> HIDE DEF alarm, next
  <2>7. Good(x, [f EXCEPT !.alarm = alarm, !.pc = next])
    BY <1>t, <2>1, <2>2, <2>3 DEF Good, Frame, Points, Creating, Private, Leaving
  <2> QED
    BY <1>4, <1>t, <1>o, <2>4, <2>5, <2>7, GotoMoves, SMTT(40) DEF Update, TypedStore, lists
<1>5. CASE Archive(x)
  <2>1. f.pc = "archive"
    BY <1>5 DEF Archive, At, f
  <2>2. f.aid \in Aids /\ f.op \in {"block", "allow", "ignore"}
    BY <1>t, <2>1 DEF Good, Leaving
  <2>3. f.op # "ignore" => Good(x, [f EXCEPT !.pc = "similar"])
    BY <1>t, <2>1, <2>2 DEF Good, Frame, Points, Creating, Private, Leaving
  <2>4. active' \subseteq Aids /\ archive' \subseteq Aids
    BY <1>5, <1>t, <2>2 DEF Archive, Archived, TypedStore, f
  <2>5. Moves(x)
    BY <1>5, <1>i, <2>3, GotoMoves DEF Archive, f
  <2> QED
    BY <1>5, <1>t, <1>o, <2>4, <2>5 DEF Archive, TypedStore
<1>6. CASE FindRelated(x)
  <2>1. f.pc = "related"
    BY <1>6 DEF FindRelated, At, f
  <2> DEFINE like == Like(f.alarm.kind)
  <2>2. like \in SUBSET (Aids \X (Alarm \cup {None}))
    BY <1>t, LikeIsListed
  <2>3. Goto(x, [f EXCEPT !.pc = "archiveRelated", !.todo = like])
    BY <1>6 DEF FindRelated, f
  <2> HIDE DEF like
  <2>4. Good(x, [f EXCEPT !.pc = "archiveRelated", !.todo = like])
    BY <1>t, <2>1, <2>2, ZenonT(60) DEF Good, Frame, Points, Creating, Private, Leaving
  <2> QED
    BY <1>6, <1>u, <1>o, <2>3, <2>4, GotoMoves DEF FindRelated
<1>7. CASE ArchiveRelated(x)
  <2>1. f.pc = "archiveRelated"
    BY <1>7 DEF ArchiveRelated, At, f
  <2>2. CASE f.todo = {}
    BY <1>7, <1>i, <1>u, <1>o, <2>2, GotoMoves DEF ArchiveRelated, f
  <2>3. CASE f.todo # {}
    <3>1. PICK t \in f.todo : Archived(t[1]) /\ Goto(x, [f EXCEPT !.todo = @ \ {t}])
      BY <1>7, <2>3 DEF ArchiveRelated, f
    <3>2. t[1] \in Aids
      BY <1>t DEF Frame
    <3>3. active' \subseteq Aids /\ archive' \subseteq Aids
      BY <1>t, <3>1, <3>2 DEF Archived, TypedStore
    <3>4. Good(x, [f EXCEPT !.todo = @ \ {t}])
      BY <1>t, <2>1, ZenonT(60) DEF Good, Frame, Points, Creating, Private, Leaving
    <3> QED
      BY <1>7, <1>t, <1>o, <3>1, <3>3, <3>4, GotoMoves DEF ArchiveRelated, TypedStore
  <2> QED
    BY <2>2, <2>3
<1>8. CASE FindSimilar(x)
  <2>1. f.pc = "similar"
    BY <1>8 DEF FindSimilar, At, f
  <2> DEFINE similar == {t \in Like(f.alarm.kind) : t[1] # f.aid /\ t[2].result = ""}
  <2>2. similar \in SUBSET (Aids \X Alarm)
    BY <1>t, LikeIsListed
  <2>3. Goto(x, [f EXCEPT !.pc = "updateNext", !.todo = similar])
    BY <1>8 DEF FindSimilar, f
  <2> HIDE DEF similar
  <2>4. similar \in SUBSET (Aids \X (Alarm \cup {None})) /\ \A t \in similar : t[2] \in Alarm
    BY <2>2
  <2>5. Good(x, [f EXCEPT !.pc = "updateNext", !.todo = similar])
    BY <1>t, <2>1, <2>4, ZenonT(60) DEF Good, Frame, Points, Creating, Private, Leaving
  <2> QED
    BY <1>8, <1>u, <1>o, <2>3, <2>5, GotoMoves DEF FindSimilar
<1>9. CASE UpdateNext(x)
  <2>1. f.pc = "updateNext"
    BY <1>9 DEF UpdateNext, At, f
  <2>2. CASE f.todo = {}
    BY <1>9, <1>i, <1>u, <1>o, <2>2, GotoMoves DEF UpdateNext, f
  <2>3. CASE f.todo # {}
    <3>1. PICK t \in f.todo :
             /\ alarms' = [alarms EXCEPT ![t[1]] = Handled(f, t[2])]
             /\ Goto(x, [f EXCEPT !.pc = "archiveNext", !.aid = t[1], !.todo = @ \ {t}])
      BY <1>9, <2>3 DEF UpdateNext, f
    <3>2. t[1] \in Aids /\ t[2] \in Alarm
      BY <1>t, <2>1 DEF Good, Frame
    <3>3. Handled(f, t[2]) \in Alarm
      BY <1>t, <2>1, <3>2, HandledIsAlarm DEF Good
    <3>4. alarms' \in [Aids -> Alarm \cup {None}]
      BY <1>t, <3>1, <3>2, <3>3 DEF TypedStore
    <3>5. Good(x, [f EXCEPT !.pc = "archiveNext", !.aid = t[1], !.todo = @ \ {t}])
      BY <1>t, <2>1, <3>2, ZenonT(60) DEF Good, Frame, Points, Creating, Private, Leaving
    <3> QED
      BY <1>9, <1>t, <1>o, <3>1, <3>4, <3>5, GotoMoves DEF UpdateNext, TypedStore, lists
  <2> QED
    BY <2>2, <2>3
<1>10. CASE ArchiveNext(x)
  <2>1. f.pc = "archiveNext"
    BY <1>10 DEF ArchiveNext, At, f
  <2>2. f.aid \in Aids
    BY <1>t, <2>1 DEF Good, Leaving
  <2>3. active' \subseteq Aids /\ archive' \subseteq Aids
    BY <1>10, <1>t, <2>2 DEF ArchiveNext, Archived, TypedStore, f
  <2>4. Goto(x, [f EXCEPT !.pc = "updateNext"])
    BY <1>10 DEF ArchiveNext, f
  <2>5. Good(x, [f EXCEPT !.pc = "updateNext"])
    BY <1>t, <2>1 DEF Good, Frame, Points, Creating, Private, Leaving
  <2> QED
    BY <1>10, <1>t, <1>o, <2>3, <2>4, <2>5, GotoMoves DEF ArchiveNext, TypedStore
<1>11. CASE DeleteRule(x)
  <2>1. f.pc = "delete" /\ Goto(x, [f EXCEPT !.pc = "clear"])
    BY <1>11 DEF DeleteRule, At, f
  <2>2. Good(x, [f EXCEPT !.pc = "clear"])
    BY <1>t, <2>1, ZenonT(60) DEF Good, Frame, Points, Creating, Private, Leaving
  <2>3. rules' \in [RuleIds -> [class : {"block", "allow"}, kind : Kinds] \cup {None}]
    BY <1>11, <1>t DEF DeleteRule, TypedStore
  <2> QED
    BY <1>11, <1>t, <1>o, <2>1, <2>2, <2>3, GotoMoves DEF DeleteRule, TypedStore, lists
<1>12. CASE Clear(x)
  <2>1. f.pc = "clear"
    BY <1>12 DEF Clear, At, f
  <2>2. f.aid \in Aids /\ f.alarm \in Alarm
    BY <1>t, <2>1 DEF Good
  <2>3. alarms' = [alarms EXCEPT ![f.aid] =
                    [f.alarm EXCEPT !.result = "", !.policy = 0,
                                    !.auto = IF f.op = "unblock" THEN FALSE ELSE @]]
    BY <1>12 DEF Clear, f
  <2>4. [f.alarm EXCEPT !.result = "", !.policy = 0,
                        !.auto = IF f.op = "unblock" THEN FALSE ELSE @] \in Alarm
    BY <2>2 DEF Alarm
  <2>5. alarms' \in [Aids -> Alarm \cup {None}]
    BY <1>t, <2>2, <2>3, <2>4 DEF TypedStore
  <2> QED
    BY <1>12, <1>t, <1>i, <1>o, <2>5, GotoMoves DEF Clear, TypedStore, lists
<1>13. CASE RemoveArchived(x)
  <2>1. f.pc = "remove" /\ Goto(x, [f EXCEPT !.pc = "removeActive"])
    BY <1>13 DEF RemoveArchived, At, f
  <2>2. Good(x, [f EXCEPT !.pc = "removeActive"])
    BY <1>t, <2>1, ZenonT(60) DEF Good, Frame, Points, Creating, Private, Leaving
  <2> QED
    BY <1>13, <1>t, <1>o, <2>1, <2>2, GotoMoves DEF RemoveArchived, TypedStore
<1>14. CASE RemoveActive(x)
  <2>1. f.pc = "removeActive" /\ Goto(x, [f EXCEPT !.pc = "del"])
    BY <1>14 DEF RemoveActive, At, f
  <2>2. Good(x, [f EXCEPT !.pc = "del"])
    BY <1>t, <2>1, ZenonT(60) DEF Good, Frame, Points, Creating, Private, Leaving
  <2> QED
    BY <1>14, <1>t, <1>o, <2>1, <2>2, GotoMoves DEF RemoveActive, TypedStore
<1>15. CASE RemoveRecord(x)
  <2>1. alarms' \in [Aids -> Alarm \cup {None}]
    BY <1>15, <1>t DEF RemoveRecord, TypedStore
  <2> QED
    BY <1>15, <1>t, <1>i, <1>o, <2>1, GotoMoves DEF RemoveRecord, TypedStore, lists
<1>16. CASE UnlistHost(x)
  <2>1. f.pc = "zremHost" /\ Goto(x, [f EXCEPT !.pc = "delHost"])
    BY <1>16 DEF UnlistHost, At, f
  <2>2. f.op # "deleteArchivedAll" /\ f \in Frame
    BY <1>t, <2>1 DEF Good
  <2>3. Good(x, [f EXCEPT !.pc = "delHost"])
    BY <2>1, <2>2, ZenonT(60) DEF Good, Frame, Points, Creating, Private, Leaving
  <2> QED
    BY <1>16, <1>t, <1>o, <2>1, <2>3, GotoMoves DEF UnlistHost, TypedStore
<1>17. CASE DeleteHost(x)
  <2>1. alarms' \in [Aids -> Alarm \cup {None}]
    BY <1>17, <1>t, DeletedKeeps DEF DeleteHost
  <2> QED
    BY <1>17, <1>t, <1>i, <1>o, <2>1, GotoMoves DEF DeleteHost, TypedStore, lists
<1>18. CASE OnAll(x)
  <2>1. {t[1] : t \in f.todo} \subseteq Aids
    <3>1. \A t \in f.todo : t[1] \in Aids
      BY <1>t DEF Frame
    <3> QED
      BY <3>1
  <2>2. active' \subseteq Aids /\ archive' \subseteq Aids
    BY <1>18, <1>t, <2>1 DEF OnAll, TypedStore, f
  <2>3. alarms' \in [Aids -> Alarm \cup {None}]
    BY <1>18, <1>t, DeletedKeeps DEF OnAll, TypedStore
  <2>4. OwnStep
    BY <1>18, <1>o DEF OnAll, Stays, StaysButTtl
  <2> QED
    BY <1>18, <1>t, <1>i, <2>2, <2>3, <2>4, GotoMoves DEF OnAll, TypedStore
<1>19. CASE UnlistDead(x)
  <2>1. f.pc = "zremDead" /\ Goto(x, [f EXCEPT !.pc = "zremDeadArchived"])
    BY <1>19 DEF UnlistDead, At, f
  <2>2. f.op = "cleanIndex" /\ f \in Frame
    BY <1>t, <2>1 DEF Good
  <2>3. Good(x, [f EXCEPT !.pc = "zremDeadArchived"])
    BY <2>1, <2>2, ZenonT(60) DEF Good, Frame, Points, Creating, Private, Leaving
  <2> QED
    BY <1>19, <1>t, <1>o, <2>1, <2>3, GotoMoves DEF UnlistDead, TypedStore
<1>20. CASE UnlistDeadArchived(x)
  BY <1>20, <1>t, <1>i, <1>o, GotoMoves DEF UnlistDeadArchived, TypedStore
<1> QED
  BY <1>1, <1>2, <1>3, <1>4, <1>5, <1>6, <1>7, <1>8, <1>9, <1>10, <1>11, <1>12, <1>13,
     <1>14, <1>15, <1>16, <1>17, <1>18, <1>19, <1>20 DEF OpStep

\* The other steps: of the queues, and operations of the app that begin.
LEMMA StartMoves ==
  ASSUME TypeInv, NEW x \in Apps,
         \/ \E a \in Aids : Start(x, a)
         \/ \E r \in RuleIds : StartByException(x, r)
         \/ StartAll(x) \/ StartClean(x)
  PROVE  Moves(x) /\ TypedStore' /\ OwnStep
<1>t. /\ x \in Procs /\ TypedStore /\ ops \in 0 .. MaxOps /\ TypeOK /\ ttl \subseteq Aids
      /\ UNCHANGED <<alarms, lists, recent, id, rules>> => TypedStore'
  BY DEF TypeInv, TypeOK, TypedStore, lists, Procs
<1>o. ops < MaxOps /\ ops' = ops + 1 => ops' \in 0 .. MaxOps
  BY <1>t, AlarmAssumption
<1>1. ASSUME NEW a \in Aids, Start(x, a) PROVE Moves(x) /\ TypedStore' /\ OwnStep
  <2>1. CASE \E op \in {"block", "allow", "ignore", "unblock", "unallow"} :
                Goto(x, [Idle EXCEPT !.pc = "load", !.op = op, !.aid = a])
    <3>1. PICK op \in {"block", "allow", "ignore", "unblock", "unallow"} :
             Goto(x, [Idle EXCEPT !.pc = "load", !.op = op, !.aid = a])
      BY <2>1
    <3>2. Good(x, [Idle EXCEPT !.pc = "load", !.op = op, !.aid = a])
      BY DEF Idle, Good, Frame, Points, Creating, Private, Leaving
    <3>3. Moves(x)
      BY <1>t, <3>1, <3>2, GotoMoves
    <3> QED
      BY <1>1, <1>t, <1>o, <3>3 DEF Start, OwnStep
  <2>2. CASE Goto(x, [Idle EXCEPT !.pc = "remove", !.op = "remove", !.aid = a])
    <3>1. Good(x, [Idle EXCEPT !.pc = "remove", !.op = "remove", !.aid = a])
      BY DEF Idle, Good, Frame, Points, Creating, Private, Leaving
    <3> QED
      BY <1>1, <1>t, <1>o, <2>2, <3>1, GotoMoves DEF Start, OwnStep
  <2> DEFINE like == Like(alarms[a].kind)
  <2>3. CASE Goto(x, [Idle EXCEPT !.pc = "zremHost", !.op = "deleteHost", !.todo = like])
    <3>1. like \in SUBSET (Aids \X (Alarm \cup {None}))
      BY <1>t, LikeIsListed
    <3> HIDE DEF like
    <3>2. Good(x, [Idle EXCEPT !.pc = "zremHost", !.op = "deleteHost", !.todo = like])
      BY <3>1 DEF Idle, Good, Frame, Points, Creating, Private, Leaving
    <3> QED
      BY <1>1, <1>t, <1>o, <2>3, <3>2, GotoMoves DEF Start, OwnStep
  <2> QED
    BY <1>1, <2>1, <2>2, <2>3 DEF Start
<1>2. ASSUME NEW r \in RuleIds, StartByException(x, r) PROVE Moves(x) /\ TypedStore' /\ OwnStep
  <2> DEFINE alarm == Fresh(rules[r].kind)
  <2>1. rules[r] \in [class : {"block", "allow"}, kind : Kinds]
    BY <1>2, <1>t DEF StartByException, TypedStore
  <2>2. alarm \in Alarm
    BY <2>1, FreshIsAlarm
  <2>3. Goto(x, [Idle EXCEPT !.pc = "similar", !.op = "archiveByException", !.rule = r,
                             !.alarm = alarm])
    BY <1>2 DEF StartByException
  <2> HIDE DEF alarm
  <2>4. Good(x, [Idle EXCEPT !.pc = "similar", !.op = "archiveByException", !.rule = r,
                             !.alarm = alarm])
    BY <2>2 DEF Idle, Good, Frame, Points, Creating, Private, Leaving
  <2> QED
    BY <1>2, <1>t, <1>o, <2>3, <2>4, GotoMoves DEF StartByException, OwnStep
<1>3. CASE StartAll(x)
  <2>1. PICK op \in {"ignoreAll", "deleteActiveAll", "deleteArchivedAll"} :
           Goto(x, [Idle EXCEPT !.pc = "all", !.op = op, !.todo =
                      (IF op = "deleteArchivedAll" THEN archive ELSE active) \X {None}])
    BY <1>3 DEF StartAll
  <2> DEFINE all == (IF op = "deleteArchivedAll" THEN archive ELSE active) \X {None}
  <2>2. all \in SUBSET (Aids \X (Alarm \cup {None}))
    BY <1>t DEF TypedStore
  <2>3. Goto(x, [Idle EXCEPT !.pc = "all", !.op = op, !.todo = all])
    BY <2>1
  <2> HIDE DEF all
  <2>4. Good(x, [Idle EXCEPT !.pc = "all", !.op = op, !.todo = all])
    BY <2>2 DEF Idle, Good, Frame, Points, Creating, Private, Leaving
  <2> QED
    BY <1>3, <1>t, <1>o, <2>3, <2>4, GotoMoves DEF StartAll, OwnStep
<1>4. CASE StartClean(x)
  <2> DEFINE dead == {a \in active \cup archive : alarms[a] = None} \X {None}
  <2>1. dead \in SUBSET (Aids \X (Alarm \cup {None}))
    BY <1>t DEF TypedStore
  <2>2. Goto(x, [Idle EXCEPT !.pc = "zremDead", !.op = "cleanIndex", !.todo = dead])
    BY <1>4 DEF StartClean
  <2> HIDE DEF dead
  <2>3. Good(x, [Idle EXCEPT !.pc = "zremDead", !.op = "cleanIndex", !.todo = dead])
    BY <2>1 DEF Idle, Good, Frame, Points, Creating, Private, Leaving
  <2> QED
    BY <1>4, <1>t, <1>o, <2>2, <2>3, GotoMoves DEF StartClean, OwnStep
<1> QED
  BY <1>1, <1>2, <1>3, <1>4

\* The queues: the processes move only from idle to a creation, or to hang, and
\* from there back; nothing that they share changes.
Begins(f, g) == /\ f.pc \in {"idle", "hung"}
                /\ g.pc \in {"idle", "hung", "dedup"} /\ Known(g) = {0} /\ g.op \in {"", "create"}

LEMMA QueueMoves ==
  ASSUME TypeInv,
         \/ \E q \in Queues, k \in Kinds : Enqueue(q, k)
         \/ \E q \in Queues : JobDone(q) \/ JobTimeout(q) \/ \E w \in Workers : TakeJob(q, w)
         \/ \E w \in Workers, k \in Kinds : CallDirectly(w, k)
         \/ \E a \in Aids : Age(a)
         \/ UNCHANGED vars
  PROVE  /\ TypeInv' /\ UNCHANGED <<alarms, lists, id, rules, firstId, expired>>
         /\ recent' \subseteq recent
         /\ \A x \in Procs : proc'[x] = proc[x] \/ Begins(proc[x], proc'[x])
<1>t. /\ TypeOK /\ TypedStore /\ current \in [Queues -> Workers \cup {None}]
      /\ proc \in [Procs -> Frame] /\ queue \in [Queues -> Seq(Kinds)]
      /\ \A x \in Procs : Good(x, proc[x])
  BY DEF TypeInv, TypeOK, TypedStore
<1>w. Workers \subseteq Procs
  BY DEF Procs
<1>i. /\ Begins(Idle, Idle) /\ Idle.pc = "idle" /\ Idle.op = "" /\ Known(Idle) = {0}
      /\ [Idle EXCEPT !.pc = "hung"].pc = "hung" /\ [Idle EXCEPT !.pc = "hung"].op = ""
      /\ Known([Idle EXCEPT !.pc = "hung"]) = {0}
  BY IdleIsGood DEF Idle, Begins, Known
<1>1. ASSUME NEW q \in Queues, NEW k \in Kinds, Enqueue(q, k)
      PROVE  /\ TypeInv' /\ UNCHANGED <<alarms, lists, id, rules, firstId, expired, proc>>
  <2>1. queue' \in [Queues -> Seq(Kinds)]
    BY <1>1, <1>t, AppendProperties DEF Enqueue
  <2>2. jobs' \in 0 .. MaxJobs
    BY <1>1, <1>t, AlarmAssumption DEF Enqueue, TypeOK
  <2> QED
    BY <1>1, <1>t, <2>1, <2>2, SMTT(40) DEF Enqueue, TypeInv, TypeOK, lists
<1>2. ASSUME NEW q \in Queues, JobDone(q)
      PROVE  /\ TypeInv' /\ UNCHANGED <<alarms, lists, id, rules, firstId, expired, proc>>
  BY <1>2, <1>t DEF JobDone, TypeInv, TypeOK, lists, counters
<1>m. ASSUME NEW x \in Procs, Moves(x), Begins(proc[x], proc'[x])
      PROVE  /\ proc' \in [Procs -> Frame] /\ \A y \in Procs : Good(y, proc'[y])
             /\ \A y \in Procs : proc'[y] = proc[y] \/ Begins(proc[y], proc'[y])
  BY <1>m, MoveKeepsGood
<1>3. ASSUME NEW q \in Queues, JobTimeout(q)
      PROVE  /\ TypeInv' /\ UNCHANGED <<alarms, lists, id, rules, firstId, expired>>
             /\ \A x \in Procs : proc'[x] = proc[x] \/ Begins(proc[x], proc'[x])
  <2> DEFINE c == current[q]
  <2>1. c \in Procs
    BY <1>3, <1>t, <1>w DEF JobTimeout
  <2>2. proc' = [proc EXCEPT ![c] = IF @.pc = "hung" THEN Idle ELSE @]
    BY <1>3 DEF JobTimeout
  <2>3. /\ proc'[c] = IF proc[c].pc = "hung" THEN Idle ELSE proc[c]
        /\ \A y \in Procs \ {c} : proc'[y] = proc[y]
        /\ proc' = [proc EXCEPT ![c] = proc'[c]]
    BY <1>t, <2>1, <2>2
  <2>4. Moves(c)
    BY <1>t, <2>1, <2>3, IdleIsGood DEF Moves
  <2>5. proc' \in [Procs -> Frame] /\ \A y \in Procs : Good(y, proc'[y])
    BY <2>1, <2>4, MoveKeepsGood
  <2>6. \A y \in Procs : proc'[y] = proc[y] \/ Begins(proc[y], proc'[y])
    BY <1>i, <2>3 DEF Begins
  <2> QED
    BY <1>3, <1>t, <2>5, <2>6 DEF JobTimeout, TypeInv, TypeOK, lists, counters
<1>4. ASSUME NEW q \in Queues, NEW w \in Workers, TakeJob(q, w)
      PROVE  /\ TypeInv' /\ UNCHANGED <<alarms, lists, id, rules, firstId, expired>>
             /\ \A x \in Procs : proc'[x] = proc[x] \/ Begins(proc[x], proc'[x])
  <2>1. queue[q] \in Seq(Kinds) /\ queue[q] # <<>> /\ proc[w].pc = "idle"
    BY <1>4, <1>t DEF TakeJob, At
  <2>2. Head(queue[q]) \in Kinds /\ Tail(queue[q]) \in Seq(Kinds)
    BY <2>1, HeadTailProperties
  <2>3. queue' \in [Queues -> Seq(Kinds)] /\ current' \in [Queues -> Workers \cup {None}]
    BY <1>4, <1>t, <2>2 DEF TakeJob
  <2>4. PICK f \in {Creation(Head(queue[q])), [Idle EXCEPT !.pc = "hung"]} : Goto(w, f)
    BY <1>4 DEF TakeJob
  <2>5. Good(w, f) /\ Begins(proc[w], f)
    BY CreationIsGood, <1>i, <1>w, <2>1, <2>2, IdleIsGood DEF Begins
  <2>6. Moves(w) /\ proc'[w] = f
    BY <1>w, <2>4, <2>5, GotoMoves
  <2> QED
    BY <1>4, <1>t, <1>m, <1>w, <2>3, <2>5, <2>6 DEF TakeJob, TypeInv, TypeOK, lists, counters
<1>5. ASSUME NEW w \in Workers, NEW k \in Kinds, CallDirectly(w, k)
      PROVE  /\ TypeInv' /\ UNCHANGED <<alarms, lists, id, rules, firstId, expired>>
             /\ \A x \in Procs : proc'[x] = proc[x] \/ Begins(proc[x], proc'[x])
  <2>1. Goto(w, Creation(k)) /\ proc[w].pc = "idle"
    BY <1>5 DEF CallDirectly, At
  <2>2. Good(w, Creation(k)) /\ Begins(proc[w], Creation(k))
    BY <2>1, CreationIsGood DEF Begins
  <2>3. Moves(w) /\ proc'[w] = Creation(k)
    BY <1>w, <2>1, <2>2, GotoMoves
  <2>4. direct' \in 0 .. MaxDirect
    BY <1>5, <1>t, AlarmAssumption DEF CallDirectly, TypeOK
  <2> QED
    BY <1>5, <1>t, <1>m, <1>w, <2>2, <2>3, <2>4 DEF CallDirectly, TypeInv, TypeOK, lists
<1>6. ASSUME NEW a \in Aids, Age(a)
      PROVE  /\ TypeInv' /\ UNCHANGED <<alarms, lists, id, rules, firstId, expired, proc>>
  BY <1>6, <1>t DEF Age, TypeInv, TypeOK, lists, counters
<1>7. CASE UNCHANGED vars
  BY <1>7, <1>t DEF vars, lists, TypeInv, TypeOK
<1>8. recent' \subseteq recent
  BY DEF Enqueue, JobDone, JobTimeout, TakeJob, CallDirectly, Age, vars
<1> QED
  BY <1>1, <1>2, <1>3, <1>4, <1>5, <1>6, <1>7, <1>8

\* A record expires.
LEMMA ExpireIs ==
  ASSUME TypeInv, NEW a \in Aids, Expire(a)
  PROVE  /\ TypeInv' /\ UNCHANGED <<lists, id, firstId, proc, current, direct>>
         /\ \A b \in Aids : alarms'[b] = IF b = a THEN None ELSE alarms[b]
         /\ expired' = expired \cup {a} /\ recent' = recent \ {a}
         /\ \A w \in Workers : proc[w].aid # a
<1>1. TypeOK /\ \A x \in Procs : Good(x, proc[x])
  BY DEF TypeInv
<1>2. alarms' = [alarms EXCEPT ![a] = None]
  BY DEF Expire
<1>3. /\ alarms' \in [Aids -> Alarm \cup {None}]
      /\ \A b \in Aids : alarms'[b] = IF b = a THEN None ELSE alarms[b]
  BY <1>1, <1>2 DEF TypeOK
<1>4. TypeOK'
  BY <1>1, <1>3 DEF Expire, TypeOK, lists
<1> QED
  BY <1>1, <1>3, <1>4 DEF Expire, TypeInv, lists

LEMMA InitTypeInv == Init => TypeInv
<1> SUFFICES ASSUME Init PROVE TypeInv
  OBVIOUS
<1>1. \A x \in Procs : proc[x] = Idle /\ Good(x, proc[x])
  BY IdleIsGood DEF Init
<1>2. proc \in [Procs -> Frame]
  BY <1>1 DEF Init, Good
<1>3. <<>> \in Seq(Kinds) /\ 0 \in 0 .. MaxJobs /\ 0 \in 0 .. MaxDirect /\ 0 \in 0 .. MaxOps
  BY AlarmAssumption
<1> QED
  BY <1>1, <1>2, <1>3 DEF Init, TypeInv, TypeOK

LEMMA StepTypeInv == TypeInv /\ [Next]_vars => TypeInv'
<1> SUFFICES ASSUME TypeInv, [Next]_vars PROVE TypeInv'
  OBVIOUS
<1>1. ASSUME NEW w \in Workers, CreateStep(w) PROVE TypeInv'
  BY <1>1, CreateMoves, StepIsTyped DEF Procs
<1>2. ASSUME NEW x \in Procs, OpStep(x) PROVE TypeInv'
  BY <1>2, OpMoves, StepIsTyped
<1>3. ASSUME NEW x \in Apps, \/ \E a \in Aids : Start(x, a)
                             \/ \E r \in RuleIds : StartByException(x, r)
                             \/ StartAll(x) \/ StartClean(x)
      PROVE  TypeInv'
  BY <1>3, StartMoves, StepIsTyped DEF Procs
<1>4. ASSUME NEW a \in Aids, Expire(a) PROVE TypeInv'
  BY <1>4, ExpireIs
<1> QED
  BY <1>1, <1>2, <1>3, <1>4, QueueMoves DEF Next

-----------------------------------------------------------------------------
(* Operations *)

LEMMA GotoIs ==
  ASSUME TypeInv, NEW x \in Procs, NEW f, Goto(x, f)
  PROVE  proc'[x] = f /\ \A y \in Procs \ {x} : proc'[y] = proc[y]
BY DEF TypeInv, TypeOK, Goto

Names(f) == {t[1] : t \in f.todo}

\* What a step of an operation does to the lists and to what is known of alarms.
Unlists(x) ==
    /\ active' \subseteq active
    /\ archive' \subseteq archive \cup Known(proc[x])
    /\ active' \cap archive' = {}
    /\ Known(proc'[x]) \subseteq Known(proc[x]) \cup active \cup archive \cup {0}
    /\ proc[x].pc \notin Creating /\ proc'[x].pc \notin Creating
    /\ \A y \in Procs \ {x} : proc'[y] = proc[y]
    /\ UNCHANGED <<id, firstId, expired, recent>>

\* ... and what it does to the records.
Records(x) ==
    /\ \A a \in Aids \ Known(proc[x]) : alarms'[a] = alarms[a]
    /\ \A a \in active' : /\ alarms'[a] = alarms[a] \/ alarms'[a] # None
                          /\ ~Takes(proc[x], a)
                          /\ \/ alarms'[a] = alarms[a]
                             \/ ~Stale(alarms'[a])
                             \/ Takes(proc'[x], a)
    /\ proc'[x].pc = "del" => proc'[x].aid \notin active'
    /\ proc'[x].pc = "delHost" \/ proc'[x].op = "deleteArchivedAll" =>
          Names(proc'[x]) \cap active' = {}

LEMMA OpUnlists ==
  ASSUME IInv, Once, NEW x \in Procs, OpStep(x)
  PROVE  Unlists(x) /\ Records(x)
<1> DEFINE f == proc[x]
<1>t. /\ TypeInv /\ Good(x, f) /\ f \in Frame /\ TypeOK /\ UsedInv
  BY DEF IInv, TypeInv, Good
<1>i. /\ Idle.pc = "idle" /\ Known(Idle) = {0} /\ Idle.op = "" /\ Idle.todo = {}
  BY IdleIsGood DEF Idle
<1>a. active \cap archive = {}
  BY <1>t DEF UsedInv
<1>r. /\ f.pc = "del" => f.aid \notin active
      /\ f.pc = "delHost" \/ f.op = "deleteArchivedAll" => Names(f) \cap active = {}
  BY <1>t DEF UsedInv, RecordsFirst, Names
<1>f. f.aid \in Known(f) /\ Names(f) \subseteq Known(f)
  BY DEF Known, Names
<1> HIDE DEF f
\* A step that only moves on in the frame.
<1>q. ASSUME UNCHANGED <<alarms, lists, recent, id>>, Stays, NEW g, Goto(x, g),
             Known(g) \subseteq Known(f) \cup active \cup archive \cup {0},
             f.pc \notin Creating \cup Leaving, g.pc \notin Creating \cup {"del", "delHost"},
             g.op # "deleteArchivedAll" 
      PROVE  Unlists(x) /\ Records(x)
  <2>1. proc'[x] = g /\ \A y \in Procs \ {x} : proc'[y] = proc[y]
    BY <1>t, <1>q, GotoIs
  <2> QED
    BY <1>q, <1>a, <2>1 DEF Unlists, Records, Takes, lists, Stays, counters, f
<1>1. CASE Load(x)
  <2>1. f.pc = "load" /\ f.op # "deleteArchivedAll"
    BY <1>1, <1>t DEF Load, At, f, Good
  <2>2. CASE alarms[f.aid] = None
    BY <1>1, <1>q, <1>i, <2>1, <2>2 DEF Load, f, Creating, Leaving
  <2>3. CASE alarms[f.aid] # None
    <3>1. PICK next \in AfterLoad(f.op) : Goto(x, [f EXCEPT !.pc = next, !.alarm = alarms[f.aid]])
      BY <1>1, <2>3 DEF Load, f
    <3> DEFINE g == [f EXCEPT !.pc = next, !.alarm = alarms[f.aid]]
    <3>2. next \in {"same", "archive", "related", "delete"}
      BY <1>t, <2>1 DEF AfterLoad, Good
    <3>3. Known(g) = Known(f) /\ g.pc = next /\ g.op = f.op
      BY <1>t DEF Frame, Known
    <3> HIDE DEF g
    <3> QED
      BY <1>1, <1>q, <2>1, <3>1, <3>2, <3>3 DEF Load, Creating, Leaving, g
  <2> QED
    BY <2>2, <2>3
<1>2. CASE FindSame(x)
  <2>1. f.pc = "same" /\ f.op # "deleteArchivedAll"
    BY <1>2, <1>t DEF FindSame, At, f, Good
  <2>2. PICK g : Goto(x, g) /\ \/ g = [f EXCEPT !.pc = "save"]
                               \/ \E r \in RuleIds : g = [f EXCEPT !.pc = "update", !.rule = r]
    BY <1>2 DEF FindSame, f
  <2>3. Known(g) = Known(f) /\ g.pc \in {"save", "update"} /\ g.op = f.op
    BY <1>t, <2>2 DEF Frame, Known
  <2> QED
    BY <1>2, <1>q, <2>1, <2>2, <2>3 DEF FindSame, Creating, Leaving
<1>3. CASE SaveRule(x)
  <2>1. f.pc = "save" /\ f.op # "deleteArchivedAll"
    BY <1>3, <1>t DEF SaveRule, At, f, Good
  <2>2. PICK r \in RuleIds : Goto(x, [f EXCEPT !.pc = "update", !.rule = r])
    BY <1>3 DEF SaveRule, f
  <2>3. /\ Known([f EXCEPT !.pc = "update", !.rule = r]) = Known(f)
        /\ [f EXCEPT !.pc = "update", !.rule = r].pc = "update"
        /\ [f EXCEPT !.pc = "update", !.rule = r].op = f.op
    BY <1>t DEF Frame, Known
  <2> QED
    BY <1>3, <1>q, <2>1, <2>2, <2>3 DEF SaveRule, Creating, Leaving, lists
<1>4. CASE Update(x)
  <2> DEFINE alarm == Handled(f, f.alarm)
             next == IF Kept(f, alarm) THEN "similar" ELSE "archive"
             g == [f EXCEPT !.alarm = alarm, !.pc = next]
  <2>1. f.pc = "update" /\ f.op \in {"block", "allow"} /\ f.aid \in Aids /\ f.alarm \in Alarm
    BY <1>4, <1>t DEF Update, At, f, Good
  <2>2. alarm \in Alarm
    BY <1>t, <2>1, HandledIsAlarm
  <2>3. alarm # None
    BY <2>2, NoneAssumption
  <2>4. Stale(alarm) => next = "archive"
    BY DEF Stale, Kept
  <2>5. Goto(x, g)
    BY <1>4 DEF Update, f
  <2>6. Known(g) = Known(f) /\ g.pc = next /\ g.op = f.op /\ g.aid = f.aid
    BY <1>t DEF Frame, Known
  <2>7. proc'[x] = g /\ \A y \in Procs \ {x} : proc'[y] = proc[y]
    BY <1>t, <2>5, GotoIs
  <2>8. alarms' = [alarms EXCEPT ![f.aid] = alarm]
    BY <1>4 DEF Update, f
  <2>9. next \in {"similar", "archive"}
    OBVIOUS
  <2> HIDE DEF g, alarm, next
  <2>10. Unlists(x)
    BY <1>4, <1>a, <2>1, <2>6, <2>7, <2>9 DEF Update, Unlists, lists, Stays, counters, f, Creating
  <2>11. \A a \in Aids : alarms'[a] = IF a = f.aid THEN alarm ELSE alarms[a]
    BY <1>t, <2>1, <2>8 DEF TypeOK
  <2>12. active' = active /\ active \subseteq Aids
    BY <1>4, <1>t DEF Update, lists, TypeOK
  <2>13. Records(x)
    BY <1>a, <1>f, <2>1, <2>3, <2>4, <2>6, <2>7, <2>9, <2>11, <2>12
       DEF Records, Takes, Leaving, f
  <2> QED
    BY <2>10, <2>13
<1>5. CASE Archive(x)
  <2>1. f.pc = "archive" /\ f.op # "deleteArchivedAll" /\ f.aid \in Aids
    BY <1>5, <1>t DEF Archive, At, f, Good, Leaving
  <2>2. active' = active \ {f.aid} /\ archive' = archive \cup {f.aid}
    BY <1>5 DEF Archive, Archived, f
  <2>3. PICK g \in {Idle, [f EXCEPT !.pc = "similar"]} : Goto(x, g)
    BY <1>5 DEF Archive, f
  <2>4. Known(g) \subseteq Known(f) \cup {0} /\ g.pc \in {"idle", "similar"} /\ g.op \in {f.op, ""}
    BY <1>t, <1>i, <2>3 DEF Frame, Known
  <2>5. proc'[x] = g /\ \A y \in Procs \ {x} : proc'[y] = proc[y]
    BY <1>t, <2>3, GotoIs
  <2>6. Unlists(x)
    BY <1>5, <1>a, <1>f, <2>1, <2>2, <2>4, <2>5 DEF Archive, Unlists, Stays, counters, f, Creating
  <2>7. Records(x)
    BY <1>5, <1>a, <2>1, <2>2, <2>4, <2>5 DEF Archive, Records, Takes, f
  <2> QED
    BY <2>6, <2>7
<1>6. CASE FindRelated(x)
  <2>1. f.pc = "related" /\ f.op # "deleteArchivedAll"
    BY <1>6, <1>t DEF FindRelated, At, f, Good
  <2> DEFINE like == Like(f.alarm.kind)
             g == [f EXCEPT !.pc = "archiveRelated", !.todo = like]
  <2>2. {t[1] : t \in like} \subseteq active
    BY <1>t, LikeIsListed
  <2>3. Goto(x, g)
    BY <1>6 DEF FindRelated, f
  <2> HIDE DEF like
  <2>4. Known(g) \subseteq Known(f) \cup active /\ g.pc = "archiveRelated" /\ g.op = f.op
    BY <1>t, <2>2 DEF Frame, Known
  <2> HIDE DEF g
  <2> QED
    BY <1>6, <1>q, <2>1, <2>3, <2>4 DEF FindRelated, Creating, Leaving
<1>7. CASE ArchiveRelated(x)
  <2>1. f.pc = "archiveRelated" /\ f.op # "deleteArchivedAll"
    BY <1>7, <1>t DEF ArchiveRelated, At, f, Good
  <2>2. CASE f.todo = {}
    BY <1>7, <1>q, <1>i, <2>1, <2>2 DEF ArchiveRelated, f, Creating, Leaving
  <2>3. CASE f.todo # {}
    <3>1. PICK t \in f.todo : Archived(t[1]) /\ Goto(x, [f EXCEPT !.todo = @ \ {t}])
      BY <1>7, <2>3 DEF ArchiveRelated, f
    <3> DEFINE g == [f EXCEPT !.todo = @ \ {t}]
    <3>2. t[1] \in Known(f)
      BY DEF Known
    <3>3. Known(g) \subseteq Known(f) /\ g.pc = f.pc /\ g.op = f.op
      BY <1>t DEF Frame, Known
    <3>4. proc'[x] = g /\ \A y \in Procs \ {x} : proc'[y] = proc[y]
      BY <1>t, <3>1, GotoIs
    <3> HIDE DEF g
    <3>5. Unlists(x)
      BY <1>7, <1>a, <2>1, <3>1, <3>2, <3>3, <3>4
         DEF ArchiveRelated, Archived, Unlists, Stays, counters, f, Creating
    <3>6. Records(x)
      BY <1>7, <1>a, <2>1, <3>1, <3>3, <3>4 DEF ArchiveRelated, Archived, Records, Takes, Leaving, f
    <3> QED
      BY <3>5, <3>6
  <2> QED
    BY <2>2, <2>3
<1>8. CASE FindSimilar(x)
  <2>1. f.pc = "similar" /\ f.op # "deleteArchivedAll"
    BY <1>8, <1>t DEF FindSimilar, At, f, Good
  <2> DEFINE similar == {t \in Like(f.alarm.kind) : t[1] # f.aid /\ t[2].result = ""}
             g == [f EXCEPT !.pc = "updateNext", !.todo = similar]
  <2>2. {t[1] : t \in similar} \subseteq active
    BY <1>t, LikeIsListed
  <2>3. Goto(x, g)
    BY <1>8 DEF FindSimilar, f
  <2> HIDE DEF similar
  <2>4. Known(g) \subseteq Known(f) \cup active /\ g.pc = "updateNext" /\ g.op = f.op
    BY <1>t, <2>2 DEF Frame, Known
  <2> HIDE DEF g
  <2> QED
    BY <1>8, <1>q, <2>1, <2>3, <2>4 DEF FindSimilar, Creating, Leaving
<1>9. CASE UpdateNext(x)
  <2>1. f.pc = "updateNext" /\ f.op # "deleteArchivedAll"
    BY <1>9, <1>t DEF UpdateNext, At, f, Good
  <2>2. CASE f.todo = {}
    <3>1. Goto(x, Idle) /\ UNCHANGED <<alarms, lists, recent, id>> /\ Stays
      BY <1>9, <2>2 DEF UpdateNext, f
    <3> QED
      BY <1>q, <1>i, <2>1, <3>1 DEF Creating, Leaving
  <2>3. CASE f.todo # {}
    <3>1. PICK t \in f.todo :
             /\ alarms' = [alarms EXCEPT ![t[1]] = Handled(f, t[2])]
             /\ Goto(x, [f EXCEPT !.pc = "archiveNext", !.aid = t[1], !.todo = @ \ {t}])
      BY <1>9, <2>3 DEF UpdateNext, f
    <3> DEFINE g == [f EXCEPT !.pc = "archiveNext", !.aid = t[1], !.todo = @ \ {t}]
               aid == t[1]
    <3>2. aid \in Aids /\ aid \in Known(f) /\ Handled(f, t[2]) # None
      <4>1. aid \in Aids /\ t[2] \in Alarm /\ f.op \in {"block", "allow", "archiveByException"}
        BY <1>t, <2>1 DEF Good, Frame
      <4>2. Handled(f, t[2]) \in Alarm
        BY <1>t, <4>1, HandledIsAlarm
      <4> QED
        BY <4>1, <4>2, NoneAssumption DEF Known
    <3>3. Known(g) \subseteq Known(f) /\ g.pc = "archiveNext" /\ g.op = f.op /\ g.aid = aid
      BY <1>t DEF Frame, Known
    <3>4. proc'[x] = g /\ \A y \in Procs \ {x} : proc'[y] = proc[y]
      BY <1>t, <3>1, GotoIs
    <3>5. \A a \in Aids : alarms'[a] = IF a = aid THEN Handled(f, t[2]) ELSE alarms[a]
      BY <1>t, <3>1, <3>2 DEF TypeOK
    <3> HIDE DEF g, aid
    <3>6. Unlists(x)
      BY <1>9, <1>a, <2>1, <3>3, <3>4 DEF UpdateNext, Unlists, lists, Stays, counters, f, Creating
    <3>7. active' = active /\ active \subseteq Aids
      BY <1>9, <1>t DEF UpdateNext, lists, TypeOK
    <3>8. Records(x)
      BY <1>a, <2>1, <3>2, <3>3, <3>4, <3>5, <3>7 DEF Records, Takes, Leaving, f
    <3> QED
      BY <3>6, <3>8
  <2> QED
    BY <2>2, <2>3
<1>10. CASE ArchiveNext(x)
  <2>1. f.pc = "archiveNext" /\ f.op # "deleteArchivedAll"
    BY <1>10, <1>t DEF ArchiveNext, At, f, Good
  <2>2. active' = active \ {f.aid} /\ archive' \in {archive, archive \cup {f.aid}}
    BY <1>10 DEF ArchiveNext, Archived, f
  <2> DEFINE g == [f EXCEPT !.pc = "updateNext"]
  <2>3. Known(g) = Known(f) /\ g.pc = "updateNext" /\ g.op = f.op
    BY <1>t DEF Frame, Known
  <2>4. proc'[x] = g /\ \A y \in Procs \ {x} : proc'[y] = proc[y]
    BY <1>10, <1>t, GotoIs DEF ArchiveNext, f
  <2> HIDE DEF g
  <2>5. Unlists(x)
    BY <1>10, <1>a, <1>f, <2>1, <2>2, <2>3, <2>4
       DEF ArchiveNext, Unlists, Stays, counters, f, Creating
  <2>6. Records(x)
    BY <1>10, <1>a, <2>1, <2>2, <2>3, <2>4 DEF ArchiveNext, Records, Takes, f
  <2> QED
    BY <2>5, <2>6
<1>11. CASE DeleteRule(x)
  <2>1. f.pc = "delete" /\ f.op # "deleteArchivedAll"
    BY <1>11, <1>t DEF DeleteRule, At, f, Good
  <2> DEFINE g == [f EXCEPT !.pc = "clear"]
  <2>2. Known(g) = Known(f) /\ g.pc = "clear" /\ g.op = f.op
    BY <1>t DEF Frame, Known
  <2>3. Goto(x, g)
    BY <1>11 DEF DeleteRule, f
  <2> HIDE DEF g
  <2> QED
    BY <1>11, <1>q, <2>1, <2>2, <2>3 DEF DeleteRule, lists, Creating, Leaving
<1>12. CASE Clear(x)
  <2> DEFINE alarm == [f.alarm EXCEPT !.result = "", !.policy = 0,
                                      !.auto = IF f.op = "unblock" THEN FALSE ELSE @]
  <2>1. f.pc = "clear" /\ f.op # "deleteArchivedAll" /\ f.aid \in Aids /\ f.alarm \in Alarm
    BY <1>12, <1>t DEF Clear, At, f, Good
  <2>2. alarm \in Alarm /\ ~Stale(alarm)
    BY <2>1 DEF Alarm, Stale
  <2>3. alarm # None
    BY <2>2, NoneAssumption
  <2>4. alarms' = [alarms EXCEPT ![f.aid] = alarm]
    BY <1>12 DEF Clear, f
  <2> HIDE DEF alarm
  <2>5. \A a \in Aids : alarms'[a] = IF a = f.aid THEN alarm ELSE alarms[a]
    BY <1>t, <2>1, <2>4 DEF TypeOK
  <2>6. proc'[x] = Idle /\ \A y \in Procs \ {x} : proc'[y] = proc[y]
    BY <1>12, <1>t, GotoIs DEF Clear
  <2>7. Unlists(x)
    BY <1>12, <1>i, <1>a, <2>1, <2>6 DEF Clear, Unlists, lists, Stays, counters, f, Creating
  <2>8. active' = active /\ active \subseteq Aids
    BY <1>12, <1>t DEF Clear, lists, TypeOK
  <2>9. Records(x)
    BY <1>a, <1>i, <1>f, <2>1, <2>2, <2>3, <2>5, <2>6, <2>8 DEF Records, Takes, Leaving, f
  <2> QED
    BY <2>7, <2>9
<1>13. CASE RemoveArchived(x)
  <2>1. f.pc = "remove" /\ f.op # "deleteArchivedAll"
    BY <1>13, <1>t DEF RemoveArchived, At, f, Good
  <2> DEFINE g == [f EXCEPT !.pc = "removeActive"]
  <2>2. Known(g) = Known(f) /\ g.pc = "removeActive" /\ g.op = f.op
    BY <1>t DEF Frame, Known
  <2>3. proc'[x] = g /\ \A y \in Procs \ {x} : proc'[y] = proc[y]
    BY <1>13, <1>t, GotoIs DEF RemoveArchived, f
  <2> HIDE DEF g
  <2> QED
    BY <1>13, <1>a, <2>1, <2>2, <2>3
       DEF RemoveArchived, Unlists, Records, Takes, Stays, counters, f, Creating, Leaving
<1>14. CASE RemoveActive(x)
  <2>1. f.pc = "removeActive" /\ f.op # "deleteArchivedAll"
    BY <1>14, <1>t DEF RemoveActive, At, f, Good
  <2> DEFINE g == [f EXCEPT !.pc = "del"]
  <2>2. Known(g) = Known(f) /\ g.pc = "del" /\ g.op = f.op /\ g.aid = f.aid
    BY <1>t DEF Frame, Known
  <2>3. proc'[x] = g /\ \A y \in Procs \ {x} : proc'[y] = proc[y]
    BY <1>14, <1>t, GotoIs DEF RemoveActive, f
  <2> HIDE DEF g
  <2> QED
    BY <1>14, <1>a, <2>1, <2>2, <2>3
       DEF RemoveActive, Unlists, Records, Takes, Stays, counters, f, Creating, Leaving
<1>15. CASE RemoveRecord(x)
  <2>1. f.pc = "del" /\ f.op # "deleteArchivedAll" /\ f.aid \in Aids
    BY <1>15, <1>t DEF RemoveRecord, At, f, Good
  <2>2. f.aid \notin active /\ active' = active /\ active \subseteq Aids
    BY <1>15, <1>r, <1>t, <2>1 DEF RemoveRecord, lists, TypeOK
  <2>3. \A a \in Aids \ {f.aid} : alarms'[a] = alarms[a]
    BY <1>15, <1>t DEF RemoveRecord, TypeOK, f
  <2>4. proc'[x] = Idle /\ \A y \in Procs \ {x} : proc'[y] = proc[y]
    BY <1>15, <1>t, GotoIs DEF RemoveRecord
  <2>5. Unlists(x)
    BY <1>15, <1>i, <1>a, <2>1, <2>4 DEF RemoveRecord, Unlists, lists, StaysButTtl, counters, f, Creating
  <2>6. Records(x)
    BY <1>a, <1>i, <1>f, <2>1, <2>2, <2>3, <2>4 DEF Records, Takes, Leaving, f
  <2> QED
    BY <2>5, <2>6
<1>16. CASE UnlistHost(x)
  <2>1. f.pc = "zremHost" /\ f.op # "deleteArchivedAll"
    BY <1>16, <1>t DEF UnlistHost, At, f, Good
  <2> DEFINE g == [f EXCEPT !.pc = "delHost"]
  <2>2. Known(g) = Known(f) /\ g.pc = "delHost" /\ g.op = f.op /\ Names(g) = Names(f)
    BY <1>t DEF Frame, Known, Names
  <2>3. proc'[x] = g /\ \A y \in Procs \ {x} : proc'[y] = proc[y]
    BY <1>16, <1>t, GotoIs DEF UnlistHost, f
  <2>4. active' = active \ Names(f)
    BY <1>16 DEF UnlistHost, Names, f
  <2> HIDE DEF g
  <2> QED
    BY <1>16, <1>a, <2>1, <2>2, <2>3, <2>4
       DEF UnlistHost, Unlists, Records, Takes, Stays, counters, f, Creating, Leaving
<1>d. ASSUME alarms' = Deleted(f.todo)
      PROVE  \A a \in Aids : a \notin Names(f) => alarms'[a] = alarms[a]
  BY <1>d, <1>t, DeletedKeeps DEF Names
<1>17. CASE DeleteHost(x)
  <2>1. f.pc = "delHost" /\ Names(f) \cap active = {}
    BY <1>17, <1>r DEF DeleteHost, At, f
  <2>2. active' = active /\ active \subseteq Aids
    BY <1>17, <1>t DEF DeleteHost, lists, TypeOK
  <2>3. \A a \in Aids : a \notin Names(f) => alarms'[a] = alarms[a]
    BY <1>17, <1>d DEF DeleteHost, f
  <2>4. proc'[x] = Idle /\ \A y \in Procs \ {x} : proc'[y] = proc[y]
    BY <1>17, <1>t, GotoIs DEF DeleteHost
  <2>5. Unlists(x)
    BY <1>17, <1>i, <1>a, <2>1, <2>4 DEF DeleteHost, Unlists, lists, StaysButTtl, counters, f, Creating
  <2>6. Records(x)
    BY <1>a, <1>i, <1>f, <2>1, <2>2, <2>3, <2>4 DEF Records, Takes, Leaving, f
  <2> QED
    BY <2>5, <2>6
<1>18. CASE OnAll(x)
  <2>1. f.pc = "all" /\ f.op \in {"ignoreAll", "deleteActiveAll", "deleteArchivedAll"}
    BY <1>18, <1>t DEF OnAll, At, f, Good
  <2>2. \/ /\ active' = active \ Names(f) /\ archive' \in {archive, archive \cup Names(f)}
        \/ /\ f.op = "deleteArchivedAll" /\ active' = active /\ archive' = archive \ Names(f)
    BY <1>18 DEF OnAll, Names, f
  <2>3. alarms' = alarms \/ alarms' = Deleted(f.todo)
    BY <1>18 DEF OnAll, f
  <2>4. \A a \in Aids : a \notin Names(f) => alarms'[a] = alarms[a]
    BY <1>d, <2>3
  <2>5. proc'[x] = Idle /\ \A y \in Procs \ {x} : proc'[y] = proc[y]
    BY <1>18, <1>t, GotoIs DEF OnAll
  <2>6. UNCHANGED <<id, firstId, expired, recent>>
    BY <1>18 DEF OnAll, StaysButTtl, counters
  <2>7. active' \cap Names(f) = {} /\ active \subseteq Aids
    BY <1>r, <1>t, <2>2 DEF TypeOK
  <2>8. Unlists(x)
    BY <1>a, <1>i, <1>f, <2>1, <2>2, <2>5, <2>6 DEF Unlists, f, Creating
  <2>9. Records(x)
    BY <1>a, <1>i, <1>f, <2>1, <2>2, <2>4, <2>5, <2>7 DEF Records, Takes, Leaving, f
  <2> QED
    BY <2>8, <2>9
<1>19. CASE UnlistDead(x)
  <2>1. f.pc = "zremDead" /\ f.op # "deleteArchivedAll"
    BY <1>19, <1>t DEF UnlistDead, At, f, Good
  <2> DEFINE g == [f EXCEPT !.pc = "zremDeadArchived"]
  <2>2. Known(g) = Known(f) /\ g.pc = "zremDeadArchived" /\ g.op = f.op
    BY <1>t DEF Frame, Known
  <2>3. proc'[x] = g /\ \A y \in Procs \ {x} : proc'[y] = proc[y]
    BY <1>19, <1>t, GotoIs DEF UnlistDead, f
  <2>4. active' = active \ Names(f)
    BY <1>19 DEF UnlistDead, Names, f
  <2> HIDE DEF g
  <2> QED
    BY <1>19, <1>a, <2>1, <2>2, <2>3, <2>4
       DEF UnlistDead, Unlists, Records, Takes, Stays, counters, f, Creating, Leaving
<1>20. CASE UnlistDeadArchived(x)
  <2>1. f.pc = "zremDeadArchived"
    BY <1>20 DEF UnlistDeadArchived, At, f
  <2>2. proc'[x] = Idle /\ \A y \in Procs \ {x} : proc'[y] = proc[y]
    BY <1>20, <1>t, GotoIs DEF UnlistDeadArchived
  <2> QED
    BY <1>20, <1>a, <1>i, <2>1, <2>2
       DEF UnlistDeadArchived, Unlists, Records, Takes, Stays, counters, f, Creating, Leaving
<1> QED
  BY <1>1, <1>2, <1>3, <1>4, <1>5, <1>6, <1>7, <1>8, <1>9, <1>10, <1>11, <1>12, <1>13,
     <1>14, <1>15, <1>16, <1>17, <1>18, <1>19, <1>20 DEF OpStep

LEMMA StartUnlists ==
  ASSUME IInv, Once, NEW x \in Apps,
         \/ \E a \in Aids : Start(x, a)
         \/ \E r \in RuleIds : StartByException(x, r)
         \/ StartAll(x) \/ StartClean(x)
  PROVE  Unlists(x) /\ Records(x)
<1>t. /\ x \in Procs /\ TypeInv /\ TypeOK /\ UsedInv
  BY DEF IInv, TypeInv, Procs
<1>i. Idle.pc = "idle" /\ Known(Idle) = {0} /\ Idle.op = "" /\ Idle.todo = {} /\ Idle.aid = 0
  BY IdleIsGood DEF Idle
<1>a. active \cap archive = {}
  BY <1>t DEF UsedInv
<1>g. ASSUME UNCHANGED <<alarms, lists, recent, id, firstId, expired>>, NEW g, Goto(x, g),
             At(x, "idle"),
             Known(g) \subseteq active \cup archive \cup {0},
             g.pc \notin Creating \cup {"del", "delHost"},
             g.op = "deleteArchivedAll" => Names(g) \subseteq archive
      PROVE  Unlists(x) /\ Records(x)
  <2>1. proc'[x] = g /\ \A y \in Procs \ {x} : proc'[y] = proc[y]
    BY <1>t, <1>g, GotoIs
  <2> QED
    BY <1>g, <1>a, <2>1 DEF Unlists, Records, Takes, lists, At, Creating, Leaving
<1>1. ASSUME NEW a \in Aids, Start(x, a) PROVE Unlists(x) /\ Records(x)
  <2>1. PICK g : Goto(x, g) /\
           \/ \E op \in {"block", "allow", "ignore", "unblock", "unallow"} :
                 g = [Idle EXCEPT !.pc = "load", !.op = op, !.aid = a]
           \/ g = [Idle EXCEPT !.pc = "remove", !.op = "remove", !.aid = a]
           \/ g = [Idle EXCEPT !.pc = "zremHost", !.op = "deleteHost",
                               !.todo = Like(alarms[a].kind)]
    BY <1>1 DEF Start
  <2>2. {t[1] : t \in Like(alarms[a].kind)} \subseteq active
    BY <1>t, LikeIsListed
  <2>3. a \in active \cup archive
    BY <1>1 DEF Start
  <2>4. Known(g) \subseteq active \cup archive \cup {0}
    BY <2>1, <2>2, <2>3 DEF Idle, Known
  <2>5. g.pc \in {"load", "remove", "zremHost"} /\ g.op # "deleteArchivedAll"
    BY <2>1 DEF Idle
  <2> QED
    BY <1>1, <1>g, <2>1, <2>4, <2>5 DEF Start, Creating
<1>2. ASSUME NEW r \in RuleIds, StartByException(x, r) PROVE Unlists(x) /\ Records(x)
  <2> DEFINE g == [Idle EXCEPT !.pc = "similar", !.op = "archiveByException", !.rule = r,
                               !.alarm = Fresh(rules[r].kind)]
  <2>1. Known(g) = {0} /\ g.pc = "similar" /\ g.op = "archiveByException"
    BY DEF Idle, Known
  <2>2. Goto(x, g)
    BY <1>2 DEF StartByException
  <2> HIDE DEF g
  <2> QED
    BY <1>2, <1>g, <2>1, <2>2 DEF StartByException, Creating
<1>3. CASE StartAll(x)
  <2>1. PICK op \in {"ignoreAll", "deleteActiveAll", "deleteArchivedAll"} :
           Goto(x, [Idle EXCEPT !.pc = "all", !.op = op, !.todo =
                      (IF op = "deleteArchivedAll" THEN archive ELSE active) \X {None}])
    BY <1>3 DEF StartAll
  <2> DEFINE all == (IF op = "deleteArchivedAll" THEN archive ELSE active) \X {None}
             g == [Idle EXCEPT !.pc = "all", !.op = op, !.todo = all]
  <2>2. /\ {t[1] : t \in all} \subseteq active \cup archive
        /\ op = "deleteArchivedAll" => {t[1] : t \in all} \subseteq archive
    OBVIOUS
  <2>3. Goto(x, g)
    BY <2>1
  <2> HIDE DEF all
  <2>4. /\ Known(g) \subseteq active \cup archive \cup {0}
        /\ g.pc = "all" /\ g.op = op /\ Names(g) = {t[1] : t \in all}
    BY <2>2 DEF Idle, Known, Names
  <2> HIDE DEF g
  <2> QED
    BY <1>3, <1>g, <2>2, <2>3, <2>4 DEF StartAll, Creating
<1>4. CASE StartClean(x)
  <2> DEFINE dead == {a \in active \cup archive : alarms[a] = None} \X {None}
             g == [Idle EXCEPT !.pc = "zremDead", !.op = "cleanIndex", !.todo = dead]
  <2>1. {t[1] : t \in dead} \subseteq active \cup archive
    OBVIOUS
  <2>2. Goto(x, g)
    BY <1>4 DEF StartClean
  <2> HIDE DEF dead
  <2>3. /\ Known(g) \subseteq active \cup archive \cup {0}
        /\ g.pc = "zremDead" /\ g.op = "cleanIndex"
    BY <2>1 DEF Idle, Known
  <2> HIDE DEF g
  <2> QED
    BY <1>4, <1>g, <2>2, <2>3 DEF StartClean, Creating
<1> QED
  BY <1>1, <1>2, <1>3, <1>4

\* A process that only unlists alarms and handles them keeps the invariant.
LEMMA UnlistingKeeps ==
  ASSUME IInv, Once, NEW x \in Procs, Unlists(x), Records(x), TypeInv'
  PROVE  UsedInv'
<1>t. TypeOK /\ TypeOK' /\ UsedInv /\ \A y \in Procs : Good(y, proc[y])
  BY DEF IInv, TypeInv
<1>u. /\ id' = id /\ firstId' = firstId /\ id \in Nat /\ active' \subseteq active
      /\ archive' \subseteq archive \cup Known(proc[x])
      /\ Known(proc'[x]) \subseteq Known(proc[x]) \cup active \cup archive \cup {0}
      /\ proc[x].pc \notin Creating /\ proc'[x].pc \notin Creating
      /\ \A y \in Procs \ {x} : proc'[y] = proc[y]
  BY <1>t, IdIsNumber DEF Unlists
<1>n. NewIsPrivate /\ KnownIsOld /\ RecordsFirst /\ HandledIsTaken
  BY <1>t DEF UsedInv
<1>w. ASSUME NEW w \in Procs, proc'[w].pc \in Private
      PROVE  /\ w # x /\ proc'[w] = proc[w] /\ proc[w].aid \in Aids /\ proc[w].aid # 0
             /\ proc[w].aid \notin Known(proc[x]) \cup active \cup archive
  <2>1. w # x /\ proc'[w] = proc[w]
    BY <1>u, <1>w DEF Private, Creating
  <2>2. proc[w].aid \in Aids /\ proc[w].aid # 0
    BY <1>t, <1>w, <2>1, AidsAreIds DEF Good
  <2> QED
    BY <1>n, <1>w, <2>1, <2>2 DEF NewIsPrivate
<1>1. active' \cap archive' = {}
  BY DEF Unlists
<1>2. KnownIsOld'
  <2>1. \A a \in active' \cup archive' : a <= id
    BY <1>u, <1>n DEF KnownIsOld
  <2>2. \A a \in Known(proc'[x]) : a <= id
    BY <1>u, <1>n DEF KnownIsOld
  <2>3. ASSUME NEW a \in Aids, alarms'[a] # None PROVE a <= id
    BY <1>n, <2>3 DEF KnownIsOld, Records
  <2> QED
    BY <1>u, <1>n, <2>1, <2>2, <2>3 DEF KnownIsOld
<1>3. NewIsPrivate'
  <2> SUFFICES ASSUME NEW w \in Procs, proc'[w].pc \in Private
               PROVE  /\ proc'[w].aid \notin active' \cup archive'
                      /\ \A y \in Procs \ {w} : proc'[w].aid \notin Known(proc'[y])
    BY DEF NewIsPrivate
  <2>1. \A y \in Procs \ {w} : proc[w].aid \notin Known(proc[y])
    BY <1>n, <1>w DEF NewIsPrivate
  <2>2. \A y \in Procs \ {w} : proc[w].aid \notin Known(proc'[y])
    BY <1>u, <1>w, <2>1
  <2> QED
    BY <1>u, <1>w, <2>2
<1>4. RecordsFirst'
  <2>1. \A a \in active' : Present(a)'
    BY <1>u, <1>n DEF Records, Unlists, RecordsFirst, Present
  <2>2. ASSUME NEW y \in Procs
        PROVE  /\ proc'[y].pc = "setId" => id' = 0
               /\ proc'[y].pc = "zadd" => alarms'[proc'[y].aid] = proc'[y].alarm
               /\ proc'[y].pc = "del" => proc'[y].aid \notin active'
               /\ proc'[y].pc = "delHost" \/ proc'[y].op = "deleteArchivedAll" =>
                     {t[1] : t \in proc'[y].todo} \cap active' = {}
    <3>1. CASE y = x
      BY <1>u, <3>1 DEF Records, Creating, Names
    <3>2. CASE y # x
      <4>1. proc'[y] = proc[y]
        BY <1>u, <3>2
      <4>2. proc'[y].pc = "zadd" => alarms'[proc'[y].aid] = proc'[y].alarm
        BY <1>w, <1>n, <4>1 DEF Records, Private, RecordsFirst
      <4> QED
        BY <1>u, <1>n, <4>1, <4>2 DEF RecordsFirst
    <3> QED
      BY <3>1, <3>2
  <2> QED
    BY <2>1, <2>2 DEF RecordsFirst
<1>5. HandledIsTaken'
  <2> SUFFICES ASSUME NEW a \in active', alarms'[a] # None, Stale(alarms'[a])
               PROVE  \E y \in Procs : Takes(proc'[y], a)
    BY DEF HandledIsTaken
  <2>1. a \in active /\ ~Takes(proc[x], a)
    BY <1>u DEF Records
  <2>2. alarms'[a] = alarms[a] \/ Takes(proc'[x], a)
    BY DEF Records
  <2>3. CASE alarms'[a] = alarms[a]
    <3>1. PICK y \in Procs : Takes(proc[y], a)
      BY <1>n, <2>1, <2>3 DEF HandledIsTaken
    <3> QED
      BY <1>u, <2>1, <3>1
  <2> QED
    BY <2>2, <2>3
<1> QED
  BY <1>1, <1>2, <1>3, <1>4, <1>5 DEF UsedInv

\* Processes that go on without naming another alarm, while nothing that they
\* share changes, keep the invariant.
Quiet(f, g) == /\ Known(g) \subseteq Known(f) \cup {0} /\ f.pc \notin Leaving
               /\ g.pc \notin Private \cup {"del", "delHost"} /\ g.op # "deleteArchivedAll"
               /\ g.pc = "setId" => id = 0

LEMMA QuietKeeps ==
  ASSUME IInv, Once, TypeInv', UNCHANGED <<alarms, active, archive, id, firstId, expired>>,
         recent' \subseteq recent,
         \A x \in Procs : proc'[x] = proc[x] \/ Quiet(proc[x], proc'[x])
  PROVE  UsedInv'
<1>t. TypeOK /\ UsedInv /\ id \in Nat /\ \A y \in Procs : Good(y, proc[y])
  BY IdIsNumber DEF IInv, TypeInv
<1>n. /\ NewIsPrivate /\ KnownIsOld /\ RecordsFirst /\ HandledIsTaken /\ active \cap archive = {}
  BY <1>t DEF UsedInv
<1>k. \A x \in Procs : Known(proc'[x]) \subseteq Known(proc[x]) \cup {0}
  BY DEF Quiet
<1>w. ASSUME NEW w \in Procs, proc'[w].pc \in Private
      PROVE  proc'[w] = proc[w] /\ proc[w].aid # 0
  BY <1>w, <1>t, AidsAreIds DEF Quiet, Good
<1>1. KnownIsOld'
  BY <1>t, <1>n, <1>k DEF KnownIsOld
<1>2. NewIsPrivate'
  BY <1>n, <1>k, <1>w DEF NewIsPrivate
<1>3. RecordsFirst'
  <2>1. ASSUME NEW y \in Procs
        PROVE  /\ proc'[y].pc = "setId" => id' = 0
               /\ proc'[y].pc = "zadd" => alarms'[proc'[y].aid] = proc'[y].alarm
               /\ proc'[y].pc = "del" => proc'[y].aid \notin active'
               /\ proc'[y].pc = "delHost" \/ proc'[y].op = "deleteArchivedAll" =>
                     {t[1] : t \in proc'[y].todo} \cap active' = {}
    BY <1>n, <2>1 DEF RecordsFirst, Quiet, Private
  <2> QED
    BY <1>n, <2>1 DEF RecordsFirst, Present
<1>4. HandledIsTaken'
  BY <1>n DEF HandledIsTaken, Takes, Quiet
<1> QED
  BY <1>n, <1>1, <1>2, <1>3, <1>4 DEF UsedInv

\* So does the expiry of a record, which is none that somebody is creating.
LEMMA ExpireKeeps ==
  ASSUME IInv, Once, NEW a \in Aids, Expire(a)
  PROVE  UsedInv'
<1>t. TypeInv /\ TypeOK /\ UsedInv /\ \A y \in Procs : Good(y, proc[y])
  BY DEF IInv, TypeInv
<1>n. /\ NewIsPrivate /\ KnownIsOld /\ RecordsFirst /\ HandledIsTaken /\ active \cap archive = {}
  BY <1>t DEF UsedInv
<1>e. /\ UNCHANGED <<active, archive, id, firstId, proc>>
      /\ \A b \in Aids : alarms'[b] = IF b = a THEN None ELSE alarms[b]
      /\ expired' = expired \cup {a} /\ recent' = recent \ {a}
      /\ \A w \in Workers : proc[w].aid # a
  BY <1>t, ExpireIs DEF lists
<1>1. KnownIsOld' /\ NewIsPrivate'
  BY <1>n, <1>e DEF KnownIsOld, NewIsPrivate
<1>2. RecordsFirst'
  <2>1. \A b \in active' : Present(b)'
    BY <1>t, <1>n, <1>e DEF TypeOK, RecordsFirst, Present
  <2>2. ASSUME NEW y \in Procs, proc[y].pc = "zadd"
        PROVE  alarms'[proc[y].aid] = proc[y].alarm
    <3>1. y \in Workers /\ proc[y].aid \in Aids
      BY <1>t, <2>2 DEF Good, Creating, Private
    <3> QED
      BY <1>n, <1>e, <2>2, <3>1 DEF RecordsFirst
  <2> QED
    BY <1>n, <1>e, <2>1, <2>2 DEF RecordsFirst
<1>3. HandledIsTaken'
  BY <1>t, <1>n, <1>e DEF TypeOK, HandledIsTaken
<1> QED
  BY <1>n, <1>e, <1>1, <1>2, <1>3 DEF UsedInv

LEMMA OneAtWork ==
  ASSUME AtWork, Orderly, NEW v \in Workers, NEW w \in Workers,
         proc[v].pc # "idle", proc[w].pc # "idle"
  PROVE  v = w
BY DEF AtWork, Orderly

LEMMA CreateKeeps ==
  ASSUME IInv, Once, NEW w \in Workers, CreateStep(w), TypeInv'
  PROVE  UsedInv'
<1> DEFINE f == proc[w]
<1>t. /\ w \in Procs /\ TypeInv /\ TypeOK /\ UsedInv /\ id \in Nat /\ f \in Frame
      /\ \A y \in Procs : Good(y, proc[y])
  BY IdIsNumber DEF IInv, TypeInv, Procs, Good
<1>n. /\ NewIsPrivate /\ KnownIsOld /\ RecordsFirst /\ HandledIsTaken /\ active \cap archive = {}
  BY <1>t DEF UsedInv
<1>i. Idle.pc = "idle" /\ Known(Idle) = {0} /\ Idle.op = ""
  BY IdleIsGood DEF Idle
<1>c. f.pc \in Creating => f.op = "create"
  BY <1>t DEF Good
<1>z. \A y \in Procs : proc[y].pc \in Private => proc[y].aid \in Aids /\ proc[y].aid # 0
  BY <1>t, AidsAreIds DEF Good
<1> HIDE DEF f
<1>q. ASSUME UNCHANGED <<alarms, lists, recent, id>>, Stays, f.pc \in Creating,
             \/ Goto(w, Idle)
             \/ \E pc \in {"exceptions", "policies", "getId", "setId", "incrId"} :
                   (pc = "setId" => id = 0) /\ Goto(w, [f EXCEPT !.pc = pc])
      PROVE  UsedInv'
  <2>1. PICK g : Goto(w, g) /\ (g = Idle \/ \E pc \in {"exceptions", "policies", "getId", "setId", "incrId"} :
                                    (pc = "setId" => id = 0) /\ g = [f EXCEPT !.pc = pc])
    BY <1>q
  <2>2. Quiet(f, g)
    BY <1>q, <1>t, <1>i, <1>c, <2>1 DEF Frame, Known, Quiet, Creating, Private, Leaving
  <2>3. proc'[w] = g /\ \A y \in Procs \ {w} : proc'[y] = proc[y]
    BY <1>t, <2>1, GotoIs
  <2>4. \A y \in Procs : proc'[y] = proc[y] \/ Quiet(proc[y], proc'[y])
    BY <2>2, <2>3 DEF f
  <2> QED
    BY <1>q, <2>4, QuietKeeps DEF lists, Stays, counters
<1>1. CASE Dedup(w)
  BY <1>1, <1>q DEF Dedup, At, f, Creating
<1>2. CASE MatchExceptions(w)
  BY <1>2, <1>q DEF MatchExceptions, At, f, Creating
<1>3. CASE MatchPolicies(w)
  BY <1>3, <1>q DEF MatchPolicies, At, f, Creating
<1>4. CASE GetId(w)
  BY <1>4, <1>q DEF GetId, At, f, Creating
<1>a. ASSUME NEW y \in Procs \ {w}, f.pc \in Creating
      PROVE  proc[y].pc # "setId"
  <2> SUFFICES ASSUME proc[y].pc = "setId" PROVE FALSE
    OBVIOUS
  <2>1. id = 0
    BY <1>n DEF RecordsFirst
  <2>2. Orderly
    BY <1>n, <2>1 DEF KnownIsOld, Once
  <2>3. y \in Workers /\ proc[y].pc # "idle" /\ proc[w].pc # "idle"
    BY <1>t, <1>a DEF Good, Creating, f
  <2> QED
    BY <2>2, <2>3, OneAtWork DEF IInv
\* Both ways to get an id.
<1>b. ASSUME f.pc \in {"setId", "incrId"}, id + 1 \in Aids, id' = id + 1,
             Goto(w, [f EXCEPT !.pc = "hmset", !.aid = id + 1]),
             UNCHANGED <<alarms, lists, recent>>, Stays
      PROVE  UsedInv'
  <2> DEFINE g == [f EXCEPT !.pc = "hmset", !.aid = id + 1]
  <2>1. proc'[w] = g /\ \A y \in Procs \ {w} : proc'[y] = proc[y]
    BY <1>b, <1>t, GotoIs
  <2>2. Known(g) = {id + 1} \cup Names(f) /\ g.aid = id + 1 /\ g.pc = "hmset" /\ g.op = f.op
    BY <1>t DEF Frame, Known, Names
  <2>3. f.pc \notin Leaving /\ f.op = "create"
    BY <1>b, <1>c DEF Creating, Leaving
  <2> HIDE DEF g
  <2>4. id' = id + 1 /\ id' # 0 /\ UNCHANGED <<alarms, active, archive, firstId, expired, recent>>
    BY <1>b, <1>t DEF lists, Stays, counters
  <2>5. \A a \in active \cup archive : a \in Nat /\ a <= id
    BY <1>t, <1>n, AidsAreIds DEF TypeOK, KnownIsOld
  <2>6. \A y \in Procs : \A a \in Known(proc[y]) : a \in Nat /\ a <= id
    <3> SUFFICES ASSUME NEW y \in Procs, NEW a \in Known(proc[y]) PROVE a \in Nat /\ a <= id
      OBVIOUS
    <3>1. proc[y].aid \in Aids \cup {0} /\ \A t \in proc[y].todo : t[1] \in Aids
      BY <1>t DEF Good, Frame
    <3>2. a <= id
      BY <1>n DEF KnownIsOld
    <3>3. a \in Aids \cup {0}
      BY <3>1 DEF Known
    <3> QED
      BY <3>2, <3>3, AidsAreIds
  <2>7. Names(f) \subseteq Known(f)
    BY DEF Names, Known
  <2>8. KnownIsOld'
    <3>1. \A y \in Procs : \A a \in Known(proc'[y]) : a <= id + 1
      BY <1>t, <2>1, <2>2, <2>6, <2>7 DEF f
    <3>2. \A a \in Aids : alarms[a] # None => a <= id + 1
      BY <1>t, <1>n, AidsAreIds DEF KnownIsOld
    <3> QED
      BY <1>t, <2>4, <2>5, <3>1, <3>2 DEF KnownIsOld
  <2>9. NewIsPrivate'
    <3> SUFFICES ASSUME NEW v \in Procs, proc'[v].pc \in Private
                 PROVE  /\ proc'[v].aid \notin active' \cup archive'
                        /\ \A y \in Procs \ {v} : proc'[v].aid \notin Known(proc'[y])
      BY DEF NewIsPrivate
    <3>1. CASE v = w
      <4>1. \A y \in Procs \ {w} : id + 1 \notin Known(proc'[y])
        BY <1>t, <2>1, <2>6
      <4> QED
        BY <1>t, <2>1, <2>2, <2>4, <2>5, <3>1, <4>1
    <3>2. CASE v # w
      <4>1. proc'[v] = proc[v] /\ proc[v].aid \in Known(proc[v])
        BY <2>1, <3>2 DEF Known
      <4>2. proc[v].aid # id + 1
        BY <1>t, <2>6, <4>1
      <4>3. \A y \in Procs \ {v} : proc[v].aid \notin Known(proc[y])
        BY <1>n, <4>1 DEF NewIsPrivate
      <4>4. \A y \in Procs \ {v} : proc[v].aid \notin Known(proc'[y])
        BY <1>t, <2>1, <2>2, <2>7, <3>2, <4>2, <4>3 DEF f
      <4> QED
        BY <1>n, <2>4, <4>1, <4>4 DEF NewIsPrivate
    <3> QED
      BY <3>1, <3>2
  <2>10. RecordsFirst'
    <3>1. ASSUME NEW y \in Procs
          PROVE  /\ proc'[y].pc = "setId" => id' = 0
                 /\ proc'[y].pc = "zadd" => alarms'[proc'[y].aid] = proc'[y].alarm
                 /\ proc'[y].pc = "del" => proc'[y].aid \notin active'
                 /\ proc'[y].pc = "delHost" \/ proc'[y].op = "deleteArchivedAll" =>
                       {t[1] : t \in proc'[y].todo} \cap active' = {}
      BY <1>n, <1>a, <1>b, <2>1, <2>2, <2>3, <2>4 DEF RecordsFirst, Creating
    <3> QED
      BY <1>n, <2>4, <3>1 DEF RecordsFirst, Present
  <2>11. HandledIsTaken'
    BY <1>n, <2>1, <2>3, <2>4 DEF HandledIsTaken, Takes, f
  <2> QED
    BY <1>n, <2>4, <2>8, <2>9, <2>10, <2>11 DEF UsedInv
<1>5. CASE SetId(w)
  <2>1. f.pc = "setId" /\ id = 0 /\ id + 1 = 1
    BY <1>5, <1>t, <1>n DEF SetId, At, RecordsFirst, f
  <2>2. 1 \in Aids
    BY <1>5, <1>t, FirstIsId DEF TypeOK
  <2> QED
    BY <1>5, <1>b, <2>1, <2>2 DEF SetId, f
<1>6. CASE IncrId(w)
  BY <1>6, <1>b DEF IncrId, At, f
<1>7. CASE Save(w)
  <2> DEFINE g == [f EXCEPT !.pc = "zadd"]
  <2>1. f.pc = "hmset" /\ f.op = "create" /\ f.aid \in Aids
    BY <1>7, <1>t, <1>c, <1>z DEF Save, At, f, Creating, Private
  <2>2. proc'[w] = g /\ \A y \in Procs \ {w} : proc'[y] = proc[y]
    BY <1>7, <1>t, GotoIs DEF Save, f
  <2>3. /\ Known(g) = Known(f) /\ g.aid = f.aid /\ g.pc = "zadd" /\ g.op = f.op
        /\ g.alarm = f.alarm
    BY <1>t DEF Frame, Known
  <2> HIDE DEF g
  <2>4. UNCHANGED <<active, archive, id, firstId, expired, recent>>
    BY <1>7 DEF Save, lists, StaysButTtl, counters
  <2>5. \A a \in Aids : alarms'[a] = IF a = f.aid THEN f.alarm ELSE alarms[a]
    BY <1>7, <1>t, <2>1 DEF Save, TypeOK, f
  <2>6. /\ f.aid \notin active \cup archive
        /\ \A y \in Procs \ {w} : f.aid \notin Known(proc[y])
    BY <1>t, <1>n, <2>1 DEF NewIsPrivate, Private, f
  <2>7. \A a \in active : alarms'[a] = alarms[a]
    BY <1>t, <2>5, <2>6 DEF TypeOK
  <2>8. \A y \in Procs : Known(proc'[y]) = Known(proc[y])
    BY <2>2, <2>3 DEF f
  <2>9. KnownIsOld'
    <3>1. f.aid <= id
      BY <1>t, <1>n DEF KnownIsOld, Known, f
    <3> QED
      BY <1>n, <2>4, <2>5, <2>8, <3>1 DEF KnownIsOld
  <2>10. NewIsPrivate'
    <3>1. \A y \in Procs : proc'[y].pc \in Private => proc[y].pc \in Private /\ proc'[y].aid = proc[y].aid
      BY <2>1, <2>2, <2>3 DEF Private, f
    <3> QED
      BY <1>n, <2>4, <2>8, <3>1 DEF NewIsPrivate
  <2>11. RecordsFirst'
    <3>1. ASSUME NEW y \in Procs
          PROVE  /\ proc'[y].pc = "setId" => id' = 0
                 /\ proc'[y].pc = "zadd" => alarms'[proc'[y].aid] = proc'[y].alarm
                 /\ proc'[y].pc = "del" => proc'[y].aid \notin active'
                 /\ proc'[y].pc = "delHost" \/ proc'[y].op = "deleteArchivedAll" =>
                       {t[1] : t \in proc'[y].todo} \cap active' = {}
      <4>1. CASE y = w
        BY <2>1, <2>2, <2>3, <2>4, <2>5, <4>1
      <4>2. CASE y # w
        <5>1. proc'[y] = proc[y] /\ proc[y].aid # f.aid
          BY <2>2, <2>6, <4>2 DEF Known
        <5>2. proc[y].pc = "zadd" => alarms'[proc[y].aid] = proc[y].alarm
          BY <1>n, <1>z, <2>5, <5>1 DEF RecordsFirst, Private
        <5> QED
          BY <1>n, <2>4, <5>1, <5>2 DEF RecordsFirst
      <4> QED
        BY <4>1, <4>2
    <3> QED
      BY <1>n, <2>4, <2>7, <3>1 DEF RecordsFirst, Present
  <2>12. HandledIsTaken'
    BY <1>n, <2>1, <2>2, <2>4, <2>7 DEF HandledIsTaken, Takes, Leaving, f
  <2> QED
    BY <1>n, <2>4, <2>9, <2>10, <2>11, <2>12 DEF UsedInv
<1>8. CASE AddToActiveQueue(w)
  <2>1. f.pc = "zadd" /\ f.aid \in Aids
    BY <1>8, <1>z, <1>t DEF AddToActiveQueue, At, f, Private
  <2>2. PICK g \in {Idle, [f EXCEPT !.pc = "load", !.op = "block", !.auto = TRUE]} : Goto(w, g)
    BY <1>8 DEF AddToActiveQueue, f
  <2>3. /\ Known(g) \subseteq Known(f) \cup {0}
        /\ g.pc \in {"idle", "load"} /\ g.op # "deleteArchivedAll"
    BY <1>t, <1>i, <2>2 DEF Frame, Known
  <2>4. proc'[w] = g /\ \A y \in Procs \ {w} : proc'[y] = proc[y]
    BY <1>t, <2>2, GotoIs
  <2>5. active' = active \cup {f.aid} /\ UNCHANGED <<alarms, archive, id, firstId, expired>>
        /\ recent' = recent \cup {f.aid}
    BY <1>8 DEF AddToActiveQueue, Stays, counters, f
  <2>6. /\ f.aid \notin active \cup archive
        /\ \A y \in Procs \ {w} : f.aid \notin Known(proc[y])
    BY <1>t, <1>n, <2>1 DEF NewIsPrivate, Private, f
  <2>7. f.aid <= id /\ f.aid \in Known(f)
    BY <1>t, <1>n DEF KnownIsOld, Known, f
  <2>8. \A y \in Procs : Known(proc'[y]) \subseteq Known(proc[y]) \cup {0}
    BY <2>3, <2>4 DEF f
  <2>9. alarms[f.aid] = f.alarm /\ f.alarm \in Alarm /\ ~Stale(f.alarm)
    BY <1>t, <1>n, <2>1, FreshIsAlarm DEF RecordsFirst, Good, Creating, f
  <2>10. active' \cap archive' = {}
    BY <1>n, <2>5, <2>6
  <2>11. KnownIsOld'
    BY <1>n, <1>t, <2>5, <2>7, <2>8 DEF KnownIsOld
  <2>12. NewIsPrivate'
    <3> SUFFICES ASSUME NEW v \in Procs, proc'[v].pc \in Private
                 PROVE  /\ proc'[v].aid \notin active' \cup archive'
                        /\ \A y \in Procs \ {v} : proc'[v].aid \notin Known(proc'[y])
      BY DEF NewIsPrivate
    <3>1. v # w /\ proc'[v] = proc[v] /\ proc[v].aid # 0
      BY <1>z, <2>3, <2>4 DEF Private
    <3>2. proc[v].aid # f.aid
      BY <2>6, <3>1 DEF Known
    <3> QED
      BY <1>n, <2>5, <2>8, <3>1, <3>2 DEF NewIsPrivate
  <2>13. RecordsFirst'
    <3>1. \A a \in active' : Present(a)'
      BY <1>n, <2>5, <2>9, NoneAssumption DEF RecordsFirst, Present
    <3>2. ASSUME NEW y \in Procs
          PROVE  /\ proc'[y].pc = "setId" => id' = 0
                 /\ proc'[y].pc = "zadd" => alarms'[proc'[y].aid] = proc'[y].alarm
                 /\ proc'[y].pc = "del" => proc'[y].aid \notin active'
                 /\ proc'[y].pc = "delHost" \/ proc'[y].op = "deleteArchivedAll" =>
                       {t[1] : t \in proc'[y].todo} \cap active' = {}
      <4>1. CASE y = w
        BY <2>3, <2>4, <4>1
      <4>2. CASE y # w
        <5>1. proc'[y] = proc[y] /\ proc[y].aid # f.aid /\ f.aid \notin Names(proc[y])
          BY <2>4, <2>6, <4>2 DEF Known, Names
        <5> QED
          BY <1>n, <2>5, <5>1 DEF RecordsFirst, Names
      <4> QED
        BY <4>1, <4>2
    <3> QED
      BY <3>1, <3>2 DEF RecordsFirst
  <2>14. HandledIsTaken'
    <3> SUFFICES ASSUME NEW a \in active', alarms'[a] # None, Stale(alarms'[a])
                 PROVE  \E y \in Procs : Takes(proc'[y], a)
      BY DEF HandledIsTaken
    <3>1. a \in active /\ alarms[a] # None /\ Stale(alarms[a])
      BY <2>5, <2>9
    <3>2. PICK y \in Procs : Takes(proc[y], a)
      BY <1>n, <3>1 DEF HandledIsTaken
    <3>3. y # w
      BY <2>1, <3>2 DEF Takes, Leaving, f
    <3> QED
      BY <2>4, <3>2, <3>3
  <2> QED
    BY <2>10, <2>11, <2>12, <2>13, <2>14 DEF UsedInv
<1> QED
  BY <1>1, <1>2, <1>3, <1>4, <1>5, <1>6, <1>7, <1>8 DEF CreateStep

-----------------------------------------------------------------------------
(* The invariant and the theorems *)

\* A process that is idle has no code to run.
LEMMA StepIsAtWork ==
  ASSUME NEW x, CreateStep(x) \/ OpStep(x)
  PROVE  ~At(x, "idle") /\ UNCHANGED <<current, direct>>
<1>1. CASE CreateStep(x)
  BY <1>1 DEF CreateStep, Dedup, MatchExceptions, MatchPolicies, GetId, SetId, IncrId, Save,
              AddToActiveQueue, At, Stays, StaysButTtl, counters
<1>2. CASE OpStep(x)
  BY <1>2 DEF OpStep, Load, FindSame, SaveRule, Update, Archive, FindRelated, ArchiveRelated,
              FindSimilar, UpdateNext, ArchiveNext, DeleteRule, Clear, RemoveArchived,
              RemoveActive, RemoveRecord, UnlistHost, DeleteHost, OnAll, UnlistDead,
              UnlistDeadArchived, At, Stays, StaysButTtl, counters
<1> QED
  BY <1>1, <1>2

LEMMA DirectStays == TypeOK /\ [Next]_vars => (direct' = direct \/ direct' # 0)
<1> SUFFICES ASSUME TypeOK, [Next]_vars PROVE direct' = direct \/ direct' # 0
  OBVIOUS
<1>1. ASSUME NEW w \in Workers, NEW k \in Kinds, CallDirectly(w, k) PROVE direct' # 0
  BY <1>1, AlarmAssumption DEF CallDirectly, TypeOK
<1> QED
  BY <1>1, StepIsAtWork DEF Next, vars, Enqueue, JobDone, JobTimeout, TakeJob, Start,
     StartByException, StartAll, StartClean, Age, Expire, counters

\* With one queue and no direct calls, one worker at a time.
LEMMA StepAtWork == TypeInv /\ AtWork /\ [Next]_vars => AtWork'
<1> SUFFICES ASSUME TypeInv, AtWork, [Next]_vars, Orderly',
                    NEW w \in Workers, proc'[w].pc # "idle"
             PROVE  \E q \in Queues : current'[q] = w
  BY DEF AtWork
<1>t. TypeOK /\ w \in Procs /\ proc \in [Procs -> Frame] /\ current \in [Queues -> Workers \cup {None}]
  BY DEF TypeInv, TypeOK, Procs
<1>o. Orderly /\ direct' = 0
  BY <1>t, DirectStays DEF Orderly
<1>w. ASSUME proc[w].pc # "idle" PROVE \E q \in Queues : current[q] = w
  BY <1>w, <1>o DEF AtWork
<1>m. ASSUME NEW x \in Procs, Moves(x) PROVE proc'[w] = proc[w] \/ w = x
  BY <1>m, <1>t, MoveKeepsGood
<1>1. ASSUME NEW x \in Procs, (CreateStep(x) /\ x \in Workers) \/ OpStep(x)
      PROVE  \E q \in Queues : current'[q] = w
  <2>1. Moves(x)
    BY <1>1, CreateMoves, OpMoves
  <2> QED
    BY <1>1, <1>m, <1>w, <2>1, StepIsAtWork DEF At
<1>2. ASSUME NEW x \in Apps, \/ \E a \in Aids : Start(x, a)
                             \/ \E r \in RuleIds : StartByException(x, r)
                             \/ StartAll(x) \/ StartClean(x)
      PROVE  \E q \in Queues : current'[q] = w
  <2>1. x \in Procs /\ x # w
    BY <1>2, AlarmAssumption DEF Procs
  <2>2. Moves(x) /\ UNCHANGED current
    BY <1>2, <2>1, StartMoves DEF OwnStep
  <2> QED
    BY <1>m, <1>w, <2>1, <2>2
<1>3. ASSUME NEW q \in Queues, JobDone(q) PROVE \E p \in Queues : current'[p] = w
  <2>1. proc' = proc /\ current' = [current EXCEPT ![q] = None] /\ proc[current[q]].pc = "idle"
    BY <1>3 DEF JobDone, At
  <2>2. PICK p \in Queues : current[p] = w
    BY <1>w, <2>1
  <2>3. p # q
    BY <2>1, <2>2
  <2> QED
    BY <1>t, <2>1, <2>2, <2>3
<1>4. ASSUME NEW q \in Queues, JobTimeout(q) PROVE \E p \in Queues : current'[p] = w
  <2> DEFINE c == current[q]
  <2>1. c \in Procs /\ proc[c].pc = "hung"
    BY <1>4, <1>o, <1>t DEF JobTimeout, At, Orderly, Procs
  <2>2. proc' = [proc EXCEPT ![c] = IF @.pc = "hung" THEN Idle ELSE @]
    BY <1>4 DEF JobTimeout
  <2>3. current' = [current EXCEPT ![q] = None]
    BY <1>4 DEF JobTimeout
  <2> HIDE DEF c
  <2>4. /\ proc'[c] = IF proc[c].pc = "hung" THEN Idle ELSE proc[c]
        /\ \A y \in Procs \ {c} : proc'[y] = proc[y]
    BY <1>t, <2>1, <2>2
  <2>5. proc'[c] = Idle /\ \A y \in Procs \ {c} : proc'[y] = proc[y]
    BY <2>1, <2>4
  <2>6. w # c
    <3>1. Idle.pc = "idle"
      BY DEF Idle
    <3> QED
      BY <2>5, <3>1
  <2>7. proc'[w] = proc[w]
    BY <1>t, <2>5, <2>6
  <2>8. PICK p \in Queues : current[p] = w
    BY <1>w, <2>7
  <2> QED
    BY <1>t, <2>3, <2>6, <2>8 DEF c
<1>5. ASSUME NEW q \in Queues, NEW v \in Workers, TakeJob(q, v) PROVE \E p \in Queues : current'[p] = w
  <2>1. current[q] = None /\ current' = [current EXCEPT ![q] = v] /\ None \notin Workers
    BY <1>5, AlarmAssumption DEF TakeJob
  <2>2. CASE w = v
    BY <1>t, <2>1, <2>2
  <2>3. CASE w # v
    <3>1. proc'[w] = proc[w]
      BY <1>5, <1>t, <2>3 DEF TakeJob, Goto
    <3>2. PICK p \in Queues : current[p] = w
      BY <1>w, <3>1
    <3> QED
      BY <1>t, <2>1, <3>2
  <2> QED
    BY <2>2, <2>3
<1>6. ASSUME UNCHANGED <<proc, current>> PROVE \E p \in Queues : current'[p] = w
  BY <1>6, <1>w
<1>7. ASSUME NEW v \in Workers, NEW k \in Kinds, CallDirectly(v, k) PROVE FALSE
  BY <1>7, <1>t, <1>o, AlarmAssumption DEF CallDirectly, TypeOK, Orderly
<1> QED
  BY <1>1, <1>2, <1>3, <1>4, <1>5, <1>6, <1>7 DEF Next, vars, Enqueue, Age, Expire, Procs

LEMMA InitIInv == Init => IInv
<1> SUFFICES ASSUME Init PROVE IInv
  OBVIOUS
<1>1. TypeInv
  BY InitTypeInv
<1>a. AtWork
  BY DEF Init, AtWork, Idle, Procs
<1>2. UsedInv
  <2>1. \A x \in Procs : proc[x].pc = "idle" /\ Known(proc[x]) = {0} /\ proc[x].op = ""
    BY IdleIsGood DEF Init, Idle
  <2>2. active = {} /\ archive = {} /\ id = firstId
    BY DEF Init
  <2>3. id \in Nat
    BY <1>1, IdIsNumber DEF TypeInv
  <2>4. KnownIsOld
    <3>1. firstId # 0 => id # 0
      BY <2>2
    <3>2. ASSUME NEW x \in Procs, NEW a \in Known(proc[x]) PROVE a <= id
      <4>1. Known(proc[x]) = {0}
        BY <2>1
      <4>2. a = 0
        BY <4>1
      <4> QED
        BY <2>3, <4>2
    <3> QED
      BY <2>2, <3>1, <3>2 DEF KnownIsOld, Init
  <2> QED
    BY <2>1, <2>2, <2>4
       DEF UsedInv, NewIsPrivate, RecordsFirst, HandledIsTaken, Private
<1> QED
  BY <1>1, <1>a, <1>2 DEF IInv

LEMMA StepIInv == IInv /\ [Next]_vars => IInv'
<1> SUFFICES ASSUME IInv, [Next]_vars PROVE IInv'
  OBVIOUS
<1>1. TypeInv /\ TypeInv'
  BY StepTypeInv DEF IInv
<1>a. AtWork'
  BY <1>1, StepAtWork DEF IInv
<1>2. ASSUME Once' PROVE UsedInv'
  <2>1. firstId' = firstId
    <3>1. ASSUME NEW w \in Workers, CreateStep(w) PROVE firstId' = firstId
      BY <1>1, <3>1, CreateMoves DEF OwnStep
    <3>2. ASSUME NEW x \in Procs, OpStep(x) PROVE firstId' = firstId
      BY <1>1, <3>2, OpMoves DEF OwnStep
    <3>3. ASSUME NEW x \in Apps, \/ \E a \in Aids : Start(x, a)
                                 \/ \E r \in RuleIds : StartByException(x, r)
                                 \/ StartAll(x) \/ StartClean(x)
          PROVE  firstId' = firstId
      BY <1>1, <3>3, StartMoves DEF OwnStep
    <3>4. ASSUME NEW a \in Aids, Expire(a) PROVE firstId' = firstId
      BY <3>4 DEF Expire
    <3> QED
      BY <1>1, <3>1, <3>2, <3>3, <3>4, QueueMoves DEF Next
  <2>2. Once
    BY <1>1, <1>2, <2>1, DirectStays DEF Once, Orderly, TypeInv
  <2>3. ASSUME NEW w \in Workers, CreateStep(w) PROVE UsedInv'
    BY <1>1, <2>2, <2>3, CreateKeeps
  <2>4. ASSUME NEW x \in Procs, OpStep(x) PROVE UsedInv'
    BY <1>1, <2>2, <2>4, OpUnlists, UnlistingKeeps
  <2>5. ASSUME NEW x \in Apps, \/ \E a \in Aids : Start(x, a)
                               \/ \E r \in RuleIds : StartByException(x, r)
                               \/ StartAll(x) \/ StartClean(x)
        PROVE  UsedInv'
    BY <1>1, <2>2, <2>5, StartUnlists, UnlistingKeeps DEF Procs
  <2>6. ASSUME UNCHANGED <<alarms, lists, id, rules, firstId, expired>>, recent' \subseteq recent,
               \A x \in Procs : proc'[x] = proc[x] \/ Begins(proc[x], proc'[x])
        PROVE  UsedInv'
    <3>1. \A x \in Procs : Begins(proc[x], proc'[x]) => Quiet(proc[x], proc'[x])
      BY DEF Begins, Quiet, Leaving, Private
    <3> QED
      BY <1>1, <2>2, <2>6, <3>1, QuietKeeps DEF lists
  <2>7. ASSUME NEW a \in Aids, Expire(a) PROVE UsedInv'
    BY <1>1, <2>2, <2>7, ExpireKeeps
  <2> QED
    BY <1>1, <2>3, <2>4, <2>5, <2>6, <2>7, QueueMoves DEF Next
<1> QED
  BY <1>1, <1>a, <1>2 DEF IInv

\* Everything in redis, in the queues and in the frames of the processes is of
\* its type, whatever is under way.
THEOREM TypesAreKept == Spec => []TypeOK
<1>1. TypeInv => TypeOK
  BY DEF TypeInv
<1> QED
  BY <1>1, InitTypeInv, StepTypeInv, PTL DEF Spec

\* No alarm is active and archived at once: addToActiveQueue lists an id that
\* nobody has archived yet, and archiveAlarm is one transaction.
THEOREM AlarmsAreInOneList == Spec => []OneList
<1>1. IInv => OneList
  BY DEF IInv, UsedInv, Once, OneList
<1> QED
  BY <1>1, InitIInv, StepIInv, PTL DEF Spec

\* The app can load every alarm of the active list until its record expires,
\* however creations, operations, deletions and the cleaning of what has
\* expired overlap.
THEOREM ActiveAlarmsAreLoadable == Spec => []ActiveIsLoadable
<1>1. IInv => ActiveIsLoadable
  BY DEF IInv, UsedInv, RecordsFirst, Present, Once, ActiveIsLoadable
<1> QED
  BY <1>1, InitIInv, StepIInv, PTL DEF Spec

\* An alarm that was blocked, allowed or archived by the user leaves the active
\* list, also when several operations handle it at once.
THEOREM HandledAlarmsLeave == Spec => []HandledLeaves
<1>1. IInv => HandledLeaves
  <2> SUFFICES ASSUME IInv, firstId # 0, NothingUnderWay, NEW a \in active,
                      alarms[a] # None, Stale(alarms[a])
               PROVE  FALSE
    BY DEF HandledLeaves, Stale
  <2>1. PICK x \in Procs : Takes(proc[x], a)
    BY DEF IInv, UsedInv, Once, HandledIsTaken
  <2>2. proc[x].pc \in Leaving /\ Good(x, proc[x])
    BY <2>1 DEF Takes, IInv, TypeInv
  <2>3. proc[x].op # "create"
    BY <2>2 DEF Good, Leaving
  <2> QED
    BY <2>2, <2>3 DEF NothingUnderWay, At, Leaving
<1> QED
  BY <1>1, InitIInv, StepIInv, PTL DEF Spec
-----------------------------------------------------------------------------
(* Duplicates *)

\* What an alarm is about is said in its record and in the frames that have
\* loaded it, the same everywhere.
About(kind, f) ==
    /\ f.aid # 0 /\ f.alarm # None => f.alarm.kind = kind[f.aid]
    /\ \A t \in f.todo : t[2] # None => t[2].kind = kind[t[1]]
    /\ f.pc \in {"updateNext", "archiveNext"} => \A t \in f.todo : t[2].kind = f.alarm.kind

RecordsAbout(kind) == \A a \in Aids : alarms[a] # None => alarms[a].kind = kind[a]
Agree(kind) == RecordsAbout(kind) /\ \A x \in Procs : About(kind, proc[x])

\* A creation that has found no duplicate finds none until its alarm is listed.
Distinct(kind) ==
    /\ \A a, b \in active \cap recent : a # b => kind[a] # kind[b]
    /\ \A x \in Procs : proc[x].pc \in Creating \ {"dedup"} =>
          \A a \in active \cap recent : kind[a] # proc[x].alarm.kind

DupInv == Orderly => \E kind \in [Aids -> Kinds \cup {None}] : Agree(kind) /\ Distinct(kind)

LEMMA IdleIsAboutNothing ==
  \A kind : /\ About(kind, Idle) /\ About(kind, [Idle EXCEPT !.pc = "hung"])
            /\ \A k \in Kinds : About(kind, Creation(k))
BY DEF About, Idle, Creation

LEMMA HandledIsAbout ==
  ASSUME NEW f, NEW alarm \in Alarm
  PROVE  Handled(f, alarm).kind = alarm.kind
BY DEF Handled, Alarm

LEMMA LikeIsAbout ==
  ASSUME TypeOK, NEW kind, RecordsAbout(kind), NEW k, NEW t \in Like(k)
  PROVE  t[1] \in Aids /\ t[2] \in Alarm /\ t[2].kind = k /\ k = kind[t[1]]
<1>1. PICK a \in active : alarms[a] # None /\ alarms[a].kind = k /\ t = <<a, alarms[a]>>
  BY DEF Like
<1>2. a \in Aids
  BY DEF TypeOK
<1> QED
  BY <1>1, <1>2, NoneIsNoAlarm DEF RecordsAbout

\* A process that goes to a frame about the same kinds.
LEMMA GotoAgrees ==
  ASSUME TypeInv, NEW x \in Procs, NEW kind, Agree(kind), RecordsAbout(kind)',
         NEW g, Goto(x, g), About(kind, g)
  PROVE  Agree(kind)'
<1>1. proc'[x] = g /\ \A y \in Procs \ {x} : proc'[y] = proc[y]
  BY GotoIs
<1>2. \A y \in Procs : About(kind, proc'[y])
  BY <1>1 DEF Agree
<1> QED
  BY <1>2 DEF Agree, About

LEMMA OpAgrees ==
  ASSUME TypeInv, NEW x \in Procs, OpStep(x), NEW kind, Agree(kind)
  PROVE  Agree(kind)'
<1> DEFINE f == proc[x]
<1>t. Good(x, f) /\ f \in Frame /\ TypeOK /\ f.todo \in SUBSET (Aids \X (Alarm \cup {None}))
  BY DEF TypeInv, Good, Frame
<1>a. RecordsAbout(kind) /\ About(kind, f)
  BY DEF Agree
<1>i. About(kind, Idle)
  BY IdleIsAboutNothing
<1>0. \A a \in Aids : a # 0
  BY AidsAreIds
<1> HIDE DEF f
<1>u. UNCHANGED alarms => RecordsAbout(kind)'
  BY <1>a DEF RecordsAbout
<1>w. ASSUME NEW aid \in Aids, NEW alarm, alarm = None \/ alarm.kind = kind[aid],
             alarms' = [alarms EXCEPT ![aid] = alarm]
      PROVE  RecordsAbout(kind)'
  <2>1. \A a \in Aids : alarms'[a] = IF a = aid THEN alarm ELSE alarms[a]
    BY <1>t, <1>w DEF TypeOK
  <2> QED
    BY <1>a, <1>w, <2>1 DEF RecordsAbout
<1>d. alarms' = Deleted(f.todo) => RecordsAbout(kind)'
  BY <1>a DEF RecordsAbout, Deleted
<1>1. CASE Load(x)
  <2>1. UNCHANGED alarms /\ f.aid \in Aids
    BY <1>1, <1>t DEF Load, At, f, Good
  <2>2. CASE alarms[f.aid] = None
    BY <1>1, <1>i, <1>u, <2>1, <2>2, GotoAgrees DEF Load, f
  <2>3. CASE alarms[f.aid] # None
    <3>1. PICK next \in AfterLoad(f.op) : Goto(x, [f EXCEPT !.pc = next, !.alarm = alarms[f.aid]])
      BY <1>1, <2>3 DEF Load, f
    <3>2. next \in {"same", "archive", "related", "delete"}
      BY <1>1, <1>t DEF AfterLoad, Good, Load, At, f
    <3>3. alarms[f.aid].kind = kind[f.aid]
      BY <1>a, <2>1, <2>3 DEF RecordsAbout
    <3>4. About(kind, [f EXCEPT !.pc = next, !.alarm = alarms[f.aid]])
      BY <1>t, <1>a, <3>2, <3>3 DEF About, Frame
    <3> QED
      BY <1>u, <2>1, <3>1, <3>4, GotoAgrees
  <2> QED
    BY <2>2, <2>3
<1>2. CASE FindSame(x)
  <2>1. PICK g : Goto(x, g) /\ \/ g = [f EXCEPT !.pc = "save"]
                               \/ \E r \in RuleIds : g = [f EXCEPT !.pc = "update", !.rule = r]
    BY <1>2 DEF FindSame, f
  <2>2. About(kind, g)
    BY <1>t, <1>a, <2>1 DEF About, Frame
  <2> QED
    BY <1>2, <1>u, <2>1, <2>2, GotoAgrees DEF FindSame
<1>3. CASE SaveRule(x)
  <2>1. PICK r \in RuleIds : Goto(x, [f EXCEPT !.pc = "update", !.rule = r])
    BY <1>3 DEF SaveRule, f
  <2>2. About(kind, [f EXCEPT !.pc = "update", !.rule = r])
    BY <1>t, <1>a DEF About, Frame
  <2> QED
    BY <1>3, <1>u, <2>1, <2>2, GotoAgrees DEF SaveRule
<1>4. CASE Update(x)
  <2> DEFINE alarm == Handled(f, f.alarm)
             next == IF Kept(f, alarm) THEN "similar" ELSE "archive"
             g == [f EXCEPT !.alarm = alarm, !.pc = next]
  <2>1. f.aid \in Aids /\ f.alarm \in Alarm /\ f.alarm # None
    BY <1>4, <1>t, NoneAssumption DEF Update, At, f, Good
  <2>2. alarm.kind = kind[f.aid]
    BY <1>a, <1>0, <2>1, HandledIsAbout DEF About
  <2>3. Goto(x, g) /\ alarms' = [alarms EXCEPT ![f.aid] = alarm]
    BY <1>4 DEF Update, f
  <2>4. next \in {"similar", "archive"}
    OBVIOUS
  <2> HIDE DEF alarm, next
  <2>5. About(kind, g)
    BY <1>t, <1>a, <2>2, <2>4 DEF About, Frame
  <2> HIDE DEF g
  <2> QED
    BY <1>w, <2>1, <2>2, <2>3, <2>5, GotoAgrees
<1>5. CASE Archive(x)
  <2>1. PICK g \in {Idle, [f EXCEPT !.pc = "similar"]} : Goto(x, g)
    BY <1>5 DEF Archive, f
  <2>2. About(kind, [f EXCEPT !.pc = "similar"])
    BY <1>t, <1>a DEF About, Frame
  <2> QED
    BY <1>5, <1>u, <1>i, <2>1, <2>2, GotoAgrees DEF Archive
<1>6. CASE FindRelated(x)
  <2> DEFINE like == Like(f.alarm.kind)
  <2>1. Goto(x, [f EXCEPT !.pc = "archiveRelated", !.todo = like])
    BY <1>6 DEF FindRelated, f
  <2>2. \A t \in like : t[2].kind = kind[t[1]]
    BY <1>t, <1>a, LikeIsAbout
  <2> HIDE DEF like
  <2>3. About(kind, [f EXCEPT !.pc = "archiveRelated", !.todo = like])
    BY <1>t, <1>a, <2>2 DEF About, Frame
  <2> QED
    BY <1>6, <1>u, <2>1, <2>3, GotoAgrees DEF FindRelated
<1>7. CASE ArchiveRelated(x)
  <2>1. UNCHANGED alarms /\ f.pc = "archiveRelated"
    BY <1>7 DEF ArchiveRelated, At, f
  <2>2. PICK g : Goto(x, g) /\ \/ g = Idle
                               \/ \E t \in f.todo : g = [f EXCEPT !.todo = @ \ {t}]
    BY <1>7 DEF ArchiveRelated, f
  <2>3. About(kind, g)
    BY <1>t, <1>a, <1>i, <2>1, <2>2 DEF About, Frame
  <2> QED
    BY <1>u, <2>1, <2>2, <2>3, GotoAgrees
<1>8. CASE FindSimilar(x)
  <2> DEFINE similar == {t \in Like(f.alarm.kind) : t[1] # f.aid /\ t[2].result = ""}
  <2>1. Goto(x, [f EXCEPT !.pc = "updateNext", !.todo = similar])
    BY <1>8 DEF FindSimilar, f
  <2>4. \A t \in Like(f.alarm.kind) : t[2].kind = kind[t[1]] /\ t[2].kind = f.alarm.kind
    BY <1>t, <1>a, LikeIsAbout
  <2>2. \A t \in similar : t[2].kind = kind[t[1]] /\ t[2].kind = f.alarm.kind
    BY <2>4
  <2> HIDE DEF similar
  <2>3. About(kind, [f EXCEPT !.pc = "updateNext", !.todo = similar])
    BY <1>t, <1>a, <2>2 DEF About, Frame
  <2> QED
    BY <1>8, <1>u, <2>1, <2>3, GotoAgrees DEF FindSimilar
<1>9. CASE UpdateNext(x)
  <2>1. f.pc = "updateNext" /\ f.alarm \in Alarm /\ \A t \in f.todo : t[2] \in Alarm
    BY <1>9, <1>t DEF UpdateNext, At, f, Good
  <2>2. CASE f.todo = {}
    BY <1>9, <1>i, <1>u, <2>2, GotoAgrees DEF UpdateNext, f
  <2>3. CASE f.todo # {}
    <3>1. PICK t \in f.todo :
             /\ alarms' = [alarms EXCEPT ![t[1]] = Handled(f, t[2])]
             /\ Goto(x, [f EXCEPT !.pc = "archiveNext", !.aid = t[1], !.todo = @ \ {t}])
      BY <1>9, <2>3 DEF UpdateNext, f
    <3>2. t[1] \in Aids /\ t[2] \in Alarm /\ t[2] # None
      BY <1>t, <2>1, NoneAssumption
    <3>3. t[2].kind = kind[t[1]] /\ t[2].kind = f.alarm.kind
      BY <1>a, <2>1, <3>2 DEF About
    <3>4. Handled(f, t[2]).kind = kind[t[1]]
      BY <3>2, <3>3, HandledIsAbout
    <3>5. About(kind, [f EXCEPT !.pc = "archiveNext", !.aid = t[1], !.todo = @ \ {t}])
      BY <1>t, <1>a, <2>1, <3>3 DEF About, Frame
    <3> QED
      BY <1>w, <3>1, <3>2, <3>4, <3>5, GotoAgrees
  <2> QED
    BY <2>2, <2>3
<1>10. CASE ArchiveNext(x)
  <2>1. f.pc = "archiveNext" /\ Goto(x, [f EXCEPT !.pc = "updateNext"])
    BY <1>10 DEF ArchiveNext, At, f
  <2>2. About(kind, [f EXCEPT !.pc = "updateNext"])
    BY <1>t, <1>a, <2>1 DEF About, Frame
  <2> QED
    BY <1>10, <1>u, <2>1, <2>2, GotoAgrees DEF ArchiveNext
<1>11. CASE DeleteRule(x)
  <2>1. Goto(x, [f EXCEPT !.pc = "clear"])
    BY <1>11 DEF DeleteRule, f
  <2>2. About(kind, [f EXCEPT !.pc = "clear"])
    BY <1>t, <1>a DEF About, Frame
  <2> QED
    BY <1>11, <1>u, <2>1, <2>2, GotoAgrees DEF DeleteRule
<1>12. CASE Clear(x)
  <2> DEFINE alarm == [f.alarm EXCEPT !.result = "", !.policy = 0,
                                      !.auto = IF f.op = "unblock" THEN FALSE ELSE @]
  <2>1. f.aid \in Aids /\ f.alarm \in Alarm /\ f.alarm # None
    BY <1>12, <1>t, NoneAssumption DEF Clear, At, f, Good
  <2>2. alarm.kind = kind[f.aid]
    BY <1>a, <1>0, <2>1 DEF About, Alarm
  <2>3. alarms' = [alarms EXCEPT ![f.aid] = alarm] /\ Goto(x, Idle)
    BY <1>12 DEF Clear, f
  <2> HIDE DEF alarm
  <2> QED
    BY <1>w, <1>i, <2>1, <2>2, <2>3, GotoAgrees
<1>13. CASE RemoveArchived(x)
  <2>1. Goto(x, [f EXCEPT !.pc = "removeActive"])
    BY <1>13 DEF RemoveArchived, f
  <2>2. About(kind, [f EXCEPT !.pc = "removeActive"])
    BY <1>t, <1>a DEF About, Frame
  <2> QED
    BY <1>13, <1>u, <2>1, <2>2, GotoAgrees DEF RemoveArchived
<1>14. CASE RemoveActive(x)
  <2>1. Goto(x, [f EXCEPT !.pc = "del"])
    BY <1>14 DEF RemoveActive, f
  <2>2. About(kind, [f EXCEPT !.pc = "del"])
    BY <1>t, <1>a DEF About, Frame
  <2> QED
    BY <1>14, <1>u, <2>1, <2>2, GotoAgrees DEF RemoveActive
<1>15. CASE RemoveRecord(x)
  <2>1. f.aid \in Aids /\ alarms' = [alarms EXCEPT ![f.aid] = None] /\ Goto(x, Idle)
    BY <1>15, <1>t DEF RemoveRecord, At, f, Good
  <2> QED
    BY <1>w, <1>i, <2>1, GotoAgrees
<1>16. CASE UnlistHost(x)
  <2>1. Goto(x, [f EXCEPT !.pc = "delHost"])
    BY <1>16 DEF UnlistHost, f
  <2>2. About(kind, [f EXCEPT !.pc = "delHost"])
    BY <1>t, <1>a DEF About, Frame
  <2> QED
    BY <1>16, <1>u, <2>1, <2>2, GotoAgrees DEF UnlistHost
<1>17. CASE DeleteHost(x)
  BY <1>17, <1>d, <1>i, GotoAgrees DEF DeleteHost, f
<1>18. CASE OnAll(x)
  <2>1. Goto(x, Idle) /\ (UNCHANGED alarms \/ alarms' = Deleted(f.todo))
    BY <1>18 DEF OnAll, f
  <2> QED
    BY <1>d, <1>u, <1>i, <2>1, GotoAgrees
<1>19. CASE UnlistDead(x)
  <2>1. Goto(x, [f EXCEPT !.pc = "zremDeadArchived"])
    BY <1>19 DEF UnlistDead, f
  <2>2. About(kind, [f EXCEPT !.pc = "zremDeadArchived"])
    BY <1>t, <1>a DEF About, Frame
  <2> QED
    BY <1>19, <1>u, <2>1, <2>2, GotoAgrees DEF UnlistDead
<1>20. CASE UnlistDeadArchived(x)
  BY <1>20, <1>u, <1>i, GotoAgrees DEF UnlistDeadArchived
<1> QED
  BY <1>1, <1>2, <1>3, <1>4, <1>5, <1>6, <1>7, <1>8, <1>9, <1>10, <1>11, <1>12, <1>13,
     <1>14, <1>15, <1>16, <1>17, <1>18, <1>19, <1>20 DEF OpStep

LEMMA StartAgrees ==
  ASSUME TypeInv, NEW x \in Apps, NEW kind, Agree(kind),
         \/ \E a \in Aids : Start(x, a)
         \/ \E r \in RuleIds : StartByException(x, r)
         \/ StartAll(x) \/ StartClean(x)
  PROVE  Agree(kind)' /\ UNCHANGED <<alarms, lists, recent>> /\ proc'[x].pc \notin Creating
<1>t. x \in Procs /\ TypeOK /\ RecordsAbout(kind)
  BY DEF TypeInv, Procs, Agree
<1>u. UNCHANGED <<alarms, lists, recent>>
  BY DEF Start, StartByException, StartAll, StartClean
<1>r. RecordsAbout(kind)'
  BY <1>t, <1>u DEF RecordsAbout
<1>1. ASSUME NEW a \in Aids, Start(x, a) PROVE Agree(kind)' /\ proc'[x].pc \notin Creating
  <2> DEFINE like == Like(alarms[a].kind)
  <2>1. PICK g : Goto(x, g) /\
           \/ \E op \in {"block", "allow", "ignore", "unblock", "unallow"} :
                 g = [Idle EXCEPT !.pc = "load", !.op = op, !.aid = a]
           \/ g = [Idle EXCEPT !.pc = "remove", !.op = "remove", !.aid = a]
           \/ g = [Idle EXCEPT !.pc = "zremHost", !.op = "deleteHost", !.todo = like]
    BY <1>1 DEF Start
  <2>2. \A t \in like : t[2].kind = kind[t[1]]
    <3> SUFFICES ASSUME NEW t \in like PROVE t[2].kind = kind[t[1]]
      OBVIOUS
    <3> QED
      BY <1>t, LikeIsAbout
  <2> HIDE DEF like
  <2>3. About(kind, g) /\ g.pc \notin Creating
    BY <2>1, <2>2 DEF About, Idle, Creating
  <2> QED
    BY <1>t, <1>r, <2>1, <2>3, GotoAgrees, GotoIs
<1>2. ASSUME NEW r \in RuleIds, StartByException(x, r) PROVE Agree(kind)' /\ proc'[x].pc \notin Creating
  <2> DEFINE g == [Idle EXCEPT !.pc = "similar", !.op = "archiveByException", !.rule = r,
                               !.alarm = Fresh(rules[r].kind)]
  <2>1. Goto(x, g)
    BY <1>2 DEF StartByException
  <2>2. About(kind, g) /\ g.pc \notin Creating
    BY DEF About, Idle, Creating
  <2> HIDE DEF g
  <2> QED
    BY <1>t, <1>r, <2>1, <2>2, GotoAgrees, GotoIs
<1>3. CASE StartAll(x)
  <2>1. PICK op, list : Goto(x, [Idle EXCEPT !.pc = "all", !.op = op, !.todo = list \X {None}])
    BY <1>3 DEF StartAll
  <2> DEFINE g == [Idle EXCEPT !.pc = "all", !.op = op, !.todo = list \X {None}]
  <2>2. About(kind, g) /\ g.pc \notin Creating
    BY DEF About, Idle, Creating
  <2>3. Goto(x, g)
    BY <2>1
  <2> HIDE DEF g
  <2>4. Agree(kind)'
    BY <1>t, <1>r, <2>2, <2>3, GotoAgrees
  <2>5. proc'[x] = g
    BY <1>t, <2>3, GotoIs
  <2> QED
    BY <1>u, <2>2, <2>4, <2>5
<1>4. CASE StartClean(x)
  <2> DEFINE dead == {a \in active \cup archive : alarms[a] = None} \X {None}
  <2>1. PICK g : /\ Goto(x, g)
                 /\ g = [Idle EXCEPT !.pc = "zremDead", !.op = "cleanIndex", !.todo = dead]
    BY <1>4 DEF StartClean
  <2>2. \A t \in dead : t[2] = None
    OBVIOUS
  <2> HIDE DEF dead
  <2>3. About(kind, g) /\ g.pc \notin Creating
    BY <2>1, <2>2 DEF About, Idle, Creating
  <2> QED
    BY <1>t, <1>r, <1>u, <2>1, <2>3, GotoAgrees, GotoIs
<1> QED
  BY <1>1, <1>2, <1>3, <1>4, <1>u

\* A creation that has looked for duplicates.
Looked(f) == f.pc \in Creating \ {"dedup"}

\* As long as no alarm is listed and nobody looks, alarms stay distinct.
LEMMA StaysDistinct ==
  ASSUME NEW kind, Distinct(kind), active' \subseteq active, recent' \subseteq recent,
         \A x \in Procs : Looked(proc'[x]) => Looked(proc[x]) /\ proc'[x].alarm = proc[x].alarm
  PROVE  Distinct(kind)'
BY DEF Distinct, Looked

LEMMA CreateDistinct ==
  ASSUME IInv, Orderly, NEW w \in Workers, CreateStep(w),
         NEW kind \in [Aids -> Kinds \cup {None}], Agree(kind), Distinct(kind)
  PROVE  \E k \in [Aids -> Kinds \cup {None}] : Agree(k)' /\ Distinct(k)'
<1> DEFINE f == proc[w]
<1>t. /\ w \in Procs /\ TypeInv /\ TypeOK /\ UsedInv /\ id \in Nat /\ Good(w, f) /\ f \in Frame
      /\ RecordsAbout(kind) /\ About(kind, f)
  BY IdIsNumber DEF IInv, Once, TypeInv, Procs, Good, Agree
<1>n. NewIsPrivate /\ KnownIsOld /\ RecordsFirst
  BY <1>t DEF UsedInv
<1>o. ASSUME NEW y \in Procs \ {w} PROVE f.pc \in Creating => proc[y].pc \notin Creating
  <2> SUFFICES ASSUME f.pc \in Creating, proc[y].pc \in Creating PROVE FALSE
    OBVIOUS
  <2>1. Good(y, proc[y])
    BY <1>t DEF TypeInv
  <2>2. y \in Workers /\ proc[y].pc # "idle" /\ f.pc # "idle"
    BY <2>1 DEF Good, Creating
  <2> QED
    BY <2>2, OneAtWork DEF IInv
<1>i. About(kind, Idle) /\ Idle.pc = "idle"
  BY IdleIsAboutNothing DEF Idle
<1> HIDE DEF f
\* On to a frame with the same alarm, or to none.
<1>q. ASSUME UNCHANGED <<alarms, lists, recent>>, Looked(f), NEW g, Goto(w, g),
             g = Idle \/ \E pc \in Creating \ {"dedup"} : g = [f EXCEPT !.pc = pc]
      PROVE  Agree(kind)' /\ Distinct(kind)'
  <2>1. About(kind, g) /\ (Looked(g) => g.alarm = f.alarm)
    BY <1>q, <1>t, <1>i DEF About, Frame, Looked, Creating
  <2>2. RecordsAbout(kind)'
    BY <1>q, <1>t DEF RecordsAbout
  <2>3. Agree(kind)'
    BY <1>q, <1>t, <2>1, <2>2, GotoAgrees
  <2>4. proc'[w] = g /\ \A y \in Procs \ {w} : proc'[y] = proc[y]
    BY <1>q, <1>t, GotoIs
  <2>5. Distinct(kind)'
    BY <1>q, <2>1, <2>4, StaysDistinct DEF lists, f
  <2> QED
    BY <2>3, <2>5
<1>1. CASE Dedup(w)
  <2>1. f.pc = "dedup" /\ UNCHANGED <<alarms, lists, recent>> /\ f.alarm.kind = proc[w].alarm.kind
    BY <1>1 DEF Dedup, At, f
  <2>2. RecordsAbout(kind)'
    BY <1>t, <2>1 DEF RecordsAbout
  <2>3. CASE IsDup(f.alarm.kind)
    <3>1. Goto(w, Idle)
      BY <1>1, <2>3 DEF Dedup, f
    <3>2. proc'[w] = Idle /\ \A y \in Procs \ {w} : proc'[y] = proc[y]
      BY <1>t, <3>1, GotoIs
    <3>3. Distinct(kind)'
      BY <1>i, <2>1, <3>2, StaysDistinct DEF Looked, Creating, lists
    <3> QED
      BY <1>t, <1>i, <2>2, <3>1, <3>3, GotoAgrees
  <2>4. CASE ~IsDup(f.alarm.kind)
    <3> DEFINE g == [f EXCEPT !.pc = "exceptions"]
    <3>1. Goto(w, g)
      BY <1>1, <2>4 DEF Dedup, f
    <3>2. proc'[w] = g /\ \A y \in Procs \ {w} : proc'[y] = proc[y]
      BY <1>t, <3>1, GotoIs
    <3>3. About(kind, g) /\ g.alarm = f.alarm
      BY <1>t DEF About, Frame
    <3> HIDE DEF g
    <3>4. \A a \in active \cap recent : kind[a] # f.alarm.kind
      <4> SUFFICES ASSUME NEW a \in active \cap recent, kind[a] = f.alarm.kind PROVE FALSE
        OBVIOUS
      <4>1. a \in Aids /\ alarms[a] # None
        BY <1>t, <1>n DEF TypeOK, RecordsFirst, Present
      <4>2. alarms[a].kind = f.alarm.kind
        BY <1>t, <4>1 DEF RecordsAbout
      <4> QED
        BY <2>4, <4>1, <4>2 DEF IsDup
    <3>5. \A y \in Procs \ {w} : ~Looked(proc[y])
      BY <1>o, <2>1 DEF Looked, Creating
    <3>6. Distinct(kind)'
      BY <2>1, <3>2, <3>3, <3>4, <3>5 DEF Distinct, Looked, lists
    <3> QED
      BY <1>t, <2>2, <3>1, <3>3, <3>6, GotoAgrees
  <2> QED
    BY <2>3, <2>4
<1>2. CASE MatchExceptions(w)
  BY <1>2, <1>q DEF MatchExceptions, At, f, Creating, Looked
<1>3. CASE MatchPolicies(w)
  BY <1>3, <1>q DEF MatchPolicies, At, f, Creating, Looked
<1>4. CASE GetId(w)
  BY <1>4, <1>q DEF GetId, At, f, Creating, Looked
<1>b. ASSUME f.pc \in {"setId", "incrId"}, id + 1 \in Aids,
             Goto(w, [f EXCEPT !.pc = "hmset", !.aid = id + 1]), UNCHANGED <<alarms, lists, recent>>
      PROVE  \E k \in [Aids -> Kinds \cup {None}] : Agree(k)' /\ Distinct(k)'
  <2> DEFINE g == [f EXCEPT !.pc = "hmset", !.aid = id + 1]
  <2>9. f.alarm \in Alarm
    BY <1>b, <1>t, FreshIsAlarm DEF Good, Creating
  <2>1. f.alarm.kind \in Kinds
    BY <2>9 DEF Alarm
  <2>11. PICK k : k = [kind EXCEPT ![id + 1] = f.alarm.kind]
    OBVIOUS
  <2>2. k \in [Aids -> Kinds \cup {None}] /\ k[id + 1] = f.alarm.kind
    BY <1>b, <2>1, <2>11
  <2>3. \A a \in Aids : a <= id => k[a] = kind[a]
    BY <1>t, <2>11, AidsAreIds
  <2>4. proc'[w] = g /\ \A y \in Procs \ {w} : proc'[y] = proc[y]
    BY <1>b, <1>t, GotoIs
  <2>5. g.aid = id + 1 /\ g.alarm = f.alarm /\ g.todo = f.todo /\ g.pc = "hmset"
    BY <1>t DEF Frame
  <2> HIDE DEF g
  <2>6. RecordsAbout(k)'
    BY <1>b, <1>t, <1>n, <2>3 DEF RecordsAbout, KnownIsOld
  <2>7. ASSUME NEW y \in Procs PROVE About(k, proc'[y])
    <3>1. Good(y, proc[y]) /\ About(kind, proc[y])
      BY <1>t DEF TypeInv, Agree
    <3>2. /\ proc[y].aid # 0 => proc[y].aid \in Aids
          /\ \A t \in proc[y].todo : t[1] \in Aids
      BY <3>1 DEF Good, Frame
    <3>3. proc[y].aid <= id /\ \A t \in proc[y].todo : t[1] <= id
      BY <1>n DEF KnownIsOld, Known
    <3>4. About(k, proc[y])
      BY <2>3, <3>1, <3>2, <3>3 DEF About
    <3> QED
      BY <2>2, <2>4, <2>5, <3>4 DEF About, f
  <2>8. Distinct(k)'
    <3>1. \A a \in active \cap recent : k[a] = kind[a]
      BY <1>t, <1>n, <2>3 DEF TypeOK, KnownIsOld
    <3>2. Distinct(k)
      BY <3>1 DEF Distinct
    <3>3. \A x \in Procs : Looked(proc'[x]) => Looked(proc[x]) /\ proc'[x].alarm = proc[x].alarm
      BY <1>b, <2>4, <2>5 DEF Looked, Creating, f
    <3> QED
      BY <1>b, <3>2, <3>3, StaysDistinct DEF lists
  <2> QED
    BY <2>2, <2>6, <2>7, <2>8 DEF Agree
<1>5. CASE SetId(w)
  <2>1. f.pc = "setId" /\ id + 1 = 1
    BY <1>5, <1>t, <1>n DEF SetId, At, RecordsFirst, f
  <2>2. 1 \in Aids
    BY <1>t, FirstIsId DEF TypeOK
  <2> QED
    BY <1>5, <1>b, <2>1, <2>2 DEF SetId, f
<1>6. CASE IncrId(w)
  BY <1>6, <1>b DEF IncrId, At, f
<1>7. CASE Save(w)
  <2> DEFINE g == [f EXCEPT !.pc = "zadd"]
  <2>1. f.pc = "hmset" /\ f.aid \in Aids /\ f.aid # 0 /\ f.alarm \in Alarm /\ f.alarm # None
    BY <1>7, <1>t, FreshIsAlarm, AidsAreIds, NoneAssumption DEF Save, At, f, Good, Creating, Private
  <2>2. \A a \in Aids : alarms'[a] = IF a = f.aid THEN f.alarm ELSE alarms[a]
    BY <1>7, <1>t, <2>1 DEF Save, TypeOK, f
  <2>3. RecordsAbout(kind)'
    BY <1>t, <2>1, <2>2 DEF RecordsAbout, About
  <2>4. Goto(w, g)
    BY <1>7 DEF Save, f
  <2>5. About(kind, g) /\ g.alarm = f.alarm
    BY <1>t DEF About, Frame
  <2>6. proc'[w] = g /\ \A y \in Procs \ {w} : proc'[y] = proc[y]
    BY <1>t, <2>4, GotoIs
  <2> HIDE DEF g
  <2>7. Distinct(kind)'
    BY <1>7, <2>1, <2>5, <2>6, StaysDistinct DEF Save, Looked, Creating, lists, f
  <2> QED
    BY <1>t, <2>3, <2>4, <2>5, <2>7, GotoAgrees
<1>8. CASE AddToActiveQueue(w)
  <2>1. f.pc = "zadd" /\ f.aid \in Aids /\ f.aid # 0 /\ f.alarm # None
    BY <1>8, <1>t, FreshIsAlarm, AidsAreIds, NoneAssumption
       DEF AddToActiveQueue, At, f, Good, Creating, Private
  <2>2. PICK g \in {Idle, [f EXCEPT !.pc = "load", !.op = "block", !.auto = TRUE]} : Goto(w, g)
    BY <1>8 DEF AddToActiveQueue, f
  <2>3. About(kind, g) /\ ~Looked(g)
    BY <1>t, <1>i, <2>2 DEF About, Frame, Looked, Creating
  <2>4. proc'[w] = g /\ \A y \in Procs \ {w} : proc'[y] = proc[y]
    BY <1>t, <2>2, GotoIs
  <2>5. /\ active' = active \cup {f.aid} /\ recent' = recent \cup {f.aid} /\ UNCHANGED alarms
    BY <1>8 DEF AddToActiveQueue, f
  <2>6. RecordsAbout(kind)'
    BY <1>t, <2>5 DEF RecordsAbout
  <2>7. kind[f.aid] = f.alarm.kind
    BY <1>t, <2>1 DEF About
  <2>8. \A a \in active \cap recent : kind[a] # kind[f.aid]
    BY <1>t, <2>1, <2>7 DEF Distinct, Creating, f
  <2>9. \A a \in active' \cap recent' : a = f.aid \/ a \in active \cap recent
    BY <2>5
  <2>10. \A y \in Procs : ~Looked(proc'[y])
    BY <1>o, <2>1, <2>3, <2>4 DEF Looked, Creating
  <2>11. Distinct(kind)'
    BY <2>8, <2>9, <2>10 DEF Distinct, Looked
  <2> QED
    BY <1>t, <2>2, <2>3, <2>6, <2>11, GotoAgrees
<1> QED
  BY <1>1, <1>2, <1>3, <1>4, <1>5, <1>6, <1>7, <1>8 DEF CreateStep

LEMMA InitDupInv == Init => DupInv
<1> SUFFICES ASSUME Init PROVE \E kind \in [Aids -> Kinds \cup {None}] : Agree(kind) /\ Distinct(kind)
  BY DEF DupInv
<1> DEFINE kind == [a \in Aids |-> None]
<1>1. kind \in [Aids -> Kinds \cup {None}]
  OBVIOUS
<1> HIDE DEF kind
<1>2. \A x \in Procs : proc[x] = Idle /\ Idle.pc = "idle"
  BY DEF Init, Idle
<1>3. Agree(kind)
  BY <1>2, IdleIsAboutNothing DEF Init, Agree, RecordsAbout
<1>4. Distinct(kind)
  BY <1>2 DEF Init, Distinct, Creating
<1> QED
  BY <1>1, <1>3, <1>4

LEMMA StepDupInv == IInv /\ DupInv /\ [Next]_vars => DupInv'
<1> SUFFICES ASSUME IInv, DupInv, [Next]_vars, Orderly'
             PROVE  \E kind \in [Aids -> Kinds \cup {None}] : Agree(kind)' /\ Distinct(kind)'
  BY DEF DupInv
<1>t. TypeInv /\ TypeOK /\ UsedInv /\ Orderly /\ Once
  BY DirectStays DEF IInv, TypeInv, Orderly, Once
<1>1. PICK kind \in [Aids -> Kinds \cup {None}] : Agree(kind) /\ Distinct(kind)
  BY <1>t DEF DupInv
<1>2. ASSUME NEW w \in Workers, CreateStep(w)
      PROVE  \E k \in [Aids -> Kinds \cup {None}] : Agree(k)' /\ Distinct(k)'
  BY <1>1, <1>2, <1>t, CreateDistinct
<1>3. ASSUME NEW x \in Procs, OpStep(x) PROVE Agree(kind)' /\ Distinct(kind)'
  <2>1. Unlists(x)
    BY <1>3, <1>t, OpUnlists
  <2>2. recent' = recent
    BY <1>3 DEF OpStep, Load, FindSame, SaveRule, Update, Archive, FindRelated, ArchiveRelated,
              FindSimilar, UpdateNext, ArchiveNext, DeleteRule, Clear, RemoveArchived,
              RemoveActive, RemoveRecord, UnlistHost, DeleteHost, OnAll, UnlistDead,
              UnlistDeadArchived
  <2>3. Distinct(kind)'
    BY <1>1, <2>1, <2>2, StaysDistinct DEF Unlists, Looked
  <2> QED
    BY <1>1, <1>3, <1>t, <2>3, OpAgrees
<1>4. ASSUME NEW x \in Apps, \/ \E a \in Aids : Start(x, a)
                             \/ \E r \in RuleIds : StartByException(x, r)
                             \/ StartAll(x) \/ StartClean(x)
      PROVE  Agree(kind)' /\ Distinct(kind)'
  <2>1. Agree(kind)' /\ UNCHANGED <<alarms, lists, recent>> /\ proc'[x].pc \notin Creating
    BY <1>1, <1>4, <1>t, StartAgrees
  <2>2. \A y \in Procs \ {x} : proc'[y] = proc[y]
    BY <1>4, <1>t, StartUnlists DEF Unlists, IInv
  <2>3. Distinct(kind)'
    BY <1>1, <2>1, <2>2, StaysDistinct DEF Looked, lists
  <2> QED
    BY <2>1, <2>3
<1>5. ASSUME UNCHANGED <<alarms, lists>>, recent' \subseteq recent,
             \A x \in Procs : \/ proc'[x] = proc[x]
                              \/ proc'[x] \in {Idle, [Idle EXCEPT !.pc = "hung"]}
                              \/ \E k \in Kinds : proc'[x] = Creation(k)
      PROVE  Agree(kind)' /\ Distinct(kind)'
  <2>1. \A x \in Procs : About(kind, proc'[x])
    BY <1>1, <1>5, IdleIsAboutNothing DEF Agree
  <2>2. RecordsAbout(kind)'
    BY <1>1, <1>5 DEF Agree, RecordsAbout
  <2>3. /\ ~Looked(Idle) /\ ~Looked([Idle EXCEPT !.pc = "hung"])
        /\ \A k \in Kinds : ~Looked(Creation(k))
    BY DEF Looked, Creating, Idle, Creation
  <2>4. \A x \in Procs : Looked(proc'[x]) => proc'[x] = proc[x]
    BY <1>5, <2>3
  <2>5. Distinct(kind)'
    BY <1>1, <1>5, <2>4, StaysDistinct DEF lists
  <2> QED
    BY <2>1, <2>2, <2>5 DEF Agree, About
<1>g. ASSUME NEW x \in Procs, NEW g, Goto(x, g)
      PROVE  \A y \in Procs : proc'[y] = proc[y] \/ proc'[y] = g
  BY <1>g, <1>t, GotoIs
<1>6. ASSUME NEW q \in Queues, JobTimeout(q) \/ JobDone(q) \/ \E k \in Kinds : Enqueue(q, k)
      PROVE  Agree(kind)' /\ Distinct(kind)'
  <2>1. \A x \in Procs : proc'[x] \in {proc[x], Idle}
    BY <1>6, <1>t DEF JobTimeout, JobDone, Enqueue, TypeOK
  <2> QED
    BY <1>6, <1>5, <2>1 DEF JobTimeout, JobDone, Enqueue, lists
<1>7. ASSUME NEW q \in Queues, NEW w \in Workers, TakeJob(q, w)
      PROVE  Agree(kind)' /\ Distinct(kind)'
  <2>1. w \in Procs /\ Head(queue[q]) \in Kinds
    BY <1>7, <1>t, HeadTailProperties DEF TakeJob, TypeOK, Procs
  <2>2. PICK f \in {Creation(Head(queue[q])), [Idle EXCEPT !.pc = "hung"]} : Goto(w, f)
    BY <1>7 DEF TakeJob
  <2>3. \A y \in Procs : proc'[y] = proc[y] \/ proc'[y] = f
    BY <1>g, <2>1, <2>2
  <2>4. UNCHANGED <<alarms, lists, recent>>
    BY <1>7 DEF TakeJob
  <2> QED
    BY <1>5, <2>1, <2>2, <2>3, <2>4
<1>8. ASSUME NEW w \in Workers, NEW k \in Kinds, CallDirectly(w, k)
      PROVE  Agree(kind)' /\ Distinct(kind)'
  <2>1. Goto(w, Creation(k)) /\ UNCHANGED <<alarms, lists, recent>> /\ w \in Procs
    BY <1>8 DEF CallDirectly, Procs
  <2>2. \A y \in Procs : proc'[y] = proc[y] \/ proc'[y] = Creation(k)
    BY <1>g, <2>1
  <2> QED
    BY <1>5, <2>1, <2>2
<1>9. ASSUME NEW a \in Aids, Age(a) PROVE Agree(kind)' /\ Distinct(kind)'
  BY <1>9, <1>5 DEF Age, lists
<1>10. CASE UNCHANGED vars
  BY <1>10, <1>5 DEF vars, lists
<1>11. ASSUME NEW a \in Aids, Expire(a) PROVE Agree(kind)' /\ Distinct(kind)'
  <2>1. /\ UNCHANGED <<lists, proc>> /\ recent' \subseteq recent
        /\ \A b \in Aids : alarms'[b] = IF b = a THEN None ELSE alarms[b]
    BY <1>t, <1>11, ExpireIs
  <2>2. RecordsAbout(kind)'
    BY <1>1, <2>1 DEF Agree, RecordsAbout
  <2>3. Distinct(kind)'
    BY <1>1, <2>1, StaysDistinct DEF lists
  <2> QED
    BY <1>1, <2>1, <2>2, <2>3 DEF Agree, About
<1> QED
  BY <1>1, <1>2, <1>3, <1>4, <1>6, <1>7, <1>8, <1>9, <1>10, <1>11 DEF Next

\* While one queue creates every alarm, each within the time of its job, no two
\* alarms of a kind are listed in the window of duplicates, on a new box and on
\* a used one, whatever the app does meanwhile.
THEOREM OneQueueMakesNoDuplicates ==
  ASSUME ~Slow, \E q \in Queues : Queues = {q}
  PROVE  Spec => []NoDuplicates
<1>1. IInv /\ DupInv => NoDuplicates
  <2> SUFFICES ASSUME IInv, DupInv, direct = 0,
                      NEW a \in active \cap recent, NEW b \in active \cap recent, a # b
               PROVE  alarms[a].kind # alarms[b].kind
    BY DEF NoDuplicates
  <2>1. Orderly /\ UsedInv /\ TypeOK
    BY DEF Orderly, Once, IInv, TypeInv
  <2>2. PICK kind \in [Aids -> Kinds \cup {None}] : Agree(kind) /\ Distinct(kind)
    BY <2>1 DEF DupInv
  <2>3. a \in Aids /\ b \in Aids /\ alarms[a] # None /\ alarms[b] # None
    BY <2>1 DEF TypeOK, UsedInv, RecordsFirst, Present
  <2> QED
    BY <2>2, <2>3 DEF Agree, RecordsAbout, Distinct
<1> QED
  BY <1>1, InitIInv, StepIInv, InitDupInv, StepDupInv, PTL DEF Spec
=============================================================================

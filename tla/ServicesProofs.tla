--------------------------- MODULE ServicesProofs ----------------------------
(***************************************************************************)
(* Theorems about ModeManager (with the files of spoofing that its tasks   *)
(* and the timeouts of SpoofingConfig and SpoofingService share) and about *)
(* CategoryUpdater, for any modes, networks' reloads, categories, sweeps,  *)
(* recycles, operations and, for the modes, crashes.                       *)
(*                                                                         *)
(* Both are about a client that lets FireMain catch up.  What keeps the    *)
(* mode right is then that one task at most is under way and that nothing  *)
(* is spoofed until its last step (Control); what keeps the service right  *)
(* is that whatever makes it differ from the registered networks leaves a  *)
(* reload to come (Files, Exact); what clears a removed category is that,  *)
(* step by step of the one sweep, FireMain knows a removed category as one *)
(* to flush, and otherwise just the categories that exist (Follows).       *)
(***************************************************************************)
EXTENDS MCServices, TLAPS

(* The mode *)

Pcs == {"idle", "flags", "reset", "stop", "reload", "config", "clean", "start", "started"}
TaskType == [pc : Pcs, mode : Modes, redis : BOOLEAN, boot : BOOLEAN]

ModeTypes ==
    /\ {mode, setupMode, curMode} \subseteq Modes
    /\ {listening, up, bootingComplete, firstBindDone, revert, spoofStarted, registered, configs,
        reloadTask, service} \subseteq BOOLEAN
    /\ task \in [Tasks -> TaskType]
    /\ network \in {"idle", "write", "unlink"}
    /\ reload \in [Reloads -> {"idle", "stop", "look", "restart"}]
    /\ crashes \in Nat

AllIdle == \A t \in Tasks : task[t] = Idle

\* What a task under way can rely on: the mode stays, and nothing is spoofed
\* before it is at its end.
Serves(t) ==
    /\ up /\ ~spoofStarted /\ channel = <<>>
    /\ task[t].boot \/ listening
    /\ task[t].pc = "stop" => ~task[t].boot /\ (~task[t].redis => setupMode = mode)
    /\ task[t].pc \in {"config"} \cup Spoofs =>
         task[t].mode = mode /\ setupMode = mode /\ curMode = mode
    /\ task[t].pc \in Spoofs => mode \in Spoofing

\* One task at most is under way. When none is, what FireMain has taken for the
\* mode is applied, and a message tells it if that is not the mode in redis.
Control ==
    /\ \A t \in Tasks : task[t] # Idle => Serves(t) /\ \A s \in Tasks \ {t} : task[s] = Idle
    /\ ~up => channel = <<>> /\ ~listening /\ ~spoofStarted
    /\ up /\ AllIdle => /\ listening /\ curMode = setupMode
                        /\ spoofStarted <=> setupMode \in Spoofing
                        /\ channel = <<mode>> \/ (channel = <<>> /\ setupMode = mode)

ModeInv == ModeTypes /\ Control

LEMMA OneMessage ==
  ASSUME NEW m
  PROVE  Append(<<>>, m) = <<m>> /\ Head(<<m>>) = m /\ Tail(<<m>>) = <<>> /\ <<m>> # <<>>
  OBVIOUS

LEMMA IdleTask == Idle \in TaskType /\ Idle.pc = "idle" /\ Idle.mode = None /\ ~Idle.redis /\ ~Idle.boot
  BY DEF Idle, TaskType, Pcs, Modes

LEMMA InitMode == Init => ModeInv
<1> SUFFICES ASSUME Init PROVE ModeInv
  OBVIOUS
<1>1. ModeTypes
  <2>1. task \in [Tasks -> TaskType] /\ reload \in [Reloads -> {"idle", "stop", "look", "restart"}]
    BY IdleTask DEF Init
  <2> QED
    BY <2>1 DEF Init, ModeTypes, Modes
<1>2. Control
  BY DEF Init, Control
<1> QED
  BY <1>1, <1>2 DEF ModeInv

\* A task begins, when none is under way.
LEMMA TaskBegins ==
  ASSUME ModeInv, AllIdle, NEW t \in Tasks, NEW r \in TaskType, r.pc # "idle",
         task' = [task EXCEPT ![t] = r],
         up', ~spoofStarted', channel' = <<>>, r.boot \/ listening',
         r.pc = "stop" => ~r.boot /\ (~r.redis => setupMode' = mode'),
         r.pc \in {"flags", "stop", "reload"}
  PROVE  task' \in [Tasks -> TaskType] /\ Control'
<1>1. task' \in [Tasks -> TaskType] /\ \A s \in Tasks : task'[s] = IF s = t THEN r ELSE Idle
  BY DEF ModeInv, ModeTypes, AllIdle
<1>2. r # Idle
  BY IdleTask
<1>3. Serves(t)' /\ task'[t] = r
  BY <1>1 DEF Serves, Spoofs
<1> QED
  BY <1>1, <1>2, <1>3 DEF Control, AllIdle

\* The task under way goes on, and may change the mode before it applies it.
LEMMA TaskGoesOn ==
  ASSUME ModeInv, NEW t \in Tasks, task[t].pc # "idle", NEW r \in TaskType, r.pc # "idle",
         task' = [task EXCEPT ![t] = r], r.boot = task[t].boot,
         UNCHANGED <<channel, up, listening, spoofStarted>>,
         r.pc # "stop",
         r.pc \in {"config"} \cup Spoofs => r.mode = mode' /\ setupMode' = mode' /\ curMode' = mode',
         r.pc \in Spoofs => mode' \in Spoofing
  PROVE  task' \in [Tasks -> TaskType] /\ Control'
<1>1. Serves(t) /\ \A s \in Tasks \ {t} : task[s] = Idle
  BY IdleTask DEF ModeInv, Control
<1>2. task' \in [Tasks -> TaskType] /\ \A s \in Tasks : task'[s] = IF s = t THEN r ELSE Idle
  BY <1>1 DEF ModeInv, ModeTypes
<1>3. r # Idle
  BY IdleTask
<1>4. Serves(t)' /\ task'[t] = r
  BY <1>1, <1>2 DEF Serves
<1> QED
  BY <1>1, <1>2, <1>3, <1>4 DEF Control, AllIdle, Serves

\* The task under way ends.
LEMMA TaskEnds ==
  ASSUME ModeInv, NEW t \in Tasks, task[t].pc \in {"config"} \cup Spoofs, Done(t),
         UNCHANGED <<mode, channel, up, setupMode, curMode>>,
         spoofStarted' <=> mode \in Spoofing
  PROVE  task' \in [Tasks -> TaskType] /\ listening' \in BOOLEAN /\ Control'
<1>1. Serves(t) /\ \A s \in Tasks \ {t} : task[s] = Idle
  BY IdleTask DEF ModeInv, Control, Spoofs
<1>2. /\ task' \in [Tasks -> TaskType] /\ \A s \in Tasks : task'[s] = Idle
      /\ listening'
  BY <1>1, IdleTask DEF ModeInv, ModeTypes, Done, Serves
<1>3. AllIdle' /\ up' /\ curMode' = mode' /\ setupMode' = mode' /\ channel' = <<>>
  BY <1>1, <1>2 DEF Serves, AllIdle
<1>4. listening' \in BOOLEAN
  BY DEF ModeInv, ModeTypes, Done, TaskType
<1> QED
  BY <1>1, <1>2, <1>3, <1>4 DEF Control

LEMMA AppMode ==
  ASSUME Patient, ModeInv, NEW m \in Modes, SetModeAndPublish(m) PROVE ModeInv'
<1>1. up /\ listening /\ channel = <<>> /\ AllIdle
  BY DEF SetModeAndPublish, Quiet, AllIdle
<1>2. /\ mode' = m /\ channel' = <<m>>
      /\ UNCHANGED <<main, task, boot, spoofer, loader, crashes>>
  BY <1>1, OneMessage DEF SetModeAndPublish
<1>3. ModeTypes'
  BY <1>2 DEF ModeInv, ModeTypes, main, boot, spoofer, loader
<1>4. Control'
  BY <1>1, <1>2 DEF ModeInv, Control, AllIdle, main, spoofer
<1> QED
  BY <1>3, <1>4 DEF ModeInv

LEMMA ReceiveMode ==
  ASSUME ModeInv, NEW t \in Tasks, Receive(t) PROVE ModeInv'
<1>1. /\ channel # <<>>
      /\ UNCHANGED <<mode, main, boot, registered, network, configs, loader, crashes>>
  BY DEF Receive
<1>2. up /\ AllIdle
  BY <1>1 DEF ModeInv, Control, Serves, AllIdle
<1>3. /\ channel = <<mode>> /\ channel' = <<>> /\ listening /\ curMode = setupMode
      /\ spoofStarted <=> setupMode \in Spoofing
  BY <1>1, <1>2, OneMessage DEF ModeInv, Control, Receive
<1>4. CASE mode = curMode
  <2>1. UNCHANGED <<task, spoofStarted>>
    BY <1>3, <1>4, OneMessage DEF Receive
  <2> QED
    BY <1>1, <1>2, <1>3, <1>4, <2>1 DEF ModeInv, ModeTypes, Control, AllIdle, main, boot, loader
<1>5. CASE mode # curMode
  <2>1. StopOrRead(t, setupMode)
    BY <1>3, <1>5, OneMessage DEF Receive
  <2> DEFINE r == IF setupMode \in Spoofing THEN Stop(TRUE) ELSE [Idle EXCEPT !.pc = "reload"]
  <2>2. /\ task' = [task EXCEPT ![t] = r] /\ spoofStarted' = FALSE
    BY <1>3, <2>1 DEF StopOrRead, ModeInv, ModeTypes
  <2>3. /\ r \in TaskType /\ r.pc \in {"stop", "reload"} /\ (r.pc = "stop" => r.redis /\ ~r.boot)
    BY DEF Stop, Idle, TaskType, Pcs, Modes
  <2> HIDE DEF r
  <2>4. task' \in [Tasks -> TaskType] /\ Control'
    BY <1>1, <1>2, <1>3, <2>2, <2>3, TaskBegins DEF main
  <2> QED
    BY <1>1, <2>2, <2>4 DEF ModeInv, ModeTypes, main, boot, loader
<1> QED
  BY <1>4, <1>5

LEMMA RevertMode ==
  ASSUME Patient, ModeInv, NEW t \in Tasks, Revert2None(t) PROVE ModeInv'
<1>1. up /\ listening /\ channel = <<>> /\ AllIdle
  BY DEF Revert2None, Quiet, AllIdle
<1>2. /\ revert' = FALSE
      /\ UNCHANGED <<channel, listening, up, curMode, bootingComplete, firstBindDone, registered,
                     network, configs, loader, crashes>>
  BY DEF Revert2None
<1>3. CASE bootingComplete \/ ~firstBindDone
  <2>1. UNCHANGED <<mode, setupMode, task, spoofStarted>>
    BY <1>3 DEF Revert2None
  <2> QED
    BY <1>2, <2>1 DEF ModeInv, ModeTypes, Control, Serves, AllIdle, loader
<1>4. CASE ~(bootingComplete \/ ~firstBindDone)
  <2>1. /\ mode' = None /\ setupMode' = None /\ spoofStarted' = FALSE
        /\ task' = [task EXCEPT ![t] = Stop(FALSE)]
    BY <1>4 DEF Revert2None
  <2>2. Stop(FALSE) \in TaskType /\ Stop(FALSE).pc = "stop" /\ ~Stop(FALSE).boot
    BY DEF Stop, Idle, TaskType, Pcs, Modes
  <2>3. task' \in [Tasks -> TaskType] /\ Control'
    BY <1>1, <1>2, <2>1, <2>2, TaskBegins
  <2> QED
    BY <1>2, <2>1, <2>3 DEF ModeInv, ModeTypes, Modes, loader
<1> QED
  BY <1>3, <1>4 DEF ModeInv, ModeTypes

LEMMA BootMode ==
  ASSUME ModeInv, NEW t \in Tasks, Boot(t) PROVE ModeInv'
<1>1. /\ ~up /\ up' = TRUE /\ task' = [task EXCEPT ![t] = BootTask]
      /\ UNCHANGED <<app, listening, setupMode, curMode, boot, spoofer, loader, crashes>>
  BY DEF Boot
<1>2. AllIdle /\ channel = <<>> /\ ~spoofStarted
  BY <1>1 DEF ModeInv, Control, Serves, AllIdle
<1>3. BootTask \in TaskType /\ BootTask.pc = "flags" /\ BootTask.boot
  BY DEF BootTask, Idle, TaskType, Pcs, Modes
<1>4. task' \in [Tasks -> TaskType] /\ Control'
  BY <1>1, <1>2, <1>3, TaskBegins DEF app, spoofer
<1> QED
  BY <1>1, <1>4 DEF ModeInv, ModeTypes, app, boot, spoofer, loader

\* The steps of the task under way.
LEMMA TaskMode ==
  ASSUME ModeInv, NEW t \in Tasks, TaskStep(t) PROVE ModeInv'
<1>t. task \in [Tasks -> TaskType] /\ task[t] \in TaskType
  BY DEF ModeInv, ModeTypes
<1>0. task[t].pc # "idle"
  BY DEF TaskStep, CheckInitStage, ResetMode, StopSpoofing, ReloadSetupMode, Apply, CleanUp,
         StartInstance, Started
<1>1. Serves(t)
  BY <1>0, IdleTask DEF ModeInv, Control
<1> USE DEF app, main, boot, spoofer, loader
<1>b. ASSUME NEW pc \in {"reset", "reload"}, task[t].pc \in {"flags", "reset"}, Goto(t, pc),
             {mode', setupMode'} \subseteq Modes,
             UNCHANGED <<channel, listening, up, curMode, boot, spoofer, loader, crashes>>
      PROVE  ModeInv'
  <2> DEFINE r == [task[t] EXCEPT !.pc = pc]
  <2>1. task' = [task EXCEPT ![t] = r]
    BY <1>b DEF Goto
  <2>2. r \in TaskType /\ r.pc = pc /\ r.boot = task[t].boot
    BY <1>t DEF TaskType, Pcs
  <2> HIDE DEF r
  <2>3. task' \in [Tasks -> TaskType] /\ Control'
    BY <1>0, <1>b, <2>1, <2>2, TaskGoesOn DEF Spoofs
  <2> QED
    BY <1>b, <2>3 DEF ModeInv, ModeTypes
<1>c. CASE CheckInitStage(t)
  <2>1. setupMode' = mode /\ UNCHANGED <<app, listening, up, curMode, boot, spoofer, loader, crashes>>
    BY <1>c DEF CheckInitStage
  <2>2. \E pc \in {"reset", "reload"} : Goto(t, pc)
    BY <1>c DEF CheckInitStage
  <2> QED
    BY <1>b, <1>c, <2>1, <2>2 DEF CheckInitStage, ModeInv, ModeTypes
<1>d. CASE ResetMode(t)
  BY <1>b, <1>d DEF ResetMode, Modes
<1>2. CASE StopSpoofing(t)
  <2>1. /\ task[t].pc = "stop" /\ reloadTask' = TRUE /\ configs' = (configs /\ ~registered)
        /\ UNCHANGED <<mode, channel, listening, up, setupMode, bootingComplete, firstBindDone,
                       revert, spoofStarted, registered, network, reload, service, crashes>>
    BY <1>2 DEF StopSpoofing, StopFiles, ScheduleReload
  <2>2. CASE task[t].redis
    <3> DEFINE r == [task[t] EXCEPT !.pc = "reload"]
    <3>1. task' = [task EXCEPT ![t] = r] /\ curMode' = curMode
      BY <1>2, <2>2 DEF StopSpoofing, Goto
    <3>2. r \in TaskType /\ r.pc = "reload" /\ r.boot = task[t].boot
      BY <1>t DEF TaskType, Pcs
    <3> HIDE DEF r
    <3>3. task' \in [Tasks -> TaskType] /\ Control'
      BY <1>0, <2>1, <3>1, <3>2, TaskGoesOn DEF Spoofs
    <3> QED
      BY <2>1, <3>1, <3>3 DEF ModeInv, ModeTypes
  <2>3. CASE ~task[t].redis
    <3> DEFINE r == [Idle EXCEPT !.pc = "config", !.mode = setupMode]
    <3>1. task' = [task EXCEPT ![t] = r] /\ curMode' = setupMode
      BY <1>2, <2>3 DEF StopSpoofing
    <3>2. r \in TaskType /\ r.pc = "config" /\ r.mode = setupMode /\ ~r.boot
      BY DEF ModeInv, ModeTypes, TaskType, Pcs, Idle
    <3> HIDE DEF r
    <3>4. setupMode = mode /\ r.boot = task[t].boot
      BY <1>1, <1>t, <2>1, <2>3, <3>2 DEF Serves, TaskType
    <3>5. task' \in [Tasks -> TaskType] /\ Control'
      BY <1>0, <2>1, <3>1, <3>2, <3>4, TaskGoesOn DEF Spoofs
    <3> QED
      BY <2>1, <3>1, <3>5 DEF ModeInv, ModeTypes
  <2> QED
    BY <2>2, <2>3
<1>3. CASE ReloadSetupMode(t)
  <2>1. /\ task[t].pc = "reload" /\ setupMode' = mode /\ curMode' = mode
        /\ task' = [task EXCEPT ![t].pc = "config", ![t].mode = mode]
        /\ UNCHANGED <<app, listening, up, boot, spoofer, loader, crashes>>
    BY <1>3 DEF ReloadSetupMode, Latest
  <2> DEFINE r == [task[t] EXCEPT !.pc = "config", !.mode = mode]
  <2>2. task' = [task EXCEPT ![t] = r]
    BY <1>t, <2>1 DEF TaskType
  <2>3. r \in TaskType /\ r.pc = "config" /\ r.mode = mode /\ r.boot = task[t].boot
    BY <1>t DEF ModeInv, ModeTypes, TaskType, Pcs
  <2> HIDE DEF r
  <2>4. task' \in [Tasks -> TaskType] /\ Control'
    BY <1>0, <2>1, <2>2, <2>3, TaskGoesOn DEF Spoofs
  <2> QED
    BY <2>1, <2>4 DEF ModeInv, ModeTypes
<1>m. task[t].pc \in {"config"} \cup Spoofs => task[t].mode = mode /\ setupMode = mode /\ curMode = mode
  BY <1>1 DEF Serves
<1>g. ASSUME NEW pc \in Spoofs, Goto(t, pc), task[t].pc \in {"config"} \cup Spoofs,
             task[t].mode \in Spoofing,
             UNCHANGED <<mode, channel, up, listening, spoofStarted, setupMode, curMode>>
      PROVE  task' \in [Tasks -> TaskType] /\ Control'
  <2> DEFINE r == [task[t] EXCEPT !.pc = pc]
  <2>2. task' = [task EXCEPT ![t] = r]
    BY <1>g DEF Goto
  <2>3. r \in TaskType /\ r.pc = pc /\ r.mode = mode /\ r.boot = task[t].boot
    BY <1>t, <1>g, <1>m DEF TaskType, Pcs, Spoofs
  <2> HIDE DEF r
  <2>4. pc # "idle" /\ pc # "stop"
    BY DEF Spoofs
  <2> QED
    BY <1>0, <1>m, <1>g, <2>2, <2>3, <2>4, TaskGoesOn
<1>4. CASE Apply(t)
  <2>1. /\ task[t].pc = "config" /\ UNCHANGED <<app, up, setupMode, curMode, bootingComplete,
                                                firstBindDone, spoofer, loader, crashes>>
    BY <1>4 DEF Apply
  <2>2. CASE task[t].mode \in Spoofing
    <3>1. Goto(t, "clean") /\ UNCHANGED listening /\ revert' \in BOOLEAN
      BY <1>1, <1>4, <2>2 DEF Apply, Serves, ArmRevert, ModeInv, ModeTypes
    <3>2. task' \in [Tasks -> TaskType] /\ Control'
      BY <1>g, <2>1, <2>2, <3>1 DEF Spoofs
    <3> QED
      BY <2>1, <3>1, <3>2 DEF ModeInv, ModeTypes
  <2>3. CASE task[t].mode \notin Spoofing
    <3>1. Done(t) /\ UNCHANGED revert
      BY <1>4, <2>3 DEF Apply
    <3>2. spoofStarted' <=> mode \in Spoofing
      BY <1>1, <1>m, <2>1, <2>3 DEF Serves
    <3>3. task' \in [Tasks -> TaskType] /\ listening' \in BOOLEAN /\ Control'
      BY <2>1, <3>1, <3>2, TaskEnds
    <3> QED
      BY <2>1, <3>1, <3>3 DEF ModeInv, ModeTypes
  <2> QED
    BY <2>2, <2>3
<1>5. CASE CleanUp(t)
  <2>1. task[t].mode \in Spoofing /\ task[t].pc \in Spoofs
    BY <1>1, <1>5 DEF CleanUp, Serves, Spoofs
  <2>2. task' \in [Tasks -> TaskType] /\ Control'
    BY <1>5, <1>g, <2>1 DEF CleanUp, Spoofs
  <2> QED
    BY <1>5, <2>2 DEF CleanUp, ModeInv, ModeTypes
<1>6. CASE StartInstance(t)
  <2>1. task[t].mode \in Spoofing /\ task[t].pc \in Spoofs
    BY <1>1, <1>6 DEF StartInstance, Serves, Spoofs
  <2>2. task' \in [Tasks -> TaskType] /\ Control'
    BY <1>6, <1>g, <2>1 DEF StartInstance, Spoofs
  <2> QED
    BY <1>6, <2>2 DEF StartInstance, ModeInv, ModeTypes
<1>7. CASE Started(t)
  <2>1. task[t].pc \in Spoofs /\ mode \in Spoofing
    BY <1>1, <1>7 DEF Started, Serves, Spoofs
  <2>2. task' \in [Tasks -> TaskType] /\ listening' \in BOOLEAN /\ Control'
    BY <1>7, <2>1, TaskEnds DEF Started
  <2> QED
    BY <1>7, <2>2 DEF Started, ModeInv, ModeTypes, ScheduleReload
<1> QED
  BY <1>c, <1>d, <1>2, <1>3, <1>4, <1>5, <1>6, <1>7 DEF TaskStep

\* The steps beside the tasks.
LEMMA OtherMode ==
  ASSUME ModeInv,
         \/ BootCompletes \/ FirstBinding \/ SpoofOn \/ SpoofOff \/ NetworkStep \/ Exit
         \/ \E r \in Reloads : Fire(r) \/ ReloadStep(r)
         \/ UNCHANGED vars
  PROVE  ModeInv'
<1> USE DEF app, main, boot, spoofer, loader
<1>1. CASE Exit
  <2>1. /\ up' = FALSE /\ listening' = FALSE /\ channel' = <<>> /\ spoofStarted' = FALSE
        /\ task' = [t \in Tasks |-> Idle]
        /\ reload' = [r \in Reloads |-> "idle"]
    BY <1>1 DEF Exit
  <2>2. task' \in [Tasks -> TaskType] /\ Control'
    BY <2>1, IdleTask DEF Control, Serves
  <2>3. ModeTypes'
    <3>1. /\ setupMode' = None /\ curMode' = None /\ mode' = mode
          /\ revert' = FALSE /\ registered' = FALSE /\ network' = "idle" /\ reloadTask' = FALSE
          /\ service' = (service /\ ~spoofStarted) /\ crashes' = crashes + 1
          /\ UNCHANGED <<bootingComplete, firstBindDone, configs>>
      BY <1>1 DEF Exit, StopOnExit
    <3>2. reload' \in [Reloads -> {"idle", "stop", "look", "restart"}]
      BY <2>1
    <3>3. crashes' \in Nat /\ service' \in BOOLEAN
      BY <3>1 DEF ModeInv, ModeTypes
    <3> QED
      BY <2>1, <2>2, <3>1, <3>2, <3>3 DEF ModeInv, ModeTypes, Modes
  <2> QED
    BY <2>2, <2>3 DEF ModeInv
<1>2. CASE ~Exit
  <2>1. UNCHANGED <<mode, channel, main, task, spoofStarted>>
    BY <1>2 DEF BootCompletes, FirstBinding, SpoofOn, SpoofOff, NetworkStep, Fire, ReloadStep, vars
  <2>2. Control'
    BY <2>1 DEF ModeInv, Control, Serves, AllIdle
  <2>3. reload' \in [Reloads -> {"idle", "stop", "look", "restart"}]
    BY <1>2 DEF BootCompletes, FirstBinding, SpoofOn, SpoofOff, NetworkStep, Fire, ReloadStep, vars, ModeInv,
                ModeTypes
  <2>4. ModeTypes'
    BY <1>2, <2>1, <2>3 DEF BootCompletes, FirstBinding, SpoofOn, SpoofOff, NetworkStep, Fire, ReloadStep, vars,
       ModeInv, ModeTypes, ScheduleReload
  <2> QED
    BY <2>2, <2>4 DEF ModeInv
<1> QED
  BY <1>1, <1>2

LEMMA NextMode == Patient /\ ModeInv /\ [Next]_vars => ModeInv'
<1> SUFFICES ASSUME Patient, ModeInv, [Next]_vars PROVE ModeInv'
  OBVIOUS
<1>1. CASE \E m \in Modes : SetModeAndPublish(m)
  BY <1>1, AppMode
<1>2. CASE \E t \in Tasks : Receive(t) \/ TaskStep(t) \/ Revert2None(t) \/ Boot(t)
  BY <1>2, ReceiveMode, TaskMode, RevertMode, BootMode
<1>3. CASE \/ BootCompletes \/ FirstBinding \/ SpoofOn \/ SpoofOff \/ NetworkStep \/ Exit
           \/ \E r \in Reloads : Fire(r) \/ ReloadStep(r)
           \/ UNCHANGED vars
  BY <1>3, OtherMode
<1> QED
  BY <1>1, <1>2, <1>3, Zenon DEF Next

LEMMA ModeInvariant ==
  ASSUME Patient PROVE Spec => []ModeInv
<1>1. ModeInv /\ [Next]_vars => ModeInv'
  BY NextMode
<1> QED
  BY <1>1, InitMode, PTL DEF Spec

\* Whatever the app sets and however often FireMain crashes and boots, when nothing is
\* under way the mode of FireMain is the one in redis, and it spoofs exactly in the
\* modes that do (setupMode, switchModeAsync and publish of ModeManager.js).
THEOREM ModeFollows ==
  ASSUME Patient PROVE Spec => []ModeIsApplied
<1>1. ModeInv => ModeIsApplied
  BY DEF ModeInv, Control, ModeIsApplied, Quiet, AllIdle
<1> QED
  BY <1>1, ModeInvariant, PTL

Reloading == reloadTask \/ \E r \in Reloads : reload[r] # "idle"

\* A registered network that is spoofed has its file, or is about to, and what
\* is spoofed is served, or the reload that sees to it is still to come.
Files ==
    /\ network = "write" => registered
    /\ \A t \in Tasks : task[t].pc = "started" /\ registered => configs \/ network = "write"
    /\ spoofStarted /\ registered => configs \/ network = "write"
    /\ spoofStarted /\ configs => Reloading \/ service

\* The other way round, for a FireMain that has not exited: what is served is
\* spoofed, or the reload that ends it is still to come.
Exact == crashes = 0 =>
    /\ configs => registered
    /\ (\E r \in Reloads : reload[r] = "restart")
         \/ (service /\ \A r \in Reloads : reload[r] # "stop")
       => spoofStarted \/ reloadTask \/ \E t \in Tasks : task[t].pc = "stop"
    /\ service /\ spoofStarted =>
         configs \/ reloadTask \/ \E r \in Reloads : reload[r] = "stop"

FilesInv == ModeInv /\ Files /\ Exact

LEMMA InitFiles == Init => FilesInv
<1>1. Init => Files /\ Exact
  BY IdleTask DEF Init, Files, Exact
<1> QED
  BY <1>1, InitMode DEF FilesInv

\* What the mode's tasks do to the files.
LEMMA TaskFiles ==
  ASSUME FilesInv, NEW t \in Tasks, TaskStep(t) PROVE Files' /\ Exact'
<1>t. task \in [Tasks -> TaskType] /\ task[t] \in TaskType
  BY DEF FilesInv, ModeInv, ModeTypes
<1>0. task[t].pc # "idle"
  BY DEF TaskStep, CheckInitStage, ResetMode, StopSpoofing, ReloadSetupMode, Apply, CleanUp,
         StartInstance, Started
<1>1. Serves(t) /\ \A s \in Tasks \ {t} : task[s] = Idle
  BY <1>0, IdleTask DEF FilesInv, ModeInv, Control
<1>2. ~spoofStarted
  BY <1>1 DEF Serves
<1>3. \A s \in Tasks \ {t} : task'[s] = Idle /\ task'[s].pc = "idle"
  BY <1>t, <1>1, IdleTask DEF TaskStep, CheckInitStage, ResetMode, StopSpoofing, ReloadSetupMode,
     Apply, CleanUp, StartInstance, Started, Goto, Done
<1>4. UNCHANGED <<registered, network, reload, service, crashes>>
  BY DEF TaskStep, CheckInitStage, ResetMode, StopSpoofing, ReloadSetupMode, Apply, CleanUp,
         StartInstance, Started, spoofer, loader
<1>5. CASE StopSpoofing(t)
  <2>1. /\ reloadTask' /\ ~spoofStarted' /\ configs' = (configs /\ ~registered)
    BY <1>2, <1>5 DEF StopSpoofing, StopFiles, ScheduleReload
  <2>2. task'[t].pc # "started"
    BY <1>t, <1>5 DEF StopSpoofing, Goto, Idle, TaskType
  <2>3. Files'
    BY <1>3, <1>4, <2>1, <2>2 DEF FilesInv, Files
  <2>4. Exact'
    BY <1>4, <2>1 DEF FilesInv, Exact
  <2> QED
    BY <2>3, <2>4
<1>6. ASSUME UNCHANGED <<spoofStarted, reloadTask>>, task[t].pc # "stop",
             configs' => registered \/ configs,
             task'[t].pc = "started" => configs'
      PROVE  Files' /\ Exact'
  <2>1. Files'
    BY <1>2, <1>3, <1>4, <1>6 DEF FilesInv, Files
  <2>2. \A s \in Tasks : task[s].pc # "stop"
    BY <1>1, <1>6, IdleTask
  <2>3. Exact'
    BY <1>2, <1>4, <1>6, <2>2 DEF FilesInv, Exact
  <2> QED
    BY <2>1, <2>3
<1>7. CASE ReloadSetupMode(t)
  <2>1. task'[t].pc = "config"
    BY <1>t, <1>7 DEF ReloadSetupMode, TaskType
  <2> QED
    BY <1>6, <1>7, <2>1 DEF ReloadSetupMode, spoofer, loader
<1>a. CASE CheckInitStage(t) \/ ResetMode(t)
  <2>1. task[t].pc # "stop" /\ task'[t].pc \in {"reset", "reload"}
    BY <1>t, <1>a DEF CheckInitStage, ResetMode, Goto, TaskType
  <2> QED
    BY <1>6, <1>a, <2>1 DEF CheckInitStage, ResetMode, spoofer, loader
<1>8. CASE Apply(t)
  <2>1. task'[t].pc \in {"clean", "idle"}
    BY <1>t, <1>8, IdleTask DEF Apply, Goto, Done, TaskType
  <2> QED
    BY <1>6, <1>8, <2>1 DEF Apply, spoofer, loader
<1>9. CASE CleanUp(t)
  <2>1. task'[t].pc = "start"
    BY <1>t, <1>9 DEF CleanUp, Goto, TaskType
  <2> QED
    BY <1>6, <1>9, <2>1 DEF CleanUp, loader
<1>10. CASE StartInstance(t)
  BY <1>6, <1>10 DEF StartInstance, loader
<1>11. CASE Started(t)
  <2>1. /\ spoofStarted' /\ reloadTask' /\ UNCHANGED configs
        /\ registered => configs \/ network = "write"
    BY <1>11 DEF Started, ScheduleReload, FilesInv, Files
  <2>2. task'[t].pc = "idle"
    BY <1>t, <1>11, IdleTask DEF Started, Done
  <2>3. Files'
    BY <1>3, <1>4, <2>1, <2>2 DEF FilesInv, Files, Reloading
  <2>4. Exact'
    BY <1>4, <2>1 DEF FilesInv, Exact
  <2> QED
    BY <2>3, <2>4
<1> QED
  BY <1>5, <1>a, <1>7, <1>8, <1>9, <1>10, <1>11 DEF TaskStep

\* The steps that begin a task, or that change the mode.
LEMMA BeginFiles ==
  ASSUME FilesInv,
         \/ \E m \in Modes : SetModeAndPublish(m)
         \/ \E t \in Tasks : Receive(t) \/ Revert2None(t) \/ Boot(t)
  PROVE  Files' /\ Exact'
<1>0. UNCHANGED <<registered, network, configs, reloadTask, reload, service, crashes>>
  BY DEF SetModeAndPublish, Receive, Revert2None, Boot, spoofer, loader
<1>t. task \in [Tasks -> TaskType]
  BY DEF FilesInv, ModeInv, ModeTypes
<1>1. ASSUME UNCHANGED task, UNCHANGED spoofStarted PROVE Files' /\ Exact'
  BY <1>0, <1>1 DEF FilesInv, Files, Exact, Reloading
<1>2. ASSUME NEW t \in Tasks, NEW r, task' = [task EXCEPT ![t] = r],
             task[t] = Idle,
             \/ r.pc = "stop" /\ ~spoofStarted'
             \/ r.pc \in {"flags", "reload"} /\ UNCHANGED spoofStarted
      PROVE  Files' /\ Exact'
  <2>1. \A s \in Tasks : task'[s] = IF s = t THEN r ELSE task[s]
    BY <1>t, <1>2
  <2>2. Files'
    BY <1>0, <1>2, <2>1 DEF FilesInv, Files, Reloading
  <2>3. \A s \in Tasks : task[s].pc = "stop" => task'[s].pc = "stop"
    BY <1>2, <2>1, IdleTask
  <2>4. CASE r.pc = "stop" /\ ~spoofStarted'
    <3>1. task'[t].pc = "stop"
      BY <2>1, <2>4
    <3> QED
      BY <1>0, <2>2, <2>4, <3>1 DEF FilesInv, Exact
  <2>5. CASE r.pc \in {"flags", "reload"} /\ UNCHANGED spoofStarted
    BY <1>0, <2>2, <2>3, <2>5 DEF FilesInv, Exact
  <2> QED
    BY <1>2, <2>2, <2>4, <2>5
<1>3. ASSUME NEW m \in Modes, SetModeAndPublish(m) PROVE Files' /\ Exact'
  BY <1>1, <1>3 DEF SetModeAndPublish, spoofer
<1>4. ASSUME NEW t \in Tasks, Receive(t) PROVE Files' /\ Exact'
  <2>1. CASE UNCHANGED <<task, spoofStarted>>
    BY <1>1, <2>1
  <2>2. CASE StopOrRead(t, setupMode)
    <3>1. Stop(TRUE).pc = "stop" /\ [Idle EXCEPT !.pc = "reload"].pc = "reload"
      BY DEF Stop, Idle
    <3> QED
      BY <1>2, <1>4, <2>2, <3>1 DEF StopOrRead, Receive
  <2> QED
    BY <1>4, <2>1, <2>2 DEF Receive
<1>5. ASSUME NEW t \in Tasks, Revert2None(t) PROVE Files' /\ Exact'
  <2>1. Stop(FALSE).pc = "stop"
    BY DEF Stop, Idle
  <2> QED
    BY <1>1, <1>2, <1>5, <2>1 DEF Revert2None
<1>6. ASSUME NEW t \in Tasks, Boot(t) PROVE Files' /\ Exact'
  <2>1. BootTask.pc = "flags" /\ task[t] = Idle
    BY <1>6 DEF BootTask, Idle, Boot, FilesInv, ModeInv, Control, Serves
  <2> QED
    BY <1>2, <1>6, <2>1 DEF Boot, spoofer
<1> QED
  BY <1>3, <1>4, <1>5, <1>6

LEMMA OtherFiles ==
  ASSUME \A r, s \in Reloads : r = s, FilesInv,
         \/ BootCompletes \/ FirstBinding \/ SpoofOn \/ SpoofOff \/ NetworkStep \/ Exit
         \/ \E r \in Reloads : Fire(r) \/ ReloadStep(r)
         \/ UNCHANGED vars
  PROVE  Files' /\ Exact'
<1> USE DEF app, main, boot, spoofer, loader
<1>1. CASE Exit
  <2>1. /\ ~spoofStarted' /\ ~registered' /\ network' = "idle" /\ crashes' = crashes + 1
        /\ task' = [t \in Tasks |-> Idle]
    BY <1>1 DEF Exit
  <2>2. crashes' # 0
    BY <2>1 DEF FilesInv, ModeInv, ModeTypes
  <2> QED
    BY <2>1, <2>2 DEF Files, Exact
<1>2. CASE BootCompletes \/ FirstBinding \/ UNCHANGED vars
  <2>1. UNCHANGED <<task, spoofStarted, registered, network, configs, reloadTask, reload, service,
                    crashes>>
    BY <1>2 DEF BootCompletes, FirstBinding, vars
  <2> QED
    BY <2>1 DEF FilesInv, Files, Exact, Reloading
<1>3. CASE SpoofOn \/ SpoofOff
  BY <1>3 DEF SpoofOn, SpoofOff, FilesInv, Files, Exact, Reloading
<1>4. CASE NetworkStep
  BY <1>4 DEF NetworkStep, ScheduleReload, FilesInv, Files, Exact, Reloading
<1>5. ASSUME NEW r \in Reloads, Fire(r) PROVE Files' /\ Exact'
  <2>1. /\ ~reloadTask' /\ reload'[r] = "stop"
        /\ \A s \in Reloads : s = r
        /\ UNCHANGED <<task, spoofStarted, registered, network, configs, service, crashes>>
    BY <1>5 DEF Fire, FilesInv, ModeInv, ModeTypes
  <2> QED
    BY <2>1 DEF FilesInv, Files, Exact, Reloading
<1>6. ASSUME NEW r \in Reloads, ReloadStep(r) PROVE Files' /\ Exact'
  <2>0. \A s \in Reloads : s = r
    OBVIOUS
  <2>1. UNCHANGED <<task, spoofStarted, registered, network, configs, reloadTask, crashes>>
    BY <1>6 DEF ReloadStep
  <2>2. CASE reload[r] = "stop"
    <3>1. service' = FALSE /\ reload'[r] = "look"
      BY <1>6, <2>2 DEF ReloadStep, FilesInv, ModeInv, ModeTypes
    <3> QED
      BY <2>0, <2>1, <3>1 DEF FilesInv, Files, Exact, Reloading
  <2>3. CASE reload[r] = "look"
    <3>1. service' = service /\ reload'[r] = IF spoofStarted THEN "restart" ELSE "idle"
      BY <1>6, <2>3 DEF ReloadStep, FilesInv, ModeInv, ModeTypes
    <3> QED
      BY <2>0, <2>1, <2>3, <3>1 DEF FilesInv, Files, Exact, Reloading
  <2>4. CASE reload[r] = "restart"
    <3>1. service' = configs /\ reload'[r] = "idle"
      BY <1>6, <2>4 DEF ReloadStep, FilesInv, ModeInv, ModeTypes
    <3> QED
      BY <2>0, <2>1, <2>4, <3>1 DEF FilesInv, Files, Exact, Reloading
  <2> QED
    BY <1>6, <2>2, <2>3, <2>4 DEF ReloadStep
<1> QED
  BY <1>1, <1>2, <1>3, <1>4, <1>5, <1>6

\* With one timeout of a reload at a time, when nothing is under way the spoof service
\* runs for a registered network in a mode that spoofs; it runs in no other mode,
\* unless FireMain exited between stopSpoofing and the reload it had scheduled.
THEOREM ServiceFollows ==
  ASSUME Patient, \A r, s \in Reloads : r = s
  PROVE  Spec => []ServiceFollowsMode
<1>1. FilesInv /\ [Next]_vars => FilesInv'
  <2> SUFFICES ASSUME FilesInv, [Next]_vars PROVE FilesInv'
    OBVIOUS
  <2>1. ModeInv'
    BY NextMode DEF FilesInv
  <2>2. CASE \/ \E m \in Modes : SetModeAndPublish(m)
             \/ \E t \in Tasks : Receive(t) \/ Revert2None(t) \/ Boot(t)
    BY <2>1, <2>2, BeginFiles DEF FilesInv
  <2>3. CASE \E t \in Tasks : TaskStep(t)
    BY <2>1, <2>3, TaskFiles DEF FilesInv
  <2>4. CASE \/ BootCompletes \/ FirstBinding \/ SpoofOn \/ SpoofOff \/ NetworkStep \/ Exit
             \/ \E r \in Reloads : Fire(r) \/ ReloadStep(r)
             \/ UNCHANGED vars
    BY <2>1, <2>4, OtherFiles DEF FilesInv
  <2> QED
    BY <2>2, <2>3, <2>4, Zenon DEF Next
<1>2. FilesInv => ServiceFollowsMode
  <2> SUFFICES ASSUME FilesInv, Quiet PROVE ServiceFollowsMode
    BY DEF ServiceFollowsMode
  <2>1. spoofStarted <=> mode \in Spoofing
    BY DEF FilesInv, ModeInv, Control, Quiet, AllIdle
  <2>2. ~Reloading /\ network = "idle" /\ \A t \in Tasks : task[t].pc # "stop"
    BY IdleTask DEF Quiet, Reloading
  <2>3. mode \in Spoofing /\ registered => service
    BY <2>1, <2>2 DEF FilesInv, Files
  <2>4. service /\ crashes = 0 => mode \in Spoofing /\ registered
    BY <2>1, <2>2 DEF FilesInv, Exact, Reloading
  <2> QED
    BY <2>3, <2>4 DEF ServiceFollowsMode
<1> QED
  BY <1>1, <1>2, InitFiles, PTL DEF Spec
-----------------------------------------------------------------------------
(* The categories                                                             *)

Sweeping == \E s \in Sweeps : sweep[s].pc # "idle"

\* A change of the app that no sweep has seen.
Unseen == updated = 1 \/ app_call.pc \in {"create", "notify"}

\* What FireMain knows of a category, by how far the sweep is.
Knows(s, c) ==
    \/ sweep[s].pc = "keys" /\ known[c] \in {"marked", "absent"}
    \/ /\ sweep[s].pc = "read"
       /\ IF exists[c] THEN c \in sweep[s].todo \/ known[c] = "exists"
          ELSE c \notin sweep[s].todo /\ known[c] \in {"marked", "absent"}
    \/ /\ sweep[s].pc = "flush"
       /\ c \in sweep[s].todo <=> known[c] = "marked"
       /\ exists[c] <=> known[c] = "exists"

CatTypes ==
    /\ exists \in [Cats -> BOOLEAN] /\ known \in [Cats -> {"absent", "exists", "marked"}]
    /\ elements \in [Cats -> SUBSET Cat!Elements]
    /\ sweep \in [Sweeps -> [pc : {"idle", "keys", "read", "flush"}, todo : SUBSET Cats,
                             cat : {"none"}]]
    /\ app_call \in [pc : {"idle"}, cat : {"none"}, new : {{}}]
                      \cup [pc : {"create", "notify", "add", "domain"}, cat : Cats,
                            new : SUBSET Cat!Elements]
    /\ updated \in {0, 1}

\* As long as FireMain has not been down, one operation of the app, one event or
\* one sweep at most is under way, and FireMain knows the categories that are gone
\* and have elements.
Follows ==
    /\ cat_up /\ CatTypes /\ cleared = {}
    /\ \A s, t \in Sweeps : sweep[s].pc # "idle" /\ sweep[t].pc # "idle" => s = t
    /\ Sweeping => updated = 0 /\ app_call.pc = "idle"
    /\ updated = 1 => app_call.pc = "idle"
    /\ app_call.pc = "add" => exists[app_call.cat]
    /\ \A c \in Cats :
         /\ ~exists[c] /\ elements[c] # {} => known[c] # "absent"
         /\ \A s \in Sweeps : sweep[s].pc # "idle" => Knows(s, c)
         /\ ~Sweeping => IF Unseen THEN known[c] \in {"exists", "absent"}
                         ELSE known[c] = IF exists[c] THEN "exists" ELSE "absent"

CatInv == cat_crashes \in Nat /\ (cat_crashes = 0 => Follows)

LEMMA InitCat == Cat!Init => CatInv
<1> SUFFICES ASSUME Cat!Init PROVE CatInv
  OBVIOUS
<1>1. CatTypes /\ ~Sweeping /\ ~Unseen
  BY DEF Cat!Init, CatTypes, Sweeping, Unseen, Cat!NoSweep, Cat!NoApp, Cat!Elements
<1> QED
  BY <1>1 DEF Cat!Init, CatInv, Follows, Cat!NoSweep, Cat!NoApp

\* The app begins when nothing is under way, and goes on before anything else is.
LEMMA AppCat ==
  ASSUME Patient, Follows,
         \/ \E c \in Cats : \/ Cat!DeleteKey(c) \/ Cat!Remove(c)
                            \/ \E new \in SUBSET Cat!Elements : Cat!FlushElements(c, new)
         \/ Cat!AppStep
  PROVE  Follows'
<1>t. CatTypes
  BY DEF Follows
<1>0. UNCHANGED <<known, sweep, cleared, cat_up>>
  BY DEF Cat!DeleteKey, Cat!Remove, Cat!FlushElements, Cat!AppStep, Cat!Rest
<1>1. ~Sweeping /\ ~Sweeping'
  BY <1>0 DEF Follows, Sweeping, Cat!DeleteKey, Cat!Remove, Cat!FlushElements, Cat!AppStep,
     Cat!Begin, Cat!Idle
<1>2. ASSUME NEW c \in Cats, Cat!DeleteKey(c) \/ Cat!Remove(c)
      PROVE  Follows'
  <2>1. /\ app_call.pc = "idle" /\ updated = 0
        /\ exists' = [exists EXCEPT ![c] = FALSE]
        /\ UNCHANGED <<elements, updated>>
    BY <1>2 DEF Cat!DeleteKey, Cat!Remove, Cat!Begin, Cat!Idle
  <2>2. \E pc \in {"create", "notify"} : app_call' = [pc |-> pc, cat |-> c, new |-> {}]
    BY <1>2 DEF Cat!DeleteKey, Cat!Remove, Cat!Begin
  <2>3. CatTypes' /\ Unseen' /\ ~Unseen
    BY <1>t, <1>0, <2>1, <2>2 DEF CatTypes, Unseen
  <2>4. \A d \in Cats : exists'[d] = IF d = c THEN FALSE ELSE exists[d]
    BY <1>t, <2>1 DEF CatTypes
  <2> QED
    BY <1>0, <1>1, <2>1, <2>2, <2>3, <2>4 DEF Follows, Sweeping
<1>3. ASSUME NEW c \in Cats, NEW new \in SUBSET Cat!Elements, Cat!FlushElements(c, new)
      PROVE  Follows'
  <2>1. /\ app_call.pc = "idle" /\ updated = 0 /\ exists[c]
        /\ app_call' = [pc |-> "add", cat |-> c, new |-> new]
        /\ elements' = [elements EXCEPT ![c] = {}]
        /\ UNCHANGED <<exists, updated>>
    BY <1>3 DEF Cat!FlushElements, Cat!Begin, Cat!Idle
  <2>2. CatTypes' /\ ~Unseen' /\ ~Unseen
    BY <1>t, <1>0, <2>1 DEF CatTypes, Unseen
  <2>3. \A d \in Cats : elements'[d] = IF d = c THEN {} ELSE elements[d]
    BY <1>t, <2>1 DEF CatTypes
  <2> QED
    BY <1>0, <1>1, <2>1, <2>2, <2>3 DEF Follows, Sweeping
<1>4. CASE Cat!AppStep
  <2> DEFINE c == app_call.cat
  <2>a. /\ app_call.pc # "idle" /\ c \in Cats /\ updated = 0
        /\ app_call \in [pc : {"create", "notify", "add", "domain"}, cat : Cats,
                         new : SUBSET Cat!Elements]
    BY <1>4, <1>t DEF Cat!AppStep, CatTypes, Follows
  <2>1. CASE app_call.pc = "create"
    <3>1. /\ exists' = [exists EXCEPT ![c] = TRUE]
          /\ app_call' = [app_call EXCEPT !.pc = "notify"]
          /\ UNCHANGED <<elements, updated>>
      BY <1>4, <2>1 DEF Cat!AppStep
    <3>2. CatTypes' /\ Unseen' /\ Unseen /\ app_call'.pc = "notify"
      BY <1>t, <1>0, <2>a, <2>1, <3>1 DEF CatTypes, Unseen
    <3>3. \A d \in Cats : exists'[d] = IF d = c THEN TRUE ELSE exists[d]
      BY <1>t, <3>1 DEF CatTypes
    <3> QED
      BY <1>0, <1>1, <2>a, <3>1, <3>2, <3>3 DEF Follows, Sweeping
  <2>2. CASE app_call.pc = "notify"
    <3>1. /\ updated' = 1 /\ app_call' = Cat!NoApp /\ UNCHANGED <<exists, elements>>
      BY <1>4, <2>a, <2>2 DEF Cat!AppStep, Cat!redis, Follows
    <3>2. CatTypes' /\ Unseen' /\ Unseen /\ app_call'.pc = "idle"
      BY <1>t, <1>0, <2>2, <3>1 DEF CatTypes, Unseen, Cat!NoApp
    <3> QED
      BY <1>0, <1>1, <3>1, <3>2 DEF Follows, Sweeping
  <2>3. CASE app_call.pc = "add"
    <3>1. /\ elements' = [elements EXCEPT ![c] = @ \cup app_call.new]
          /\ app_call' = [app_call EXCEPT !.pc = "domain"]
          /\ UNCHANGED <<exists, updated>>
      BY <1>4, <2>3 DEF Cat!AppStep
    <3>2. CatTypes' /\ ~Unseen' /\ ~Unseen /\ app_call'.pc = "domain"
      BY <1>t, <1>0, <2>a, <2>3, <3>1 DEF CatTypes, Unseen
    <3>3. exists[c] /\ \A d \in Cats \ {c} : elements'[d] = elements[d]
      BY <1>t, <2>a, <2>3, <3>1 DEF CatTypes, Follows
    <3> QED
      BY <1>0, <1>1, <2>a, <3>1, <3>2, <3>3 DEF Follows, Sweeping
  <2>4. CASE app_call.pc = "domain"
    <3>1. app_call' = Cat!NoApp /\ UNCHANGED <<exists, elements, updated>>
      BY <1>4, <2>4 DEF Cat!AppStep, Cat!redis
    <3>2. CatTypes' /\ ~Unseen' /\ ~Unseen /\ app_call'.pc = "idle"
      BY <1>t, <1>0, <2>a, <2>4, <3>1 DEF CatTypes, Unseen, Cat!NoApp
    <3> QED
      BY <1>0, <1>1, <3>1, <3>2 DEF Follows, Sweeping
  <2> QED
    BY <1>4, <2>1, <2>2, <2>3, <2>4 DEF Cat!AppStep
<1> QED
  BY <1>2, <1>3, <1>4

SweepStates == [pc : {"idle", "keys", "read", "flush"}, todo : SUBSET Cats, cat : {"none"}]

\* The one sweep under way takes a step, and ends if it is then idle.
LEMMA SweepGoesOn ==
  ASSUME Follows, NEW s \in Sweeps, Sweeping => sweep[s].pc # "idle",
         NEW r \in SweepStates, sweep' = [sweep EXCEPT ![s] = r],
         app_call.pc = "idle", updated' = 0, UNCHANGED <<exists, app_call, cleared, cat_up>>,
         known' \in [Cats -> {"absent", "exists", "marked"}],
         elements' \in [Cats -> SUBSET Cat!Elements],
         \A c \in Cats :
           /\ ~exists[c] /\ elements'[c] # {} => known'[c] # "absent"
           /\ r.pc # "idle" => Knows(s, c)'
           /\ r.pc = "idle" => known'[c] = IF exists[c] THEN "exists" ELSE "absent"
  PROVE  Follows'
<1>t. CatTypes
  BY DEF Follows
<1>1. /\ \A t \in Sweeps : sweep'[t] = IF t = s THEN r ELSE sweep[t]
      /\ \A t \in Sweeps \ {s} : sweep'[t].pc = "idle"
  BY <1>t DEF CatTypes, Follows, Sweeping
<1>2. CatTypes'
  BY <1>t, <1>1 DEF CatTypes, SweepStates
<1>3. Sweeping' <=> r.pc # "idle"
  BY <1>1 DEF Sweeping
<1>4. ~Unseen'
  BY DEF Unseen
<1> QED
  BY <1>1, <1>2, <1>3, <1>4 DEF Follows

\* A sweep that has read what it had to read.
LEMMA SweepReads ==
  ASSUME Follows, NEW s \in Sweeps, sweep[s].pc # "idle", NEW todo \in SUBSET Cats,
         Cat!Sweeping(s, todo),
         UNCHANGED <<exists, elements, app_call, updated, cleared, cat_up>>,
         known' \in [Cats -> {"absent", "exists", "marked"}],
         \A c \in Cats :
           /\ ~exists[c] /\ elements[c] # {} => known'[c] # "absent"
           /\ IF exists[c] THEN c \in todo \/ known'[c] = "exists"
              ELSE c \notin todo /\ known'[c] \in {"marked", "absent"}
  PROVE  Follows'
<1>t. CatTypes
  BY DEF Follows
<1>1. app_call.pc = "idle" /\ updated = 0
  BY DEF Follows, Sweeping
<1>2. CASE todo # {}
  <2> DEFINE r == [Cat!NoSweep EXCEPT !.pc = "read", !.todo = todo]
  <2>1. r \in SweepStates /\ r.pc = "read" /\ r.todo = todo
    BY DEF SweepStates, Cat!NoSweep
  <2>2. sweep' = [sweep EXCEPT ![s] = r]
    BY <1>2 DEF Cat!Sweeping
  <2> HIDE DEF r
  <2>3. \A c \in Cats : Knows(s, c)'
    BY <1>t, <2>1, <2>2 DEF Knows, CatTypes
  <2> QED
    BY <1>t, <1>1, <2>1, <2>2, <2>3, SweepGoesOn DEF CatTypes
<1>3. CASE todo = {} /\ Cat!Gone = {}
  <2>1. Cat!NoSweep \in SweepStates /\ Cat!NoSweep.pc = "idle"
    BY DEF SweepStates, Cat!NoSweep
  <2>2. sweep' = [sweep EXCEPT ![s] = Cat!NoSweep]
    BY <1>3 DEF Cat!Sweeping
  <2>3. \A c \in Cats : known'[c] = IF exists[c] THEN "exists" ELSE "absent"
    BY <1>3 DEF Cat!Gone
  <2> QED
    BY <1>t, <1>1, <2>1, <2>2, <2>3, SweepGoesOn DEF CatTypes
<1>4. CASE todo = {} /\ Cat!Gone # {}
  <2> DEFINE r == [Cat!NoSweep EXCEPT !.pc = "flush", !.todo = Cat!Gone]
  <2>1. r \in SweepStates /\ r.pc = "flush" /\ r.todo = Cat!Gone
    BY DEF SweepStates, Cat!NoSweep, Cat!Gone
  <2>2. sweep' = [sweep EXCEPT ![s] = r]
    BY <1>4 DEF Cat!Sweeping
  <2> HIDE DEF r
  <2>3. \A c \in Cats : Knows(s, c)'
    BY <1>t, <1>4, <2>1, <2>2 DEF Knows, CatTypes, Cat!Gone
  <2> QED
    BY <1>t, <1>1, <2>1, <2>2, <2>3, SweepGoesOn DEF CatTypes
<1> QED
  BY <1>2, <1>3, <1>4

LEMMA SweepCat ==
  ASSUME Follows, NEW s \in Sweeps, Cat!StartSweep(s) \/ Cat!SweepStep(s)
  PROVE  Follows'
<1>t. CatTypes
  BY DEF Follows
<1>1. CASE Cat!StartSweep(s)
  <2>1. ~Sweeping /\ updated = 1 /\ updated' = 0 /\ app_call.pc = "idle"
    BY <1>1, <1>t DEF Cat!StartSweep, Follows, CatTypes, Sweeping
  <2>2. UNCHANGED <<exists, elements, app_call, cleared, cat_up>>
    BY <1>1 DEF Cat!StartSweep, Cat!SweepRest, Cat!redis
  <2>3. known' = Cat!Marked(Cats) /\ sweep' = [sweep EXCEPT ![s].pc = "keys"]
    BY <1>1, <1>t DEF Cat!StartSweep, CatTypes
  <2> DEFINE r == [sweep[s] EXCEPT !.pc = "keys"]
  <2>4. r \in SweepStates /\ r.pc = "keys" /\ sweep' = [sweep EXCEPT ![s] = r]
    BY <1>t, <2>3 DEF CatTypes, SweepStates
  <2> HIDE DEF r
  <2>5. \A c \in Cats : known[c] \in {"exists", "absent"}
    BY <2>1 DEF Follows, Unseen
  <2>6. /\ known' \in [Cats -> {"absent", "exists", "marked"}]
        /\ \A c \in Cats : known'[c] = IF known[c] = "exists" THEN "marked" ELSE "absent"
    BY <2>3, <2>5 DEF Cat!Marked
  <2>7. \A c \in Cats : Knows(s, c)'
    BY <1>t, <2>4, <2>6 DEF Knows, CatTypes
  <2>8. \A c \in Cats : ~exists[c] /\ elements'[c] # {} => known'[c] # "absent"
    BY <2>2, <2>5, <2>6 DEF Follows
  <2> QED
    BY <1>t, <2>1, <2>2, <2>4, <2>6, <2>7, <2>8, SweepGoesOn DEF CatTypes
<1>2. CASE Cat!ListKeys(s)
  <2>1. /\ sweep[s].pc = "keys" /\ Cat!Sweeping(s, Cat!Listed)
        /\ UNCHANGED <<known, exists, elements, app_call, updated, cleared, cat_up>>
    BY <1>2 DEF Cat!ListKeys, Cat!SweepRest, Cat!redis
  <2>2. \A c \in Cats : known[c] \in {"marked", "absent"}
    BY <2>1 DEF Follows, Knows
  <2>3. Cat!Listed \in SUBSET Cats /\ \A c \in Cats : c \in Cat!Listed <=> exists[c]
    BY DEF Cat!Listed
  <2>4. \A c \in Cats : ~exists[c] /\ elements[c] # {} => known'[c] # "absent"
    BY <2>1 DEF Follows
  <2> QED
    BY <1>t, <2>1, <2>2, <2>3, <2>4, SweepReads DEF CatTypes
<1>3. ASSUME NEW c \in Cats, Cat!ReadKey(s, c) PROVE Follows'
  <2>1. /\ sweep[s].pc = "read" /\ c \in sweep[s].todo
        /\ UNCHANGED <<exists, elements, app_call, updated, cleared, cat_up>>
    BY <1>3 DEF Cat!ReadKey, Cat!SweepRest, Cat!redis
  <2>2. \A d \in Cats : IF exists[d] THEN d \in sweep[s].todo \/ known[d] = "exists"
                        ELSE d \notin sweep[s].todo /\ known[d] \in {"marked", "absent"}
    BY <2>1 DEF Follows, Knows
  <2>3. /\ exists[c]
        /\ known' = [known EXCEPT ![c] = "exists"] /\ Cat!Sweeping(s, sweep[s].todo \ {c})
    BY <1>3, <2>1, <2>2 DEF Cat!ReadKey
  <2>4. /\ known' \in [Cats -> {"absent", "exists", "marked"}]
        /\ \A d \in Cats : known'[d] = IF d = c THEN "exists" ELSE known[d]
        /\ sweep[s].todo \ {c} \in SUBSET Cats
    BY <1>t, <2>3 DEF CatTypes
  <2>5. \A d \in Cats : ~exists[d] /\ elements[d] # {} => known'[d] # "absent"
    BY <2>3, <2>4 DEF Follows
  <2>6. \A d \in Cats : IF exists[d] THEN d \in (sweep[s].todo \ {c}) \/ known'[d] = "exists"
                        ELSE d \notin (sweep[s].todo \ {c}) /\ known'[d] \in {"marked", "absent"}
    BY <2>2, <2>3, <2>4
  <2> QED
    BY <2>1, <2>3, <2>4, <2>5, <2>6, SweepReads
<1>4. ASSUME NEW c \in Cats, Cat!Forget(s, c) PROVE Follows'
  <2>1. /\ sweep[s].pc = "flush" /\ c \in sweep[s].todo
        /\ elements' = [elements EXCEPT ![c] = {}] /\ known' = [known EXCEPT ![c] = "absent"]
        /\ UNCHANGED <<exists, app_call, updated, cat_up>>
        /\ cleared' = IF exists[c] THEN cleared \cup {c} ELSE cleared
    BY <1>4 DEF Cat!Forget
  <2>2. \A d \in Cats : /\ d \in sweep[s].todo <=> known[d] = "marked"
                        /\ exists[d] <=> known[d] = "exists"
    BY <2>1 DEF Follows, Knows
  <2>3. app_call.pc = "idle" /\ updated = 0 /\ UNCHANGED cleared
    BY <2>1, <2>2 DEF Follows, Sweeping
  <2>b. sweep[s] \in SweepStates /\ Cat!NoSweep \in SweepStates
    BY <1>t DEF CatTypes, SweepStates, Cat!NoSweep
  <2> DEFINE rest == [Cat!NoSweep EXCEPT !.pc = "flush", !.todo = sweep[s].todo \ {c}]
             r == IF sweep[s].todo = {c} THEN Cat!NoSweep ELSE rest
  <2>e. sweep' = [sweep EXCEPT ![s] = r]
    BY <1>4 DEF Cat!Forget
  <2>c. rest \in SweepStates /\ rest.pc = "flush" /\ rest.todo = sweep[s].todo \ {c}
    BY <2>b DEF SweepStates, Cat!NoSweep
  <2> HIDE DEF rest
  <2>4. r \in SweepStates /\ sweep' = [sweep EXCEPT ![s] = r]
    BY <2>b, <2>c, <2>e
  <2>5. \/ r.pc = "idle" /\ sweep[s].todo = {c}
        \/ r.pc = "flush" /\ r.todo = sweep[s].todo \ {c}
    BY <2>1, <2>c DEF Cat!NoSweep
  <2> HIDE DEF r
  <2>6. /\ known' \in [Cats -> {"absent", "exists", "marked"}]
        /\ elements' \in [Cats -> SUBSET Cat!Elements]
        /\ \A d \in Cats : /\ known'[d] = IF d = c THEN "absent" ELSE known[d]
                           /\ elements'[d] = IF d = c THEN {} ELSE elements[d]
    BY <1>t, <2>1 DEF CatTypes
  <2>7. \A d \in Cats : ~exists[d] /\ elements'[d] # {} => known'[d] # "absent"
    BY <2>6 DEF Follows
  <2>8. ASSUME r.pc = "flush", NEW d \in Cats PROVE Knows(s, d)'
    <3>1. sweep'[s] = r
      BY <1>t, <2>4 DEF CatTypes
    <3> QED
      BY <2>1, <2>2, <2>5, <2>6, <2>8, <3>1 DEF Knows
  <2>9. ASSUME r.pc = "idle", NEW d \in Cats
        PROVE  known'[d] = IF exists[d] THEN "exists" ELSE "absent"
    BY <1>t, <2>2, <2>5, <2>6, <2>9 DEF CatTypes
  <2> QED
    BY <2>1, <2>3, <2>4, <2>5, <2>6, <2>7, <2>8, <2>9, SweepGoesOn
<1> QED
  BY <1>1, <1>2, <1>3, <1>4 DEF Cat!SweepStep

\* The steps of the recycles leave what the sweeps and the app work on alone.
LEMMA RecycleCat ==
  ASSUME NEW x \in Recycles,
         \/ Cat!RecycleStep(x)
         \/ \E c \in Cats : Cat!HandleUpdate(x, c) \/ Cat!NextHourly(x, c)
         \/ Cat!StartHourly
  PROVE  UNCHANGED <<exists, elements, app_call, updated, known, sweep, cleared, cat_up, cat_crashes>>
BY DEF Cat!RecycleStep, Cat!FillAddresses, Cat!ReadDomains, Cat!Unblock, Cat!FillDomain, Cat!Swap,
   Cat!FlushTemp, Cat!Block, Cat!HandleUpdate, Cat!NextHourly, Cat!StartHourly, Cat!RecycleRest,
   Cat!redis

LEMMA NextCat == ASSUME Patient, CatInv, [Cat!Next]_(Cat!vars) PROVE CatInv'
<1>1. ASSUME UNCHANGED <<exists, elements, app_call, updated, known, sweep, cleared, cat_up, cat_crashes>>
      PROVE  CatInv'
  BY <1>1 DEF CatInv, Follows, CatTypes, Sweeping, Unseen, Knows
<1>2. ASSUME UNCHANGED cat_crashes, Follows => Follows' PROVE CatInv'
  BY <1>2 DEF CatInv
<1>3. CASE \/ \E c \in Cats : \/ Cat!DeleteKey(c) \/ Cat!Remove(c)
                              \/ \E new \in SUBSET Cat!Elements : Cat!FlushElements(c, new)
           \/ Cat!AppStep
  <2>1. UNCHANGED cat_crashes
    BY <1>3 DEF Cat!DeleteKey, Cat!Remove, Cat!FlushElements, Cat!AppStep, Cat!Rest
  <2> QED
    BY <1>2, <1>3, <2>1, AppCat
<1>4. ASSUME NEW s \in Sweeps, Cat!StartSweep(s) \/ Cat!SweepStep(s) PROVE CatInv'
  <2>1. UNCHANGED cat_crashes
    BY <1>4 DEF Cat!StartSweep, Cat!SweepStep, Cat!ListKeys, Cat!ReadKey, Cat!Forget, Cat!SweepRest
  <2> QED
    BY <1>2, <1>4, <2>1, SweepCat
<1>5. ASSUME NEW x \in Recycles,
             \/ Cat!RecycleStep(x)
             \/ \E c \in Cats : Cat!HandleUpdate(x, c) \/ Cat!NextHourly(x, c)
      PROVE  CatInv'
  BY <1>1, <1>5, RecycleCat
<1>6. CASE Cat!StartHourly
  BY <1>1, <1>6 DEF Cat!StartHourly, Cat!RecycleRest, Cat!redis
<1>7. CASE Cat!Crash
  BY <1>7 DEF Cat!Crash, CatInv
<1>8. CASE Cat!Boot
  BY <1>8 DEF Cat!Boot, CatInv, Follows
<1>9. CASE UNCHANGED Cat!vars
  BY <1>1, <1>9 DEF Cat!vars, Cat!redis
<1> QED
  BY <1>3, <1>4, <1>5, <1>6, <1>7, <1>8, <1>9 DEF Cat!Next

\* However the removal of a category, its updates, the hourly refresh and the sweeps
\* interleave, once FireMain has caught up only categories that exist have elements,
\* and no sweep has flushed a category that exists (CategoryUpdater.js), as long as
\* FireMain has not crashed and the app waits.
THEOREM RemovedLeavesNothing ==
  ASSUME Patient PROVE Cat!Spec => []RemovedIsCleared
<1>1. CatInv /\ [Cat!Next]_(Cat!vars) => CatInv'
  BY NextCat
<1>2. CatInv => RemovedIsCleared
  <2> SUFFICES ASSUME CatInv, Cat!Idle, cat_crashes = 0
               PROVE  Cat!ClearedWasRemoved /\ \A c \in Cats : elements[c] # {} => exists[c]
    BY DEF RemovedIsCleared, Cat!RemovedIsCleared
  <2>1. ~Sweeping /\ ~Unseen
    BY DEF Cat!Idle, Sweeping, Unseen
  <2> QED
    BY <2>1 DEF CatInv, Follows, Cat!ClearedWasRemoved
<1> QED
  BY <1>1, <1>2, InitCat, PTL DEF Cat!Spec
=============================================================================

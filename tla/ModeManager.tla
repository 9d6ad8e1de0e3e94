----------------------------- MODULE ModeManager -----------------------------
(* The monitoring mode of the box: net2/Mode.js keeps it in redis,            *)
(* net2/ModeManager.js applies it in FireMain when FireMain boots and when    *)
(* the app publishes a change, net2/SpooferManager.js starts and stops the    *)
(* spoofing of the network, which a service of its own does                   *)
(* (extension/bitbridge) from the files that describe its instances.          *)
(* One network can be spoofed. A step is the code between two awaits; where   *)
(* what is awaited is in memory there is none.                                *)
EXTENDS Naturals, Sequences

CONSTANTS Spoofing,  \* modes that spoof (spoof, dhcpSpoof; manualSpoof, which registers no
                     \* network, is left out)
          Others,    \* modes that do not (dhcp, router), apart from None
          None,      \* the mode "none"
          Tasks,     \* calls of apply, reapply and _revert2None under way
          Reloads,   \* callbacks of reloadTask under way
          Patient,   \* TRUE: the app changes the mode, and the ten minutes of a revert
                     \* are over, when FireMain has applied the last mode
          MaxOps, MaxCrashes \* bounds

Modes == Spoofing \cup Others \cup {None}

VARIABLES mode,        \* redis "mode"
          appMode,     \* Mode._setupMode of FireApi
          channel,     \* Mode:Change messages on their way to FireMain
          listening,   \* FireMain has subscribed to them
          up,          \* FireMain runs
          setupMode,   \* Mode._setupMode of FireMain
          curMode,
          task,
          bootingComplete, firstBindDone, \* redis: the app has completed the boot; the first
                       \* app has been paired
          revert,      \* the timeout of _enforceSpoofMode is armed
          spoofStarted,
          registered,  \* registeredSpoofInstances has the network's instance
          network,     \* where NetworkProfile.spoof is
          configs,     \* the instance's file is there
          reloadTask,  \* the timeout of scheduleReload is armed
          reload,
          service,     \* the bitbridge service spoofs
          ops, crashes

app == <<mode, appMode, channel, ops>>
main == <<listening, up, setupMode, curMode>>
boot == <<bootingComplete, firstBindDone, revert>>
spoofer == <<spoofStarted, registered, network, configs>>
loader == <<reloadTask, reload, service>>
vars == <<app, main, task, boot, spoofer, loader, crashes>>

\* A task is at pc; after it has stopped spoofing it reads the mode from redis
\* ("redis") or not; the one of the boot looks at the flags at its beginning and
\* subscribes at its end.
Idle == [pc |-> "idle", mode |-> None, redis |-> FALSE, boot |-> FALSE]
Stop(redis) == [Idle EXCEPT !.pc = "stop", !.redis = redis]
BootTask == [Idle EXCEPT !.pc = "flags", !.boot = TRUE]
Goto(t, pc) == task' = [task EXCEPT ![t].pc = pc]
\* apply() is over; main.js subscribes after the first one.
Done(t) == /\ task' = [task EXCEPT ![t] = Idle]
           /\ listening' = (listening \/ task[t].boot)

Init == /\ mode \in Modes /\ appMode = mode /\ channel = <<>>
        /\ listening = FALSE /\ up = FALSE /\ setupMode = None /\ curMode = None
        /\ task = [t \in Tasks |-> Idle]
        /\ bootingComplete \in BOOLEAN /\ firstBindDone \in BOOLEAN /\ revert = FALSE
        /\ spoofStarted = FALSE /\ registered = FALSE /\ network = "idle" /\ configs = FALSE
        /\ reloadTask = FALSE /\ reload = [r \in Reloads |-> "idle"] /\ service = FALSE
        /\ ops = 0 /\ crashes = 0
-----------------------------------------------------------------------------
(* The app changes the mode to one that FireApi does not take for the current *)
(* one: it is written and published. Nobody keeps a message for FireMain.     *)
Quiet == /\ up /\ listening /\ channel = <<>> /\ network = "idle"
         /\ \A t \in Tasks : task[t] = Idle
         /\ ~reloadTask /\ \A r \in Reloads : reload[r] = "idle"

SetModeAndPublish(m) ==
    /\ ops < MaxOps /\ m # appMode
    /\ Patient => Quiet
    /\ ops' = ops + 1
    /\ mode' = m /\ appMode' = m
    /\ channel' = IF listening THEN Append(channel, m) ELSE channel
    /\ UNCHANGED <<main, task, boot, spoofer, loader, crashes>>

\* Which modes' spoofing has to be stopped before another is applied.
StopOrRead(t, last) ==
    IF last \in Spoofing
    THEN task' = [task EXCEPT ![t] = Stop(TRUE)] /\ spoofStarted' = FALSE
    ELSE task' = [task EXCEPT ![t] = [Idle EXCEPT !.pc = "reload"]] /\ UNCHANGED spoofStarted

\* listenOnChange and the beginning of reapply.
Receive(t) ==
    /\ channel # <<>> /\ task[t] = Idle
    /\ channel' = Tail(channel)
    /\ IF Head(channel) = curMode THEN UNCHANGED <<task, spoofStarted>>
       ELSE StopOrRead(t, setupMode)
    /\ UNCHANGED <<mode, appMode, ops, main, boot, registered, network, configs, loader, crashes>>

\* stopSpoofing takes the instance's file away and schedules the reload. Then
\* reapply reads the mode from redis, switchToNone takes the one it has set.
ScheduleReload == reloadTask' = TRUE
StopFiles_noReload == configs' = (configs /\ ~registered) /\ UNCHANGED reloadTask
StopFiles == configs' = (configs /\ ~registered) /\ ScheduleReload
StopSpoofing(t) ==
    /\ task[t].pc = "stop"
    /\ StopFiles
    /\ IF task[t].redis
       THEN Goto(t, "reload") /\ UNCHANGED curMode
       ELSE /\ task' = [task EXCEPT ![t] = [Idle EXCEPT !.pc = "config", !.mode = setupMode]]
            /\ curMode' = setupMode
    /\ UNCHANGED <<app, listening, up, setupMode, boot, spoofStarted, registered, network,
                   reload, service, crashes>>

\* A reload that takes the mode of its own process for the one in redis.
Latest_cached == setupMode
Latest == mode

\* reloadSetupMode, and apply() up to the await of applyModeConfig.
ReloadSetupMode(t) ==
    /\ task[t].pc = "reload"
    /\ setupMode' = Latest /\ curMode' = Latest
    /\ task' = [task EXCEPT ![t].pc = "config", ![t].mode = Latest]
    /\ UNCHANGED <<app, listening, up, boot, spoofer, loader, crashes>>

ArmRevert_never == UNCHANGED revert
ArmRevert == revert' = (revert \/ (~bootingComplete /\ firstBindDone))

\* The switch over the mode; _enforceSpoofMode arms the timeout that goes back
\* to "none" (a box without the flag of the first binding is an old one and has
\* no timeout), and startSpoofing returns if it has been here.
Apply(t) ==
    /\ task[t].pc = "config"
    /\ IF task[t].mode \in Spoofing
       THEN /\ ArmRevert
            /\ IF spoofStarted THEN Done(t) ELSE Goto(t, "clean") /\ UNCHANGED listening
       ELSE Done(t) /\ UNCHANGED revert
    /\ UNCHANGED <<app, up, setupMode, curMode, bootingComplete, firstBindDone, spoofer, loader,
                   crashes>>

\* cleanupSpoofInstanceConfigs.
CleanUp(t) ==
    /\ task[t].pc = "clean"
    /\ configs' = FALSE
    /\ Goto(t, "start")
    /\ UNCHANGED <<app, main, boot, spoofStarted, registered, network, loader, crashes>>

StartInstance(t) ==
    /\ task[t].pc = "start" /\ registered
    /\ configs' = TRUE
    /\ Goto(t, "started")
    /\ UNCHANGED <<app, main, boot, spoofStarted, registered, network, loader, crashes>>

\* Without an instance nothing is awaited in between.
Started(t) ==
    /\ \/ task[t].pc = "started"
       \/ task[t].pc = "start" /\ ~registered
    /\ spoofStarted' = TRUE
    /\ ScheduleReload
    /\ Done(t)
    /\ UNCHANGED <<app, up, setupMode, curMode, boot, registered, network, configs, reload,
                   service, crashes>>
-----------------------------------------------------------------------------
(* The boot completes at some time, or never. The timeout of _revert2None is  *)
(* armed anew by a task that goes on to start spoofing, which takes less.     *)
Spoofs == {"clean", "start", "started"}
BootCompletes ==
    /\ up /\ ~bootingComplete
    /\ bootingComplete' = TRUE
    /\ UNCHANGED <<app, main, task, firstBindDone, revert, spoofer, loader, crashes>>

\* The first app is paired, with another process.
FirstBinding ==
    /\ ~firstBindDone
    /\ firstBindDone' = TRUE
    /\ UNCHANGED <<app, main, task, bootingComplete, revert, spoofer, loader, crashes>>

Revert2None(t) ==
    /\ revert /\ task[t] = Idle
    /\ IF Patient THEN Quiet ELSE \A x \in Tasks : task[x].pc \notin Spoofs
    /\ revert' = FALSE
    /\ IF bootingComplete \/ ~firstBindDone THEN UNCHANGED <<mode, setupMode, task, spoofStarted>>
       ELSE /\ mode' = None /\ setupMode' = None
            /\ task' = [task EXCEPT ![t] = Stop(FALSE)]
            /\ spoofStarted' = FALSE
    /\ UNCHANGED <<appMode, channel, ops, listening, up, curMode, bootingComplete, firstBindDone,
                   registered, network, configs, loader, crashes>>
-----------------------------------------------------------------------------
(* NetworkProfile.spoof registers the network's instance or takes it out,     *)
(* when the policy "monitor" of the network is applied.                       *)
SpoofOn ==
    /\ up /\ network = "idle" /\ setupMode \in Spoofing /\ ~registered
    /\ registered' = TRUE
    /\ network' = "write"
    /\ UNCHANGED <<app, main, task, boot, spoofStarted, configs, loader, crashes>>

SpoofOff ==
    /\ up /\ network = "idle" /\ setupMode \in Spoofing /\ registered
    /\ ops < MaxOps /\ ops' = ops + 1
    /\ network' = "unlink"
    /\ UNCHANGED <<mode, appMode, channel, main, task, boot, spoofStarted, registered, configs,
                   loader, crashes>>

NetworkStep ==
    /\ \/ network = "write" /\ configs' = TRUE /\ UNCHANGED registered
       \/ network = "unlink" /\ configs' = FALSE /\ registered' = FALSE
    /\ network' = "idle"
    /\ ScheduleReload
    /\ UNCHANGED <<app, main, task, boot, spoofStarted, reload, service, crashes>>
-----------------------------------------------------------------------------
(* The callback of reloadTask: stop, look at spoofStarted, restart.           *)
Fire(r) ==
    /\ reloadTask /\ reload[r] = "idle"
    /\ reloadTask' = FALSE
    /\ reload' = [reload EXCEPT ![r] = "stop"]
    /\ UNCHANGED <<app, main, task, boot, spoofer, service, crashes>>

ReloadStep(r) ==
    /\ \/ /\ reload[r] = "stop" /\ service' = FALSE
          /\ reload' = [reload EXCEPT ![r] = "look"]
       \/ /\ reload[r] = "look" /\ UNCHANGED service
          /\ reload' = [reload EXCEPT ![r] = IF spoofStarted THEN "restart" ELSE "idle"]
       \/ /\ reload[r] = "restart" /\ service' = configs
          /\ reload' = [reload EXCEPT ![r] = "idle"]
    /\ UNCHANGED <<app, main, task, boot, spoofer, reloadTask, crashes>>
-----------------------------------------------------------------------------
(* FireMain exits: subscribeOnProcessExit stops the service if it is thought  *)
(* to be started. Files and service are what they are at the next boot.       *)
StopOnExit == service' = (service /\ ~spoofStarted)
Exit ==
    /\ up /\ crashes < MaxCrashes /\ crashes' = crashes + 1
    /\ up' = FALSE /\ listening' = FALSE /\ channel' = <<>>
    /\ setupMode' = None /\ curMode' = None
    /\ task' = [t \in Tasks |-> Idle]
    /\ revert' = FALSE
    /\ spoofStarted' = FALSE /\ registered' = FALSE /\ network' = "idle"
    /\ reloadTask' = FALSE /\ reload' = [r \in Reloads |-> "idle"]
    /\ StopOnExit
    /\ UNCHANGED <<mode, appMode, ops, bootingComplete, firstBindDone, configs>>

Boot(t) ==
    /\ ~up
    /\ up' = TRUE
    /\ task' = [task EXCEPT ![t] = BootTask]
    /\ UNCHANGED <<app, listening, setupMode, curMode, boot, spoofer, loader, crashes>>

\* resetModeInInitStage, which main.js begins with ("always reset to none mode if
\* bootingComplete flag is off and firstBinding is complete"), is over long before
\* apply() is called.
CheckInitStage(t) ==
    /\ task[t].pc = "flags"
    /\ setupMode' = mode
    /\ Goto(t, IF ~bootingComplete /\ firstBindDone /\ mode \in Spoofing THEN "reset" ELSE "reload")
    /\ UNCHANGED <<app, listening, up, curMode, boot, spoofer, loader, crashes>>

ResetMode(t) ==
    /\ task[t].pc = "reset"
    /\ mode' = None /\ setupMode' = None
    /\ Goto(t, "reload")
    /\ UNCHANGED <<appMode, channel, ops, listening, up, curMode, boot, spoofer, loader, crashes>>

TaskStep(t) == CheckInitStage(t) \/ ResetMode(t) \/ StopSpoofing(t) \/ ReloadSetupMode(t)
               \/ Apply(t) \/ CleanUp(t) \/ StartInstance(t) \/ Started(t)

Next == \/ \E m \in Modes : SetModeAndPublish(m)
        \/ \E t \in Tasks : Receive(t) \/ TaskStep(t) \/ Revert2None(t) \/ Boot(t)
        \/ BootCompletes \/ FirstBinding \/ SpoofOn \/ SpoofOff \/ NetworkStep
        \/ \E r \in Reloads : Fire(r) \/ ReloadStep(r)
        \/ Exit

\* Messages arrive, code that has begun goes on, timeouts expire, FireMain is
\* restarted, and the policy of the network is applied.
Fairness ==
    /\ WF_vars(\E t \in Tasks : Receive(t)) /\ \A t \in Tasks : WF_vars(TaskStep(t))
    /\ WF_vars(\E t \in Tasks : Revert2None(t)) /\ WF_vars(\E t \in Tasks : Boot(t))
    /\ WF_vars(SpoofOn) /\ WF_vars(NetworkStep)
    /\ WF_vars(\E r \in Reloads : Fire(r)) /\ \A r \in Reloads : WF_vars(ReloadStep(r))

Spec == Init /\ [][Next]_vars /\ Fairness
-----------------------------------------------------------------------------
(* ModeManager.js:293, "if anyone update mode in redis, re-apply it": when    *)
(* nothing is under way, FireMain has applied the mode in redis, and spoofing *)
(* is on exactly in the modes that spoof.                                     *)
ModeIsApplied == Quiet => curMode = mode /\ (spoofStarted <=> mode \in Spoofing)

(* The service spoofs a registered network when nothing is under way and the  *)
(* mode spoofs; it spoofs nothing in another mode, unless FireMain exited     *)
(* between stopSpoofing and the reload it had scheduled.                      *)
ServiceFollowsMode ==
    Quiet => /\ mode \in Spoofing /\ registered => service
             /\ service /\ crashes = 0 => mode \in Spoofing /\ registered

(* ModeManager.js:54, "Revert back to none mode for safety": a box that has   *)
(* been paired and begins to spoof without its boot complete comes to rest in *)
(* a mode that does not spoof, unless its boot completes: by the timeout, or  *)
(* by the reset at the beginning of the next FireMain.                        *)
BeginsUnsafe == /\ firstBindDone /\ ~bootingComplete
                /\ \E t \in Tasks : task[t].pc = "config" /\ task[t].mode \in Spoofing
RevertsToNone == BeginsUnsafe ~> bootingComplete \/ (Quiet /\ mode \notin Spoofing)
=============================================================================

----------------------------- MODULE MCServices ------------------------------
(* Two parts of FireMain that apply what the app leaves in redis, checked in  *)
(* one run: the mode of the box and the sets of categories. A behaviour is    *)
(* one of ModeManager or CategoryUpdater; the variables of the other stay as  *)
(* they are initially.                                                        *)
EXTENDS ModeManager, TLC

CONSTANTS Cats, Active, Sweeps, Recycles, MaxCatOps, MaxCatCrashes  \* CategoryUpdater

VARIABLES component, \* the one that moves
          exists, elements, app_call, updated, domainEvents, known, sweep, ipset, temp, effective,
          cat_registered, recycle, hourly, cleared, cat_up, cat_ops, cat_crashes

Cat == INSTANCE CategoryUpdater WITH
    app <- app_call, registered <- cat_registered, up <- cat_up, ops <- cat_ops,
    crashes <- cat_crashes, MaxOps <- MaxCatOps, MaxCrashes <- MaxCatCrashes

catVars == <<exists, elements, app_call, updated, domainEvents, known, sweep, ipset, temp,
             effective, cat_registered, recycle, hourly, cleared, cat_up, cat_ops, cat_crashes>>
allVars == <<component, vars, catVars>>

\* The part that does not move has one initial state.
ServicesInit ==
    /\ component \in {"mode", "cat"}
    /\ Init /\ Cat!Init
    /\ component = "mode" => \A c \in Cats : ~exists[c]
    /\ component = "cat" => mode = None /\ bootingComplete /\ firstBindDone

InMode == component = "mode" /\ UNCHANGED <<component, catVars>>
InCat == component = "cat" /\ UNCHANGED <<component, vars>>

ModeSetModeAndPublish(m) == InMode /\ SetModeAndPublish(m)
ModeReceive(t) == InMode /\ Receive(t)
ModeStopSpoofing(t) == InMode /\ StopSpoofing(t)
ModeReloadSetupMode(t) == InMode /\ ReloadSetupMode(t)
ModeApply(t) == InMode /\ Apply(t)
ModeCleanUp(t) == InMode /\ CleanUp(t)
ModeStartInstance(t) == InMode /\ StartInstance(t)
ModeStarted(t) == InMode /\ Started(t)
ModeRevert2None(t) == InMode /\ Revert2None(t)
ModeBoot(t) == InMode /\ Boot(t)
ModeCheckInitStage(t) == InMode /\ CheckInitStage(t)
ModeResetMode(t) == InMode /\ ResetMode(t)
ModeFirstBinding == InMode /\ FirstBinding
ModeBootCompletes == InMode /\ BootCompletes
ModeSpoofOn == InMode /\ SpoofOn
ModeSpoofOff == InMode /\ SpoofOff
ModeNetworkStep == InMode /\ NetworkStep
ModeFire(r) == InMode /\ Fire(r)
ModeReloadStep(r) == InMode /\ ReloadStep(r)
ModeExit == InMode /\ Exit
\* A FireMain that crashes meets fewer operations.
CatNext == InCat /\ Cat!Next /\ cat_ops' + cat_crashes' <= MaxCatOps

ServicesNext ==
    \/ \E m \in Modes : ModeSetModeAndPublish(m)
    \/ \E t \in Tasks : \/ ModeReceive(t) \/ ModeStopSpoofing(t) \/ ModeReloadSetupMode(t)
                        \/ ModeApply(t) \/ ModeCleanUp(t) \/ ModeStartInstance(t)
                        \/ ModeStarted(t) \/ ModeRevert2None(t) \/ ModeBoot(t)
                        \/ ModeCheckInitStage(t) \/ ModeResetMode(t)
    \/ ModeBootCompletes \/ ModeFirstBinding \/ ModeSpoofOn \/ ModeSpoofOff \/ ModeNetworkStep
    \/ \E r \in Reloads : ModeFire(r) \/ ModeReloadStep(r)
    \/ ModeExit
    \/ CatNext

\* The fairness of the two modules. Where a conjunct has a disjunct of each, it
\* is the one of the component that moves that counts: the other is never enabled.
ServicesFair ==
    /\ WF_allVars(ModeSpoofOn \/ (InCat /\ Cat!AppStep))
    /\ WF_allVars(ModeNetworkStep \/ (InCat /\ Cat!StartHourly))
    /\ WF_allVars((InMode /\ \E t \in Tasks : Boot(t)) \/ (InCat /\ Cat!Boot))
    /\ WF_allVars(\/ InMode /\ \E t \in Tasks : Receive(t)
                  \/ InCat /\ \E s \in Sweeps : Cat!StartSweep(s))
    /\ \A x \in Tasks : WF_allVars((InMode /\ TaskStep(x)) \/ (InCat /\ Cat!SweepStep(x)))
    /\ \A x \in Recycles : WF_allVars(InCat /\ Cat!RecycleStep(x))
    /\ WF_allVars(InMode /\ \E t \in Tasks : Revert2None(t))
    /\ WF_allVars(InMode /\ \E r \in Reloads : Fire(r))
    /\ \A r \in Reloads : WF_allVars(InMode /\ ReloadStep(r))
    /\ \A c \in Cats : /\ SF_allVars(InCat /\ \E x \in Recycles : Cat!HandleUpdate(x, c))
                       /\ SF_allVars(InCat /\ \E x \in Recycles : Cat!NextHourly(x, c))
ServicesSpec == ServicesInit /\ [][ServicesNext]_allVars /\ ServicesFair
-----
(* CategoryUpdater: what is removed is cleared, and nothing else is.          *)
RemovedIsCleared == Cat!RemovedIsCleared

(* CategoryUpdater: the set of a category in use catches up with its elements.*)
SetCatchesUp == Cat!SetCatchesUp
=============================================================================

------------------------------- MODULE MCRules --------------------------------
(* Rules come into force and go, checked in one run: the scheduler that       *)
(* switches recurring ones on and off, and what a rule consists of while it   *)
(* is enforced. A behaviour is one of PolicyScheduler or RuleInstall; the     *)
(* variables of the other stay as they are initially.                         *)
EXTENDS PolicyScheduler, TLC

CONSTANTS p1, p2, p3, a, b,                                           \* policies, addresses
          RulePids, Boxes, MaxHandler, MaxOps, MaxBacklog, MaxToggles \* RuleInstall

VARIABLES component, \* the one that moves
          rule, enabled, queue, worker, ipset, chains, filters, handlerOf, policyOf, class,
          smart_block, check, ops, toggles

Install == INSTANCE RuleInstall WITH Pids <- RulePids

ASSUME InstallAssumption ==
    /\ MaxHandler \in Nat
    /\ None \notin RulePids /\ None \notin 2 .. MaxHandler
    /\ Queue \notin RulePids

installVars == <<rule, enabled, queue, worker, ipset, chains, filters, handlerOf, policyOf,
                 class, smart_block, check, ops, toggles>>
allVars == <<component, vars, installVars>>

\* What the policies of a box may say.
Domain == [type |-> "domain", action |-> "block", target |-> {a}, tags |-> <<>>, scopes |-> <<>>,
           ttl |-> FALSE, hi |-> FALSE, dnsmasq_only |-> FALSE, cronTime |-> FALSE]
OnTag == [Domain EXCEPT !.tags = <<"t1">>]
Qos == [OnTag EXCEPT !.action = "qos"]
Category == [OnTag EXCEPT !.type = "category", !.target = "ads"]
Of(r1, r2, r3) == (p1 :> r1) @@ (p2 :> r2) @@ (p3 :> r3)

\* Two simple rules that share a target, and a rule for a tag and a device.
Sharing == Of(Domain, [Domain EXCEPT !.target = {a, b}], [OnTag EXCEPT !.scopes = <<"d1">>])
\* One qos rule more than there are handlers.
Limited == Of(Qos, Qos, Qos)
\* A recurring rule beside the queue.
Timed == Of([OnTag EXCEPT !.cronTime = TRUE], Qos, Category)
AllBoxes == {Sharing, Limited, Timed}

\* One rule that is nothing but a member of a shared set.
Lonely == {(p1 :> Domain)}
\* A rule on a domain whose addresses are given a ttl.
Ttl == {(p1 :> [Domain EXCEPT !.ttl = TRUE])}
\* A qos rule on two tags beside another one.
TwoTags == {(p1 :> [Qos EXCEPT !.tags = <<"t1", "t2">>]) @@ (p2 :> Qos)}
\* Two qos rules, one of them recurring.
TimedQos == {(p1 :> [Qos EXCEPT !.cronTime = TRUE]) @@ (p2 :> Qos)}

\* The part that does not move has one initial state.
RulesInit ==
    /\ component \in {"scheduler", "install"}
    /\ Init /\ Install!Init
    /\ component = "scheduler" => rule = (CHOOSE box \in Boxes : TRUE) /\ ~smart_block

OfScheduler == component = "scheduler"
OfInstall == component = "install"

RulesNext == \/ OfScheduler /\ Next /\ UNCHANGED <<component, installVars>>
             \/ OfInstall /\ Install!Next /\ UNCHANGED <<component, vars>>

\* The fairness of the two modules, each in its own behaviours.
RulesFair ==
    /\ \A s \in Slots : WF_vars(OfScheduler /\ ActivationStep(s))
    /\ \A c \in Callers : WF_vars(OfScheduler /\ CallerStep(c))
    /\ \A r \in Reloads : WF_vars(OfScheduler /\ ReloadNext(r))
    /\ WF_installVars(OfInstall /\ Install!TakeJob)
    /\ \A w \in {Queue} \cup RulePids : WF_installVars(OfInstall /\ Install!Work(w))
    /\ WF_installVars(OfInstall /\ Install!CheckStep)
RulesSpec == RulesInit /\ [][RulesNext]_allVars /\ RulesFair
-----------------------------------------------------------------------------
(* RuleInstall: nothing is left of a rule that is disabled.                   *)
UncheckedIsGone == Install!UncheckedIsGone

(* RuleInstall: a mark in the chains is of one policy, and selects its class. *)
MarksAreOwned == Install!MarksAreOwned

(* RuleInstall: a rule that another one has taken down comes back.            *)
BackInForce == Install!BackInForce
=============================================================================

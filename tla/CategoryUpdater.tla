--------------------------- MODULE CategoryUpdater ---------------------------
(* Lists of addresses and domains that the app defines ("customized           *)
(* categories") and the sets in the kernel that hold them:                    *)
(* control/CategoryUpdater.js and CategoryUpdaterBase.js in FireMain, with    *)
(* the operations of the app (netbot.js).  FireMain learns of a removed       *)
(* category by a sweep over all of them, and rebuilds the set of a category   *)
(* that a policy uses in a temporary set, when its elements change and every  *)
(* hour.                                                                      *)
(* The elements of a category are one address and one domain, which has one   *)
(* address of its own; a step is the code between two awaits.                 *)
EXTENDS Naturals, FiniteSets

CONSTANTS Cats,      \* the categories
          Active,    \* those that a policy in force uses
          Sweeps,    \* calls of refreshCustomizedCategories under way
          Recycles,  \* calls of recycleIPSet under way
          Patient,   \* TRUE: the app waits until FireMain has nothing to do
          MaxOps, MaxCrashes \* bounds

Elements == {"ip", "domain"}

VARIABLES exists,     \* redis customized_category:<c> is there
          elements,   \* redis category:<c>:ip4:domain and category:<c>:include:domain
          app,        \* what the app is in the middle of
          updated,    \* CustomizedCategory:Updated events that FireMain has to handle
          domainEvents, \* categories of UPDATE_CATEGORY_DOMAIN events to be handled
          known,      \* customizedCategories of FireMain: "absent", with its mark ("exists",
                      \* "marked"), or "null"
          sweep,
          ipset, temp,\* category -> elements whose addresses are in the kernel's sets
          effective,  \* effectiveCategoryDomains: the domain is in it
          registered, \* the domain is registered with the updater of domains
          recycle,
          hourly,     \* categories that refreshAllCategoryRecords has not come to
          cleared,    \* categories whose elements a sweep has flushed while they existed (history)
          up, ops, crashes

redis == <<exists, elements>>
kernel == <<ipset, temp, effective, registered>>
vars == <<redis, app, updated, domainEvents, known, sweep, kernel, recycle, hourly, cleared,
          up, ops, crashes>>

NoSweep == [pc |-> "idle", todo |-> {}, cat |-> "none"]
NoRecycle == [pc |-> "idle", cat |-> "none", now |-> {}, before |-> FALSE, all |-> FALSE]
NoApp == [pc |-> "idle", cat |-> "none", new |-> {}]

Init == /\ exists \in [Cats -> BOOLEAN]
        /\ elements = [c \in Cats |-> IF exists[c] THEN Elements ELSE {}]
        /\ app = NoApp /\ updated = 0 /\ domainEvents = {}
        /\ known = [c \in Cats |-> IF exists[c] THEN "exists" ELSE "absent"]
        /\ sweep = [s \in Sweeps |-> NoSweep]
        /\ ipset = [c \in Cats |-> IF c \in Active THEN elements[c] ELSE {}]
        /\ temp = [c \in Cats |-> {}]
        /\ effective = [c \in Cats |-> c \in Active /\ exists[c]] /\ registered = effective
        /\ recycle = [x \in Recycles |-> NoRecycle] /\ hourly = {}
        /\ cleared = {}
        /\ up = TRUE /\ ops = 0 /\ crashes = 0

Idle == /\ app.pc = "idle" /\ updated = 0 /\ domainEvents = {} /\ up /\ hourly = {}
        /\ \A s \in Sweeps : sweep[s].pc = "idle"
        /\ \A x \in Recycles : recycle[x].pc = "idle"
-----------------------------------------------------------------------------
(* The app. createOrUpdateCustomizedCategory deletes the record and writes it *)
(* again, removeCustomizedCategory deletes it, updateIncludedElements flushes *)
(* the elements and adds the new ones. The event of a FireMain that is down   *)
(* is lost.                                                                   *)
Begin(pc, c, new) ==
    /\ app.pc = "idle" /\ ops < MaxOps
    /\ Patient => Idle
    /\ ops' = ops + 1
    /\ app' = [pc |-> pc, cat |-> c, new |-> new]

Rest == <<known, sweep, kernel, recycle, hourly, cleared, up, crashes>>

DeleteKey(c) ==
    /\ Begin("create", c, {})
    /\ exists' = [exists EXCEPT ![c] = FALSE]
    /\ UNCHANGED <<elements, updated, domainEvents, Rest>>

Remove(c) ==
    /\ exists[c]
    /\ Begin("notify", c, {})
    /\ exists' = [exists EXCEPT ![c] = FALSE]
    /\ UNCHANGED <<elements, updated, domainEvents, Rest>>

FlushElements(c, new) ==
    /\ exists[c] /\ new # {}
    /\ Begin("add", c, new)
    /\ elements' = [elements EXCEPT ![c] = {}]
    /\ UNCHANGED <<exists, updated, domainEvents, Rest>>

AppStep ==
    LET c == app.cat IN
    /\ \/ /\ app.pc = "create"
          /\ exists' = [exists EXCEPT ![c] = TRUE]
          /\ app' = [app EXCEPT !.pc = "notify"]
          /\ UNCHANGED <<elements, updated, domainEvents>>
       \/ /\ app.pc = "notify"
          /\ updated' = IF up THEN updated + 1 ELSE updated
          /\ app' = NoApp
          /\ UNCHANGED <<redis, domainEvents>>
       \/ /\ app.pc = "add"
          /\ elements' = [elements EXCEPT ![c] = @ \cup app.new]
          /\ app' = [app EXCEPT !.pc = "domain"]
          /\ UNCHANGED <<exists, updated, domainEvents>>
       \/ /\ app.pc = "domain"
          /\ domainEvents' = IF up THEN domainEvents \cup {c} ELSE domainEvents
          /\ app' = NoApp
          /\ UNCHANGED <<redis, updated>>
    /\ UNCHANGED <<Rest, ops>>
-----------------------------------------------------------------------------
(* refreshCustomizedCategories: every known category is marked as gone, the   *)
(* keys are listed and read one by one, which marks them as there again, and  *)
(* what is still marked as gone is flushed. The marks are those of FireMain,  *)
(* not of the call.                                                           *)
Listed == {c \in Cats : exists[c]}

\* What a call does once it has no key to read: it takes the next category that
\* is gone, and ends when there is none.
Gone == {c \in Cats : known'[c] = "marked"}
Sweeping(s, todo) ==
    IF todo # {} THEN sweep' = [sweep EXCEPT ![s] = [NoSweep EXCEPT !.pc = "read", !.todo = todo]]
    ELSE IF Gone = {} THEN sweep' = [sweep EXCEPT ![s] = NoSweep]
    ELSE sweep' = [sweep EXCEPT ![s] = [NoSweep EXCEPT !.pc = "flush", !.todo = Gone]]

SweepRest == <<redis, app, domainEvents, kernel, recycle, hourly, cleared, up, ops, crashes>>

\* A null among the known categories ends the call at its TypeError: what comes
\* before it in the object has been marked.
Marked_notReset(cs) == known
Marked(cs) == [c \in Cats |-> IF c \in cs /\ known[c] = "exists" THEN "marked" ELSE known[c]]
StartSweep(s) ==
    /\ updated > 0 /\ sweep[s].pc = "idle"
    /\ updated' = updated - 1
    /\ IF \E c \in Cats : known[c] = "null"
       THEN /\ \E before \in SUBSET Cats : known' = Marked(before)
            /\ UNCHANGED sweep
       ELSE known' = Marked(Cats) /\ sweep' = [sweep EXCEPT ![s].pc = "keys"]
    /\ UNCHANGED SweepRest

ListKeys(s) ==
    /\ sweep[s].pc = "keys"
    /\ UNCHANGED known
    /\ Sweeping(s, Listed)
    /\ UNCHANGED <<SweepRest, updated>>

\* hgetall of a key that was deleted meanwhile gives null, which is stored before
\* the TypeError that ends the call.
ReadKey(s, c) ==
    /\ sweep[s].pc = "read" /\ c \in sweep[s].todo
    /\ IF exists[c]
       THEN /\ known' = [known EXCEPT ![c] = "exists"]
            /\ Sweeping(s, sweep[s].todo \ {c})
       ELSE /\ known' = [known EXCEPT ![c] = "null"]
            /\ sweep' = [sweep EXCEPT ![s] = NoSweep]
    /\ UNCHANGED <<SweepRest, updated>>

\* The flush, the event and the end of the category in FireMain.
Forget(s, c) ==
    /\ sweep[s].pc = "flush" /\ c \in sweep[s].todo
    /\ elements' = [elements EXCEPT ![c] = {}]
    /\ cleared' = IF exists[c] THEN cleared \cup {c} ELSE cleared
    /\ domainEvents' = domainEvents \cup {c}
    /\ known' = [known EXCEPT ![c] = "absent"]
    /\ sweep' = [sweep EXCEPT ![s] = IF sweep[s].todo = {c} THEN NoSweep
                                     ELSE [NoSweep EXCEPT !.pc = "flush",
                                                          !.todo = sweep[s].todo \ {c}]]
    /\ UNCHANGED <<exists, app, updated, kernel, recycle, hourly, up, ops, crashes>>
-----------------------------------------------------------------------------
(* recycleIPSet: the addresses go to the temporary set, the domains are       *)
(* compared with those of the last time, a removed one is unblocked, the      *)
(* others are resolved and added, the sets are swapped and the temporary one  *)
(* flushed, and a new domain is blocked.                                      *)
RecycleRest == <<redis, app, updated, known, sweep, cleared, up, ops, crashes>>
Start(x, c, all) == recycle' = [recycle EXCEPT ![x] =
                        [NoRecycle EXCEPT !.pc = "addresses", !.cat = c, !.all = all]]

\* The handler of UPDATE_CATEGORY_DOMAIN leaves a category alone that is not active.
HandleUpdate(x, c) ==
    /\ c \in domainEvents /\ recycle[x].pc = "idle"
    /\ domainEvents' = domainEvents \ {c}
    /\ IF c \in Active THEN Start(x, c, FALSE) ELSE UNCHANGED recycle
    /\ UNCHANGED <<RecycleRest, kernel, hourly>>

\* refreshAllCategoryRecords, every hour: one category after the other.
StartHourly ==
    /\ up /\ hourly = {} /\ \A x \in Recycles : ~recycle[x].all
    /\ hourly' = Active
    /\ UNCHANGED <<RecycleRest, domainEvents, kernel, recycle>>

NextHourly(x, c) ==
    /\ c \in hourly /\ recycle[x].pc = "idle"
    /\ \A y \in Recycles : ~recycle[y].all
    /\ hourly' = hourly \ {c}
    /\ Start(x, c, TRUE)
    /\ UNCHANGED <<RecycleRest, domainEvents, kernel>>

Goto(x, pc) == recycle' = [recycle EXCEPT ![x].pc = pc]

FillAddresses(x) ==
    LET c == recycle[x].cat IN
    /\ recycle[x].pc = "addresses"
    /\ temp' = [temp EXCEPT ![c] = @ \cup (elements[c] \cap {"ip"})]
    /\ Goto(x, "domains")
    /\ UNCHANGED <<RecycleRest, domainEvents, ipset, effective, registered, hourly>>

\* A removed domain has one more step, its unblocking.
ReadDomains(x) ==
    LET c == recycle[x].cat  now == elements[c] \cap {"domain"} IN
    /\ recycle[x].pc = "domains"
    /\ recycle' = [recycle EXCEPT ![x].now = now, ![x].before = effective[c],
                      ![x].pc = IF effective[c] /\ now = {} THEN "unblock"
                                ELSE IF now = {} THEN "swap" ELSE "fill"]
    /\ UNCHANGED <<RecycleRest, domainEvents, kernel, hourly>>

Unblock(x) ==
    LET c == recycle[x].cat IN
    /\ recycle[x].pc = "unblock"
    /\ ipset' = [ipset EXCEPT ![c] = @ \ {"domain"}]
    /\ registered' = [registered EXCEPT ![c] = FALSE]
    /\ Goto(x, "swap")
    /\ UNCHANGED <<RecycleRest, domainEvents, temp, effective, hourly>>

FillDomain(x) ==
    LET c == recycle[x].cat IN
    /\ recycle[x].pc = "fill"
    /\ temp' = [temp EXCEPT ![c] = @ \cup {"domain"}]
    /\ Goto(x, "swap")
    /\ UNCHANGED <<RecycleRest, domainEvents, ipset, effective, registered, hourly>>

Swap(x) ==
    LET c == recycle[x].cat IN
    /\ recycle[x].pc = "swap"
    /\ ipset' = [ipset EXCEPT ![c] = temp[c]]
    /\ temp' = [temp EXCEPT ![c] = ipset[c]]
    /\ Goto(x, "flush")
    /\ UNCHANGED <<RecycleRest, domainEvents, effective, registered, hourly>>

\* The end of the recycle, where no domain is new.
Finish(x) ==
    /\ effective' = [effective EXCEPT ![recycle[x].cat] = recycle[x].now # {}]
    /\ recycle' = [recycle EXCEPT ![x] = NoRecycle]

TempAfterSwap_kept(c) == temp[c]
TempAfterSwap(c) == {}
FlushTemp(x) ==
    /\ recycle[x].pc = "flush"
    /\ temp' = [temp EXCEPT ![recycle[x].cat] = TempAfterSwap(recycle[x].cat)]
    /\ IF recycle[x].now # {} /\ ~recycle[x].before
       THEN Goto(x, "block") /\ UNCHANGED effective
       ELSE Finish(x)
    /\ UNCHANGED <<RecycleRest, domainEvents, ipset, registered, hourly>>

Block(x) ==
    LET c == recycle[x].cat IN
    /\ recycle[x].pc = "block"
    /\ ipset' = [ipset EXCEPT ![c] = @ \cup {"domain"}]
    /\ registered' = [registered EXCEPT ![c] = TRUE]
    /\ Finish(x)
    /\ UNCHANGED <<RecycleRest, domainEvents, temp, hourly>>
-----------------------------------------------------------------------------
(* FireMain stops; the kernel's sets are set up anew when it starts, and      *)
(* IPTABLES_READY refreshes the categories and rebuilds all sets.             *)
Crash ==
    /\ crashes < MaxCrashes /\ up
    /\ crashes' = crashes + 1
    /\ up' = FALSE
    /\ known' = [c \in Cats |-> "absent"]
    /\ sweep' = [s \in Sweeps |-> NoSweep] /\ recycle' = [x \in Recycles |-> NoRecycle]
    /\ updated' = 0 /\ domainEvents' = {} /\ hourly' = {}
    /\ ipset' = [c \in Cats |-> {}] /\ temp' = ipset'
    /\ effective' = [c \in Cats |-> FALSE] /\ registered' = effective'
    /\ UNCHANGED <<redis, app, cleared, ops>>

Boot ==
    /\ ~up
    /\ up' = TRUE
    /\ updated' = 1 /\ hourly' = Active
    /\ UNCHANGED <<redis, app, domainEvents, known, sweep, kernel, recycle, cleared, ops, crashes>>

SweepStep(s) == ListKeys(s) \/ \E c \in Cats : ReadKey(s, c) \/ Forget(s, c)
RecycleStep(x) == FillAddresses(x) \/ ReadDomains(x) \/ Unblock(x) \/ FillDomain(x)
                  \/ Swap(x) \/ FlushTemp(x) \/ Block(x)

Next == \/ \E c \in Cats : \/ DeleteKey(c) \/ Remove(c)
                           \/ \E new \in SUBSET Elements : FlushElements(c, new)
        \/ AppStep
        \/ \E s \in Sweeps : StartSweep(s) \/ SweepStep(s)
        \/ \E x \in Recycles : RecycleStep(x) \/ \E c \in Cats : HandleUpdate(x, c) \/ NextHourly(x, c)
        \/ StartHourly
        \/ Crash \/ Boot

\* Code that has begun goes on, events are handled, the hour passes, FireMain is
\* restarted.
Fairness ==
    /\ WF_vars(AppStep) /\ WF_vars(Boot) /\ WF_vars(StartHourly)
    /\ WF_vars(\E s \in Sweeps : StartSweep(s)) /\ \A s \in Sweeps : WF_vars(SweepStep(s))
    /\ \A x \in Recycles : WF_vars(RecycleStep(x))
    /\ \A c \in Cats : /\ SF_vars(\E x \in Recycles : HandleUpdate(x, c))
                       /\ SF_vars(\E x \in Recycles : NextHourly(x, c))

Spec == Init /\ [][Next]_vars /\ Fairness
-----------------------------------------------------------------------------
(* CategoryUpdater.js:226, "Customized category ${c} is removed, will cleanup *)
(* enforcement env": what a sweep flushes are categories that have been       *)
(* removed.                                                                   *)
ClearedWasRemoved == cleared = {}

(* FireMain clears what it learns has been removed, and nothing else: once it *)
(* has caught up, a category the app has removed has left nothing behind, and *)
(* no category that exists has lost its elements to a sweep, unless FireMain  *)
(* was down.                                                                  *)
RemovedIsCleared ==
    Idle /\ crashes = 0 => /\ \A c \in Cats : elements[c] # {} => exists[c]
                          /\ ClearedWasRemoved

(* The set of a category in use comes to hold the elements of the category    *)
(* and nothing else, whatever updates, hourly refreshes and restarts overlap. *)
SetCatchesUp == \A c \in Active : <>[](ipset[c] = elements[c])
=============================================================================

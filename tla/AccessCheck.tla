----------------------------- MODULE AccessCheck -----------------------------
(* What a rule of the firewall decides about a connection, seen twice: the    *)
(* chains of iptables that control/install_iptables_setup.sh orders and       *)
(* control/Block.js fills, and the answer FireApi gives to the app            *)
(* (alarm/PolicyManager2.js, checkACL), which sorts the policies by a rank    *)
(* and keeps them sorted in a cache.                                          *)
(* One connection is looked at, all rules match it: a rule is a level, what   *)
(* it does ("allow", "block", or "match" a group of rules), whether it is of  *)
(* high priority, and the group it matches or belongs to. A rule whose type   *)
(* is match_group has an action too, and it is "block" where the app gives    *)
(* none (alarm/Policy.js:93): that is "blockMatch".                           *)
EXTENDS Integers, Sequences

CONSTANTS Groups,    \* rule groups
          Created,   \* rules the app creates
          Patient,   \* TRUE: the app makes a request when it has the answer to the last
          MaxRules, MaxOps \* bounds

Levels == {"device", "group", "network", "global"}
Actions == {"allow", "block"}
NoGroup == "none"

TopRules == [level : Levels, does : Actions, hi : BOOLEAN, group : {NoGroup}]
Matching == {"match", "blockMatch"}
MatchRules == [level : Levels, does : Matching, hi : BOOLEAN, group : Groups]
SubRules == [level : {"sub"}, does : Actions, hi : {FALSE}, group : Groups]
Policies == TopRules \cup MatchRules \cup SubRules
-----------------------------------------------------------------------------
(* The kernel: first the chains of high priority, then device, group, network *)
(* and global; each has a chain of allows and one of blocks after it. A rule  *)
(* that matches a group, whatever its action, jumps from both to the chain of *)
(* the group.                                                                 *)
ChainBase == [device |-> 0, group |-> 2, network |-> 4, global |-> 8]
Chain(r, act) == (IF r.hi THEN 0 ELSE 10) + ChainBase[r.level]
                 + (IF act = "block" THEN 1 ELSE 0)

Members(R, g) == {s \in R : s.level = "sub" /\ s.group = g}

\* The verdicts a rule can pronounce, each in its chain.
Pronounces(R, r, act) ==
    \/ r \in TopRules /\ r.does = act
    \/ r \in MatchRules /\ \E s \in Members(R, r.group) : s.does = act

Hits(R) == {h \in R \X Actions : Pronounces(R, h[1], h[2])}
First(R, h) == /\ h \in Hits(R)
               /\ \A k \in Hits(R) : Chain(h[1], h[2]) <= Chain(k[1], k[2])

KernelVerdict(R) == IF Hits(R) = {} THEN "none"
                    ELSE (CHOOSE h \in Hits(R) : First(R, h))[2]
-----------------------------------------------------------------------------
(* checkACL. Ranks are twice those of the code, which has a half in them.     *)
RankBase == [device |-> 0, group |-> 4, network |-> 8, global |-> 12, sub |-> 16]
RankOf_before(r) == RankBase[r.level]
                    + (CASE r.does = "block" -> 2 [] r.does \in Matching -> -1 [] OTHER -> 0)
RankOf(r) == RankBase[r.level]
             + (IF r.does \in {"block", "blockMatch"} THEN 2 ELSE 0)
             + (IF r.does \in Matching THEN 1 ELSE 0)
Rank(r) == RankOf(r) + (IF r.hi THEN 0 ELSE 20)

\* The members of a group are passed over, and a rule that matches a group none
\* of whose members matches.
Matches(R, r) == r.level # "sub" /\ (r.does \in Matching => Members(R, r.group) # {})
Deciders(R) == {r \in R : Matches(R, r)}
Least(R, S, r) == r \in S /\ \A q \in S : Rank(r) <= Rank(q)

\* What the rule that decides says: itself, or the first member of its group.
Says(R, r) == IF r.does \notin Matching THEN r.does
              ELSE (CHOOSE s \in Members(R, r.group) : Least(R, Members(R, r.group), s)).does
AclVerdict(R) == IF Deciders(R) = {} THEN "none"
                 ELSE Says(R, CHOOSE r \in Deciders(R) : Least(R, Deciders(R), r))

\* One group at a level: checkACL takes one group after the other, the kernel
\* the allows of all of them first.
OneGroupPerLevel(R) ==
    \A r, q \in R \cap MatchRules : r.level = q.level /\ r.hi = q.hi => r.group = q.group

\* checkACL takes a group that is matched with the action "block" after the
\* blocks of its level, the kernel the allows of the group before them.
GroupsComeFirst(R) ==
    \A r \in R \cap MatchRules, q \in R \cap TopRules :
        r.does = "blockMatch" /\ q.does = "block" => r.level # q.level \/ r.hi # q.hi
-----------------------------------------------------------------------------
VARIABLES saved,   \* policies in redis that are listed and enabled
          kernel,  \* rules in the chains
          events,  \* PolicyEnforcement events FireMain has to handle, in order
          cache,   \* sortedActiveRulesCache of FireApi; <<>> for null
          writer,  \* what FireApi is in the middle of saving
          call,    \* a checkACL under way
          ended,   \* rules FireMain has ended by itself (history)
          timer,   \* the expiry FireMain handles
          ever,    \* rules there are or were (history)
          ops

vars == <<saved, kernel, events, cache, writer, call, ended, timer, ever, ops>>

NoCall == [pc |-> "idle", rules |-> {}]
Nothing == [act |-> "none", rule |-> {}]

Requests == [act : {"enforce", "unenforce"}, rule : {{r} : r \in Policies}]

TypeOK == /\ {saved, kernel, ended, timer, ever} \subseteq SUBSET Policies
          /\ events \in Seq(Requests) /\ writer \in Requests \cup {Nothing}
          /\ cache \in {<<>>} \cup {<<R>> : R \in SUBSET Policies}
          /\ call \in [pc : {"idle", "start", "loaded"}, rules : SUBSET Policies]
          /\ call.pc = "idle" => call = NoCall

Init == /\ \E f \in [1..MaxRules -> Policies] : saved = {f[i] : i \in 1..MaxRules}
        /\ kernel = saved /\ events = <<>> /\ cache = <<>> /\ writer = Nothing
        /\ call = NoCall /\ ended = {} /\ timer = {} /\ ever = saved /\ ops = 0
-----------------------------------------------------------------------------
(* The app creates and deletes rules: FireApi writes redis and then calls     *)
(* tryPolicyEnforcement, which forgets the cache and sends the event.         *)
Write(act, r) ==
    /\ ops < MaxOps /\ ops' = ops + 1
    /\ writer = Nothing /\ (Patient => call = NoCall)
    /\ writer' = [act |-> act, rule |-> {r}]
    /\ ever' = ever \cup {r}
    /\ saved' = IF act = "enforce" THEN saved \cup {r} ELSE saved \ {r}
    /\ UNCHANGED <<kernel, events, cache, call, ended, timer>>

\* A new policy is none of those that are or were there.
Create(r) == r \in Created \ ever /\ Write("enforce", r)
Delete(r) == r \in saved /\ Write("unenforce", r)

CacheAfter_kept == cache
CacheAfter == <<>>
TryPolicyEnforcement ==
    /\ writer # Nothing
    /\ cache' = CacheAfter
    /\ events' = Append(events, writer)
    /\ writer' = Nothing
    /\ UNCHANGED <<saved, kernel, call, ended, timer, ever, ops>>

\* FireMain handles the next event, unless it handles the expiry of that rule.
HandleEvent ==
    /\ events # <<>>
    /\ kernel' = IF Head(events).act = "enforce" THEN kernel \cup Head(events).rule
                 ELSE kernel \ Head(events).rule
    /\ events' = Tail(events)
    /\ UNCHANGED <<saved, cache, writer, call, ended, timer, ever, ops>>

\* FireMain ends a rule whose time is over: it goes from the kernel, then from
\* redis. No process but FireMain forgets its cache.
Expire(r) ==
    /\ timer = {} /\ ended = {} /\ r \in kernel
    /\ timer' = {r}
    /\ kernel' = kernel \ {r}
    /\ UNCHANGED <<saved, events, cache, writer, call, ended, ever, ops>>

ExpireRecord ==
    /\ timer # {}
    /\ saved' = saved \ timer
    /\ ended' = ended \cup timer
    /\ timer' = {}
    /\ UNCHANGED <<kernel, events, cache, writer, call, ever, ops>>
-----------------------------------------------------------------------------
(* checkACL: it loads the active policies when it has no cache, keeps them    *)
(* and goes through them.                                                     *)
StartCheck ==
    /\ call = NoCall /\ (Patient => writer = Nothing)
    /\ call' = [NoCall EXCEPT !.pc = "start"]
    /\ UNCHANGED <<saved, kernel, events, cache, writer, ended, timer, ever, ops>>

LoadRules ==
    /\ call.pc = "start"
    /\ call' = IF cache = <<>> THEN [pc |-> "loaded", rules |-> saved] ELSE NoCall
    /\ UNCHANGED <<saved, kernel, events, cache, writer, ended, timer, ever, ops>>

KeepRules ==
    /\ call.pc = "loaded"
    /\ cache' = <<call.rules>>
    /\ call' = NoCall
    /\ UNCHANGED <<saved, kernel, events, writer, ended, timer, ever, ops>>

Next == \/ \E r \in Policies : Create(r) \/ Delete(r) \/ Expire(r)
        \/ TryPolicyEnforcement \/ HandleEvent \/ ExpireRecord
        \/ StartCheck \/ LoadRules \/ KeepRules

Spec == Init /\ [][Next]_vars
-----------------------------------------------------------------------------
(* What checkACL takes for the rules is what the kernel has, when no change   *)
(* is on its way, except for a rule that FireMain has ended by itself since:  *)
(* PolicyManager2.js:305, "invalidate ipset and active rules cache after      *)
(* policy update".                                                            *)
Settled == events = <<>> /\ writer = Nothing /\ timer = {} /\ call = NoCall
CacheIsCurrent == Settled /\ cache # <<>> => /\ kernel \subseteq cache[1]
                                            /\ cache[1] \subseteq kernel \cup ended

(* The app is told the verdict the kernel gives, as long as no level matches  *)
(* two groups, or blocks and matches a group with the action "block".         *)
VerdictAgrees ==
    Settled /\ cache # <<>> /\ ended \cap cache[1] = {}
    /\ OneGroupPerLevel(cache[1]) /\ GroupsComeFirst(cache[1])
        => AclVerdict(cache[1]) = KernelVerdict(kernel)
=============================================================================

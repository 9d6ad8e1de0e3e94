----------------------------- MODULE RuleInstall -----------------------------
(* What a rule consists of while it is enforced, and how it is put together   *)
(* and taken apart: _enforce and _unenforce of src/alarm/PolicyManager2.js,   *)
(* src/control/Block.js and QoS.js, with the check of RuleCheckSensor that    *)
(* repairs rules. The policy queue does one job after the other; recurring    *)
(* rules are done by their cron jobs, beside the queue.                       *)
EXTENDS Naturals, Sequences, FiniteSets, Functions

CONSTANTS Pids,        \* policies
          Boxes,       \* sets of rules that a box may have: functions of Pids to
                       \* what each policy says, see Simple, SetOf, Calls
          Queue,       \* the worker that does the jobs of the queue
          None,
          MaxHandler,  \* handlers are 2 .. MaxHandler; the code has 127
          MaxOps,      \* bound on changes made by the app and the scheduler
          MaxBacklog,  \* jobs that may be waiting when RuleCheckSensor starts a round
          MaxToggles   \* bound on switches of smart_block

VARIABLES rule,        \* rule[p]: what policy p says
          enabled,     \* policies that are enabled (recurring ones: active now)
          queue,       \* jobs of the policy queue
          worker,      \* what each worker is doing
          ipset,       \* members of ipsets, as <<set, address>>
          chains,      \* entries of iptables chains, as [pid, set, on, mark]
          filters,     \* policies with an entry in dnsmasq's filter files
          handlerOf, policyOf, \* policy_qos_handler_map: policy_<pid> and qos_<i>
          class,       \* the policy each traffic class is configured for
          smart_block, \* the feature
          check,       \* the round of RuleCheckSensor that is under way
          ops, toggles

kernel == <<ipset, chains, filters, class>>
map == <<handlerOf, policyOf>>
box == <<rule, smart_block>>
bounds == <<ops, toggles>>
vars == <<box, enabled, queue, worker, kernel, map, check, bounds>>

Recurring == {p \in Pids : rule[p].cronTime}
Workers == {Queue} \cup Pids
Handlers == 2 .. MaxHandler
Idle == [pc |-> "idle", pid |-> None, op |-> None, then |-> FALSE, calls |-> <<>>,
         elems |-> <<>>, found |-> {}, handler |-> None]
NoCheck == [pc |-> "idle", rules |-> {}, cache |-> None]

Init == /\ rule \in Boxes
        /\ enabled = {} /\ queue = <<>>
        /\ worker = [w \in Workers |-> Idle]
        /\ ipset = {} /\ chains = {} /\ filters = {}
        /\ handlerOf = [p \in Pids |-> None] /\ policyOf = [h \in Handlers |-> None]
        /\ class = [h \in Handlers |-> None]
        /\ smart_block \in BOOLEAN
        /\ check = NoCheck
        /\ ops = 0 /\ toggles = 0
-----------------------------------------------------------------------------
(* What a policy is made of                                                   *)

Filtering(p) == rule[p].action \in {"allow", "block"}

\* Rules without a scope, or for everything, are calls of their own; the tags
\* are one call.
Calls(p) ==
    LET scoped == (IF rule[p].tags = <<>> THEN <<>> ELSE <<rule[p].tags>>)
                  \o [i \in DOMAIN rule[p].scopes |-> <<rule[p].scopes[i]>>]
    IN IF scoped = <<>> THEN << <<"global">> >> ELSE scoped

\* A simple rule is nothing but members of an ipset that all of its sort share.
\* _enforce looks at the ttl of a domain's addresses, _unenforce does not.
Plain(p) == /\ rule[p].type \in {"ip", "domain"} /\ Filtering(p)
            /\ rule[p].tags = <<>> /\ rule[p].scopes = <<>> /\ ~rule[p].hi
Simple(p, op) == Plain(p) /\ (op = "create" => ~rule[p].ttl)

\* A rule on a domain, a category or the internet also filters DNS.
FiltersDns(p) == Filtering(p) /\ rule[p].type \in {"domain", "category", "internet"}

DnsOnly(p) == rule[p].dnsmasq_only /\ ~smart_block

Shared(p) == <<"shared", rule[p].type, rule[p].action>>
Own(p) == <<"own", p>>
SetOf(p, op) ==
    IF Simple(p, op) THEN Shared(p)
    ELSE IF rule[p].type = "category"
         THEN <<"category", rule[p].target, IF DnsOnly(p) THEN "static" ELSE "dynamic">>
         ELSE IF rule[p].type = "internet" THEN <<"monitored">> ELSE Own(p)

Fills(p) == rule[p].type \in {"ip", "domain", "remotePort"}
Members(p, op) == IF Fills(p) THEN {<<SetOf(p, op), a>> : a \in rule[p].target} ELSE {}

\* The chains an element of a call is entered in. The entry for the networks of
\* a tag has no target in a qos rule ("targert").
On(p, e) == IF e \in Range(rule[p].tags)
            THEN {<<e, "DEV">>, <<e, IF rule[p].action = "qos" THEN "NONE" ELSE "NET">>}
            ELSE {<<e, "ALL">>}
Entries_netsStay(p, op, e, mark) ==
    {[pid |-> p, set |-> SetOf(p, op), on |-> c, mark |-> mark] :
        c \in {c \in On(p, e) : op = "create" \/ c[2] # "NET"}}
Entries(p, op, e, mark) ==
    {[pid |-> p, set |-> SetOf(p, op), on |-> c, mark |-> mark] : c \in On(p, e)}
-----------------------------------------------------------------------------
(* Jobs                                                                       *)

Begin(w, p, op, then) ==
    worker' = [worker EXCEPT ![w] = [Idle EXCEPT !.pc = "dns", !.pid = p, !.op = op, !.then = then]]

\* The app enables or disables a policy: record and job.
Toggle(p) ==
    /\ p \notin Recurring /\ ops < MaxOps /\ ops' = ops + 1
    /\ IF p \in enabled
       THEN enabled' = enabled \ {p} /\ queue' = Append(queue, <<"unenforce", p>>)
       ELSE enabled' = enabled \cup {p} /\ queue' = Append(queue, <<"enforce", p>>)
    /\ UNCHANGED <<worker, kernel, map, box, check, toggles>>

\* The cron job of a recurring policy, or its timeout.
Tick(p) ==
    /\ p \in Recurring /\ ops < MaxOps /\ ops' = ops + 1
    /\ worker[p].pc = "idle"
    /\ Begin(p, p, IF p \in enabled THEN "destroy" ELSE "create", FALSE)
    /\ enabled' = IF p \in enabled THEN enabled \ {p} ELSE enabled \cup {p}
    /\ UNCHANGED <<queue, kernel, map, box, check, toggles>>

TakeJob ==
    /\ worker[Queue].pc = "idle" /\ queue # <<>>
    /\ LET job == Head(queue) IN
         Begin(Queue, job[2], IF job[1] = "enforce" THEN "create" ELSE "destroy",
               job[1] = "reenforce")
    /\ queue' = Tail(queue)
    /\ UNCHANGED <<enabled, kernel, map, box, check, bounds>>

\* The end of a job, or of the first half of a reenforce, which goes on even if
\* that half has thrown.
Finished(w) == IF worker[w].then
               THEN [Idle EXCEPT !.pc = "dns", !.pid = worker[w].pid, !.op = "create"]
               ELSE Idle
-----------------------------------------------------------------------------
(* _enforce and _unenforce                                                    *)

\* The entry in dnsmasq's filter, added or removed first.
Dns(w) ==
    LET f == worker[w] IN
    /\ f.pc = "dns"
    /\ filters' = IF ~FiltersDns(f.pid) THEN filters
                  ELSE IF f.op = "create" THEN filters \cup {f.pid} ELSE filters \ {f.pid}
    /\ worker' = [worker EXCEPT ![w] =
          IF f.op = "create" /\ rule[f.pid].type = "domain" /\ Filtering(f.pid) /\ DnsOnly(f.pid)
          THEN Finished(w) ELSE [f EXCEPT !.pc = "set"]]
    /\ UNCHANGED <<enabled, queue, ipset, chains, class, map, box, check, bounds>>

\* The addresses or ports of the rule.
Fill(w) ==
    LET f == worker[w] IN
    /\ f.pc = "set"
    /\ ipset' = IF f.op = "create" THEN ipset \cup Members(f.pid, f.op)
                ELSE ipset \ Members(f.pid, f.op)
    /\ worker' = [worker EXCEPT ![w] =
          IF Simple(f.pid, f.op) THEN Finished(w)
          ELSE [f EXCEPT !.pc = "call", !.calls = Calls(f.pid)]]
    /\ UNCHANGED <<enabled, queue, chains, filters, class, map, box, check, bounds>>

\* The next call of setup...Rules, or the end: a set of the rule is destroyed.
NextCall(w) ==
    LET f == worker[w] IN
    /\ f.pc = "call"
    /\ IF f.calls # <<>>
       THEN /\ worker' = [worker EXCEPT ![w] = [f EXCEPT !.pc = "element", !.found = {},
                             !.elems = Head(f.calls), !.calls = Tail(f.calls)]]
            /\ UNCHANGED ipset
       ELSE /\ worker' = [worker EXCEPT ![w] = Finished(w)]
            /\ ipset' = IF f.op = "destroy" /\ Fills(f.pid) /\ ~rule[f.pid].dnsmasq_only
                        THEN {m \in ipset : m[1] # Own(f.pid)} ELSE ipset
    /\ UNCHANGED <<enabled, queue, chains, filters, class, map, box, check, bounds>>

\* An element of the call; a qos rule asks for its handler first. After the last
\* one the entries that were collected are made, or deleted.
Element(w) ==
    LET f == worker[w] IN
    /\ f.pc = "element"
    /\ IF f.elems = <<>>
       THEN /\ chains' = IF f.op = "create" THEN chains \cup f.found ELSE chains \ f.found
            /\ worker' = [worker EXCEPT ![w].pc = "call"]
       ELSE /\ worker' = [worker EXCEPT ![w] =
                 IF rule[f.pid].action = "qos" THEN [f EXCEPT !.pc = "allocate"]
                 ELSE [f EXCEPT !.elems = Tail(f.elems),
                         !.found = f.found \cup Entries(f.pid, f.op, Head(f.elems), None)]]
            /\ UNCHANGED chains
    /\ UNCHANGED <<enabled, queue, ipset, filters, class, map, box, check, bounds>>

\* allocateQoSHanderForPolicy reads the map: the handler of the policy or the
\* lowest free one. None is left: "Reached QoS rule limit" is thrown.
Free == {h \in Handlers : policyOf[h] = None}
Lowest == CHOOSE h \in Free : \A g \in Free : h <= g
Reusable_never(p) == FALSE
Reusable(p) == handlerOf[p] # None

Allocate(w) ==
    LET f == worker[w] IN
    /\ f.pc = "allocate"
    /\ \/ /\ Reusable(f.pid)
          /\ worker' = [worker EXCEPT ![w] = [f EXCEPT !.pc = "class", !.handler = handlerOf[f.pid]]]
       \/ /\ ~Reusable(f.pid) /\ Free # {}
          /\ worker' = [worker EXCEPT ![w] = [f EXCEPT !.pc = "store", !.handler = Lowest]]
       \/ /\ ~Reusable(f.pid) /\ Free = {}
          /\ worker' = [worker EXCEPT ![w] = Finished(w)]
    /\ UNCHANGED <<enabled, queue, kernel, map, box, check, bounds>>

Store(w) ==
    LET f == worker[w] IN
    /\ f.pc = "store"
    /\ handlerOf' = [handlerOf EXCEPT ![f.pid] = f.handler]
    /\ policyOf' = [policyOf EXCEPT ![f.handler] = f.pid]
    /\ worker' = [worker EXCEPT ![w].pc = "class"]
    /\ UNCHANGED <<enabled, queue, kernel, box, check, bounds>>

\* createQoSClass, or destroyQoSClass that puts a dummy in its place.
Class(w) ==
    LET f == worker[w] IN
    /\ f.pc = "class"
    /\ class' = [class EXCEPT ![f.handler] = IF f.op = "create" THEN f.pid ELSE None]
    /\ worker' = [worker EXCEPT ![w] =
          IF f.op = "destroy" THEN [f EXCEPT !.pc = "release"]
          ELSE [f EXCEPT !.pc = "element", !.elems = Tail(f.elems),
                  !.found = f.found \cup Entries(f.pid, f.op, Head(f.elems), f.handler)]]
    /\ UNCHANGED <<enabled, queue, ipset, chains, filters, map, box, check, bounds>>

\* deallocateQoSHandlerForPolicy
Release(w) ==
    LET f == worker[w] IN
    /\ f.pc = "release"
    /\ handlerOf' = [handlerOf EXCEPT ![f.pid] = None]
    /\ policyOf' = [h \in Handlers |-> IF h = handlerOf[f.pid] THEN None ELSE policyOf[h]]
    /\ worker' = [worker EXCEPT ![w] =
          [f EXCEPT !.pc = "element", !.elems = Tail(f.elems),
                    !.found = f.found \cup Entries(f.pid, f.op, Head(f.elems), f.handler)]]
    /\ UNCHANGED <<enabled, queue, kernel, box, check, bounds>>
-----------------------------------------------------------------------------
(* RuleCheckSensor and the feature                                            *)

\* needCheckActive: rules that are nothing but members of a shared set.
NeedsCheck_ipsOnly(p) == rule[p].type = "ip" /\ Simple(p, "create")
NeedsCheck(p) == /\ rule[p].type \in {"ip", "domain"} /\ Filtering(p)
                 /\ rule[p].tags = <<>> /\ rule[p].scopes = <<>> /\ ~rule[p].ttl

CheckLoad ==
    /\ check.pc = "idle" /\ Len(queue) < MaxBacklog
    /\ check' = [pc |-> "read", rules |-> {p \in enabled : NeedsCheck(p)}, cache |-> None]
    /\ UNCHANGED <<enabled, queue, worker, kernel, map, box, bounds>>

\* A set is read once in a round, and kept.
CheckRead ==
    /\ check.pc = "read"
    /\ check' = [check EXCEPT !.pc = "compare", !.cache = ipset]
    /\ UNCHANGED <<enabled, queue, worker, kernel, map, box, bounds>>

\* A rule that is not in its set is enforced again, as it was loaded.
CheckRule(p) ==
    /\ check.pc = "compare" /\ p \in check.rules
    /\ check' = [check EXCEPT !.rules = @ \ {p}]
    /\ queue' = IF \A a \in rule[p].target : <<Shared(p), a>> \in check.cache THEN queue
                ELSE Append(queue, <<"reenforce", p>>)
    /\ UNCHANGED <<enabled, worker, kernel, map, box, bounds>>

CheckDone ==
    /\ check.pc = "compare" /\ check.rules = {}
    /\ check' = NoCheck
    /\ UNCHANGED <<enabled, queue, worker, kernel, map, box, bounds>>

Orders(S) == {order \in [1 .. Cardinality(S) -> S] : Range(order) = S}

\* BlockManager: every enabled policy is enforced again, in the order in which
\* they are loaded. (What that does to a recurring one is PolicyScheduler's part.)
ToggleSmartBlock ==
    /\ toggles < MaxToggles /\ toggles' = toggles + 1
    /\ smart_block' = ~smart_block
    /\ \E order \in Orders(enabled \ Recurring) :
          queue' = queue \o [i \in DOMAIN order |-> <<"reenforce", order[i]>>]
    /\ UNCHANGED <<rule, enabled, worker, kernel, map, check, ops>>

Work(w) == \/ Dns(w) \/ Fill(w) \/ NextCall(w) \/ Element(w) \/ Allocate(w) \/ Store(w)
           \/ Class(w) \/ Release(w)

CheckStep == CheckLoad \/ CheckRead \/ (\E p \in Pids : CheckRule(p)) \/ CheckDone

Next == \/ \E p \in Pids : Toggle(p) \/ Tick(p)
        \/ TakeJob
        \/ \E w \in Workers : Work(w)
        \/ CheckStep
        \/ ToggleSmartBlock

Spec == Init /\ [][Next]_vars

\* The queue is consumed and commands end. The check runs every ten minutes.
Fairness == /\ WF_vars(TakeJob) /\ \A w \in Workers : WF_vars(Work(w))
            /\ WF_vars(CheckStep)
FairSpec == Spec /\ Fairness
-----------------------------------------------------------------------------
Busy(p) == \/ \E i \in DOMAIN queue : queue[i][2] = p
           \/ \E w \in Workers : worker[w].pid = p

(* "flag to indicate that this policy is revoked successfully"                *)
(* (PolicyManager2.js:1018): when nothing is under way for a policy that is   *)
(* disabled, nothing it consisted of is left: no entry in a chain or in       *)
(* dnsmasq, no member of a set of its own, no handler and no class.           *)
Gone(p) == /\ p \notin filters
           /\ \A c \in chains : c.pid # p
           /\ \A m \in ipset : m[1] # Own(p)
           /\ handlerOf[p] = None
           /\ \A h \in Handlers : class[h] # p /\ policyOf[h] # p

RevokedIsGone == \A p \in Pids \ enabled : ~Busy(p) => Gone(p)

(* The same for the rules that RuleCheckSensor leaves alone.                  *)
UncheckedIsGone == \A p \in Pids \ enabled : ~Busy(p) /\ ~NeedsCheck(p) => Gone(p)

(* A mark in the chains selects the class of the policy that set it, and no   *)
(* two policies have the same one.                                            *)
MarksAreOwned ==
    \A c \in chains : c.mark # None /\ ~Busy(c.pid) =>
        handlerOf[c.pid] = c.mark /\ policyOf[c.mark] = c.pid /\ class[c.mark] = c.pid

(* An enabled rule that is in no chain of its own and not in its set, because *)
(* another rule with the same target has been removed, does not stay so: the  *)
(* check of RuleCheckSensor brings it back, and a time comes when no rule is  *)
(* missing.                                                                   *)
Missing(p) == p \in enabled /\ Simple(p, "create") /\ ~(Members(p, "create") \subseteq ipset)
BackInForce == (\E p \in Pids : Missing(p)) ~> (\A p \in Pids : ~Missing(p))
=============================================================================

----------------------------- MODULE DomainBlock -----------------------------
(* The addresses of a blocked domain: src/control/DomainBlock.js, called by   *)
(* the policy queue for a rule, and DomainUpdater.js, called for every DNS    *)
(* answer that BroDetect reads, beside the queue. A domain's addresses are    *)
(* known in rdns:domain:*, mapped in ipmapping:*, and blocked by an ipset.    *)
(* Addresses are those of one rule: what rules with a common address do to    *)
(* each other is in RuleInstall.                                              *)
EXTENDS Naturals, Sequences, FiniteSets

CONSTANTS Names,     \* names that are looked up
          Covered,   \* those the rule's domain covers: itself and subdomains
          Top,       \* the rule's domain
          Addrs,     \* addresses
          Lines,     \* DNS answers that can be under way at a time
          MaxOps     \* bound on jobs for the rule

\* What MCQueues assumes of them.
DomainAssumption == Covered \subseteq Names /\ Top \in Covered /\ MaxOps \in Nat

VARIABLES wanted,     \* the rule is enforced, as far as its jobs go
          queue,      \* its jobs
          job,        \* the one being done, with the addresses it has read
          line,       \* answers that are being handled
          rdns,       \* rdns:domain:<name>
          mapping,    \* ipmapping:blockset:<set>:domain:<Top>
          registered, \* the entry of updateOptions
          ipset,      \* the members of the rule's ipset
          ops

vars == <<wanted, queue, job, line, rdns, mapping, registered, ipset, ops>>

NoJob == [pc |-> "idle", addrs |-> {}]
NoLine == [pc |-> "idle", name |-> Top, fresh |-> {}, todo |-> {}]

TypeOK == /\ wanted \in BOOLEAN /\ registered \in BOOLEAN
          /\ queue \in Seq({"block", "unblock"})
          /\ job \in [pc : {"idle", "resolve", "list", "save", "apply", "add",
                            "mapped", "del", "forget", "unregister"}, addrs : SUBSET Addrs]
          /\ line \in [Lines -> [pc : {"idle", "update", "save", "block"}, name : Names,
                                 fresh : SUBSET Addrs, todo : SUBSET Addrs]]
          /\ rdns \in [Names -> SUBSET Addrs]
          /\ mapping \subseteq Addrs /\ ipset \subseteq Addrs
          /\ ops \in 0 .. MaxOps

Init == /\ wanted = FALSE /\ queue = <<>> /\ job = NoJob
        /\ line = [l \in Lines |-> NoLine]
        /\ rdns = [n \in Names |-> {}]
        /\ mapping = {} /\ registered = FALSE /\ ipset = {}
        /\ ops = 0
-----------------------------------------------------------------------------
(* The policy queue                                                           *)

\* The rule is enforced or revoked; a reenforce is both.
Operate == /\ ops < MaxOps /\ ops' = ops + 1
           /\ wanted' = ~wanted
           /\ queue' = Append(queue, IF wanted THEN "unblock" ELSE "block")
           /\ UNCHANGED <<job, line, rdns, mapping, registered, ipset>>

TakeJob == /\ job.pc = "idle" /\ queue # <<>>
           /\ queue' = Tail(queue)
           /\ job' = [NoJob EXCEPT !.pc = IF Head(queue) = "block" THEN "resolve" ELSE "mapped"]
           /\ UNCHANGED <<wanted, line, rdns, mapping, registered, ipset, ops>>

\* The domain is looked up, which may time out. (If it is registered already,
\* what is new to it is blocked here and once more in the end.)
Resolve == /\ job.pc = "resolve"
           /\ \E found \in SUBSET Addrs : rdns' = [rdns EXCEPT ![Top] = @ \cup found]
           /\ job' = [job EXCEPT !.pc = "list"]
           /\ UNCHANGED <<wanted, queue, line, mapping, registered, ipset, ops>>

\* getIPsByDomain and getIPsByDomainPattern.
Known == UNION {rdns[n] : n \in Covered}
List == /\ job.pc = "list"
        /\ job' = [pc |-> "save", addrs |-> Known]
        /\ UNCHANGED <<wanted, queue, line, rdns, mapping, registered, ipset, ops>>

Save_unregistered == /\ job.pc = "save"
                     /\ mapping' = mapping \cup job.addrs
                     /\ job' = [job EXCEPT !.pc = "apply"]
                     /\ UNCHANGED <<wanted, queue, line, rdns, registered, ipset, ops>>
Save == /\ job.pc = "save"
        /\ mapping' = mapping \cup job.addrs
        /\ registered' = TRUE
        /\ job' = [job EXCEPT !.pc = "apply"]
        /\ UNCHANGED <<wanted, queue, line, rdns, ipset, ops>>

\* applyBlock and unapplyBlock read the mapping, look at each address and then
\* change the ipset in one batch.
ReadMapping == /\ job.pc \in {"apply", "mapped"}
               /\ job' = [pc |-> IF job.pc = "apply" THEN "add" ELSE "del", addrs |-> mapping]
               /\ UNCHANGED <<wanted, queue, line, rdns, mapping, registered, ipset, ops>>

ApplyBlock == /\ job.pc = "add"
              /\ ipset' = ipset \cup job.addrs
              /\ job' = NoJob
              /\ UNCHANGED <<wanted, queue, line, rdns, mapping, registered, ops>>

UnapplyBlock == /\ job.pc = "del"
                /\ ipset' = ipset \ job.addrs
                /\ job' = [NoJob EXCEPT !.pc = "forget"]
                /\ UNCHANGED <<wanted, queue, line, rdns, mapping, registered, ops>>

RemoveMapping == /\ job.pc = "forget"
                 /\ mapping' = {}
                 /\ job' = [job EXCEPT !.pc = "unregister"]
                 /\ UNCHANGED <<wanted, queue, line, rdns, registered, ipset, ops>>

Unregister == /\ job.pc = "unregister"
              /\ registered' = FALSE
              /\ job' = NoJob
              /\ UNCHANGED <<wanted, queue, line, rdns, mapping, ipset, ops>>

Work == \/ Resolve \/ List \/ Save \/ ReadMapping
        \/ ApplyBlock \/ UnapplyBlock \/ RemoveMapping \/ Unregister
-----------------------------------------------------------------------------
(* DNS answers                                                                *)

\* addReverseDns: what is known of the name.
Answer(l, name, addrs) ==
    /\ line[l].pc = "idle"
    /\ rdns' = [rdns EXCEPT ![name] = @ \cup addrs]
    /\ line' = [line EXCEPT ![l] = [pc |-> "update", name |-> name, fresh |-> addrs, todo |-> {}]]
    /\ UNCHANGED <<wanted, queue, job, mapping, registered, ipset, ops>>

\* updateDomainMapping: a registered domain is given what its mapping lacks.
Matches(name) == registered /\ name \in Covered
Update(l) ==
    LET fresh == line[l].fresh \ mapping IN
    /\ line[l].pc = "update"
    /\ line' = [line EXCEPT ![l] =
          IF Matches(line[l].name) /\ fresh # {}
          THEN [@ EXCEPT !.pc = "save", !.fresh = fresh, !.todo = fresh] ELSE NoLine]
    /\ UNCHANGED <<wanted, queue, job, rdns, mapping, registered, ipset, ops>>

SaveOne(l) ==
    /\ line[l].pc = "save"
    /\ \E a \in line[l].todo :
         /\ mapping' = mapping \cup {a}
         /\ line' = [line EXCEPT ![l].todo = @ \ {a},
                                 ![l].pc = IF line[l].todo = {a} THEN "block" ELSE "save"]
    /\ UNCHANGED <<wanted, queue, job, rdns, registered, ipset, ops>>

Added_first(l) == {CHOOSE a \in line[l].fresh : TRUE}
Added(l) == line[l].fresh
BatchBlock(l) ==
    /\ line[l].pc = "block"
    /\ ipset' = ipset \cup Added(l)
    /\ line' = [line EXCEPT ![l] = NoLine]
    /\ UNCHANGED <<wanted, queue, job, rdns, mapping, registered, ops>>

LineStep(l) == Update(l) \/ SaveOne(l) \/ BatchBlock(l)

Next == \/ Operate \/ TakeJob \/ Work
        \/ \E l \in Lines : \/ LineStep(l)
                            \/ \E n \in Names, as \in SUBSET Addrs \ {{}} : Answer(l, n, as)

Spec == Init /\ [][Next]_vars

\* Jobs are done, callbacks are called, and each address keeps being an answer for
\* some name that the domain covers.
Lookup(a) == \E l \in Lines, n \in Covered, as \in SUBSET Addrs : a \in as /\ Answer(l, n, as)
FairSpec == /\ Spec /\ WF_vars(TakeJob) /\ WF_vars(Work)
            /\ \A l \in Lines : WF_vars(LineStep(l))
            /\ \A a \in Addrs : SF_vars(Lookup(a))
-----------------------------------------------------------------------------
AtRest == queue = <<>> /\ job = NoJob /\ \A l \in Lines : line[l] = NoLine

(* What is mapped to a blocked domain is in its ipset: updateDomainMapping    *)
(* takes a mapped address for one that needs nothing more                     *)
(* (DomainUpdater.js:80), so an address that is mapped and not blocked would  *)
(* stay so.                                                                   *)
MappedIsBlocked == AtRest /\ wanted => mapping \subseteq ipset

(* An answer that falls between the list of addresses that blockDomain reads  *)
(* and its registration is not blocked; the next answer for the name blocks   *)
(* it: a domain that is blocked and in use does not keep an open address.     *)
LearnedIsBlocked ==
    \A a \in Addrs : wanted /\ a \in Known ~> a \in ipset \/ ~wanted

(* "flag to indicate that this policy is revoked successfully"                *)
(* (PolicyManager2.js:1018): no address of a domain that is not blocked is    *)
(* left in the ipset, which rules on other domains use too.                   *)
UnblockedIsOpen == AtRest /\ ~wanted => ipset = {}
=============================================================================

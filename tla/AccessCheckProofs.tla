-------------------------- MODULE AccessCheckProofs ---------------------------
(* Proofs about AccessCheck: the ranking of checkACL and the order of the     *)
(* chains give one verdict for any set of rules, and the rules checkACL has   *)
(* in its cache are those of the kernel.                                      *)
EXTENDS AccessCheck, WellFoundedInduction, TLAPS

(* A non-empty set of numbers has a least one.                                *)
LEMMA LeastExists ==
    ASSUME NEW T \in SUBSET Nat, T # {}
    PROVE  \E x \in T : \A y \in T : x <= y
<1>1. IsWellFoundedOn(OpToRel(<, Nat), Nat)
  BY NatLessThanWellFounded
<1>2. PICK x \in T : \A y \in T : ~(<<y, x>> \in OpToRel(<, Nat))
  BY <1>1, WFMin
<1>3. \A y \in T : ~(y < x)
  BY <1>2 DEF OpToRel
<1> QED
  BY <1>3

(* Where a level comes, in the chains as in the ranks.                        *)
Place(r) == (IF r.hi THEN 0 ELSE 4)
            + (IF r.level = "device" THEN 0 ELSE IF r.level = "group" THEN 1
               ELSE IF r.level = "network" THEN 2 ELSE 3)

(* The chains of a level come before those of the next, the allows of a level *)
(* before its blocks.                                                         *)
LEMMA ChainOrder ==
    ASSUME NEW r \in TopRules \cup MatchRules, NEW q \in TopRules \cup MatchRules,
           NEW a \in Actions, NEW b \in Actions
    PROVE  /\ Chain(q, b) <= Chain(r, a) => Place(q) <= Place(r)
           /\ Place(q) = Place(r) /\ Chain(q, b) <= Chain(r, a) /\ a = "allow" => b = "allow"
<1>1. /\ ChainBase["device"] = 0 /\ ChainBase["group"] = 2
      /\ ChainBase["network"] = 4 /\ ChainBase["global"] = 8
  BY DEF ChainBase
<1>2. \A s \in TopRules \cup MatchRules : s.level \in Levels /\ s.hi \in BOOLEAN
  BY DEF TopRules, MatchRules
<1> QED
  BY <1>1, <1>2 DEF Chain, Place, Levels, Actions

(* The ranks of a level come before those of the next, the allows of a level  *)
(* before its matches of a group, and of these those that are no "block"      *)
(* before its blocks.                                                         *)
LEMMA RankOrder ==
    ASSUME NEW r \in TopRules \cup MatchRules, NEW q \in TopRules \cup MatchRules
    PROVE  /\ Rank(r) \in Nat
           /\ Rank(r) <= Rank(q) => Place(r) <= Place(q)
           /\ Place(r) = Place(q) /\ Rank(r) <= Rank(q) =>
                /\ r.does = "block" => q.does \in {"block", "blockMatch"}
                /\ r.does \in Matching => q.does # "allow"
<1>1. /\ RankBase["device"] = 0 /\ RankBase["group"] = 4
      /\ RankBase["network"] = 8 /\ RankBase["global"] = 12
  BY DEF RankBase
<1>2. \A s \in TopRules \cup MatchRules :
        s.level \in Levels /\ s.hi \in BOOLEAN
        /\ s.does \in {"allow", "block", "match", "blockMatch"}
  BY DEF TopRules, MatchRules, Actions, Matching
<1> DEFINE Offset(s) == IF s.does = "allow" THEN 0 ELSE IF s.does = "block" THEN 2
                        ELSE IF s.does = "match" THEN 1 ELSE 3
<1>3. ASSUME NEW s \in TopRules \cup MatchRules
      PROVE  /\ Rank(s) = 4 * Place(s) + (IF s.hi THEN 0 ELSE 4) + Offset(s)
             /\ Place(s) \in Nat /\ (s.hi <=> Place(s) < 4) /\ Offset(s) \in 0 .. 3
  <2>1. RankOf(s) = RankBase[s.level] + Offset(s)
    BY <1>1, <1>2 DEF RankOf, Matching, Levels
  <2>2. CASE s.hi
    BY <1>1, <1>2, <2>1, <2>2 DEF Rank, Place, Levels
  <2>3. CASE ~s.hi
    BY <1>1, <1>2, <2>1, <2>3 DEF Rank, Place, Levels
  <2> QED
    BY <2>2, <2>3
<1>4. /\ r.does = "block" /\ Offset(r) <= Offset(q) => q.does \in {"block", "blockMatch"}
      /\ r.does \in Matching /\ Offset(r) <= Offset(q) => q.does # "allow"
  BY <1>2 DEF Matching
<1> HIDE DEF Offset
<1>5. Rank(r) <= Rank(q) => Place(r) <= Place(q)
  BY <1>3
<1>6. Place(r) = Place(q) /\ Rank(r) <= Rank(q) => Offset(r) <= Offset(q)
  BY <1>3
<1> QED
  BY <1>3, <1>4, <1>5, <1>6

(* Only one level has a place.                                                *)
LEMMA PlaceOfLevel ==
    ASSUME NEW r \in TopRules \cup MatchRules, NEW q \in TopRules \cup MatchRules,
           Place(r) = Place(q)
    PROVE  r.level = q.level /\ r.hi = q.hi
<1>1. \A s \in TopRules \cup MatchRules : s.level \in Levels /\ s.hi \in BOOLEAN
  BY DEF TopRules, MatchRules
<1> QED
  BY <1>1 DEF Place, Levels

(* The rules checkACL decides by are the ones that pronounce a verdict.       *)
LEMMA DecidersPronounce ==
    ASSUME NEW R \in SUBSET Policies
    PROVE  /\ Deciders(R) \subseteq R \cap (TopRules \cup MatchRules)
           /\ \A r \in R : r \in Deciders(R) <=> \E a \in Actions : Pronounces(R, r, a)
<1>1. \A r \in SubRules : r.level = "sub" /\ r.does \in Actions
  BY DEF SubRules
<1>2. \A r \in TopRules : r.level # "sub" /\ r.does \in Actions
  BY DEF TopRules, Levels
<1>3. \A r \in MatchRules : r.level # "sub" /\ r.does \in Matching
  BY DEF MatchRules, Levels
<1>4. \A g : Members(R, g) \subseteq SubRules
  BY <1>2, <1>3 DEF Members, Policies
<1>5. \A x \in Matching : x \notin Actions
  BY DEF Actions, Matching
<1>6. ASSUME NEW r \in Deciders(R)
      PROVE  r \in R /\ r \in TopRules \cup MatchRules
  BY <1>1 DEF Deciders, Matches, Policies
<1>7. ASSUME NEW r \in R
      PROVE  r \in Deciders(R) <=> \E a \in Actions : Pronounces(R, r, a)
  <2>1. CASE r \in SubRules
    BY <2>1, <1>1, <1>2, <1>3 DEF Deciders, Matches, Pronounces
  <2>2. CASE r \in TopRules
    BY <2>2, <1>2, <1>5 DEF Deciders, Matches, Pronounces
  <2>3. CASE r \in MatchRules
    <3>1. r \in Deciders(R) <=> Members(R, r.group) # {}
      BY <2>3, <1>3 DEF Deciders, Matches
    <3>2. r \notin TopRules
      BY <2>3, <1>2, <1>3, <1>5
    <3>3. Members(R, r.group) # {} <=>
            \E a \in Actions : \E s \in Members(R, r.group) : s.does = a
      BY <1>1, <1>4
    <3> QED
      BY <2>3, <3>1, <3>2, <3>3 DEF Pronounces
  <2> QED
    BY <2>1, <2>2, <2>3 DEF Policies
<1> QED
  BY <1>6, <1>7

(* A rule that matches a group says "allow" if a member of the group does.    *)
LEMMA GroupSays ==
    ASSUME NEW R \in SUBSET Policies, NEW g, Members(R, g) # {}
    PROVE  LET s == CHOOSE s \in Members(R, g) : Least(R, Members(R, g), s)
           IN  /\ s \in Members(R, g)
               /\ s.does \in Actions
               /\ (\E m \in Members(R, g) : m.does = "allow") => s.does = "allow"
<1> DEFINE M == Members(R, g)
<1>1. \A m \in M : m.does \in Actions /\ m.level = "sub" /\ m.hi = FALSE
  BY DEF Members, Policies, TopRules, MatchRules, SubRules, Levels
<1>2. \A m \in M : Rank(m) = 36 + (IF m.does = "block" THEN 2 ELSE 0)
  <2>1. RankBase["sub"] = 16
    BY DEF RankBase
  <2> QED
    BY <1>1, <2>1 DEF Rank, RankOf, Actions, Matching
<1>3. \E s \in M : Least(R, M, s)
  <2>1. CASE \E m \in M : m.does = "allow"
    BY <2>1, <1>1, <1>2 DEF Least, Actions
  <2>2. CASE \A m \in M : m.does # "allow"
    BY <2>2, <1>1, <1>2 DEF Least, Actions
  <2> QED
    BY <2>1, <2>2
<1> DEFINE s == CHOOSE s \in M : Least(R, M, s)
<1>4. s \in M /\ Least(R, M, s)
  BY <1>3
<1> HIDE DEF s
<1>5. (\E m \in M : m.does = "allow") => s.does = "allow"
  BY <1>1, <1>2, <1>4 DEF Least, Actions
<1>6. s \in M /\ s.does \in Actions
  BY <1>1, <1>4
<1> QED
  BY <1>5, <1>6 DEF s

(* Of the rules that decide there is one of least rank.                       *)
LEMMA LeastDecider ==
    ASSUME NEW R \in SUBSET Policies, Deciders(R) # {}
    PROVE  \E r \in Deciders(R) : Least(R, Deciders(R), r)
<1> DEFINE T == {Rank(r) : r \in Deciders(R)}
<1>1. T \in SUBSET Nat /\ T # {}
  BY DecidersPronounce, RankOrder
<1> HIDE DEF T
<1>2. PICK x \in T : \A y \in T : x <= y
  BY <1>1, LeastExists
<1> QED
  BY <1>2 DEF T, Least

(* Of the verdicts pronounced there is one in the first chain.                *)
LEMMA FirstHit ==
    ASSUME NEW R \in SUBSET Policies, Hits(R) # {}
    PROVE  \E h \in Hits(R) : First(R, h)
<1> DEFINE T == {Chain(h[1], h[2]) : h \in Hits(R)}
<1>1. \A h \in Hits(R) : /\ h[1] \in TopRules \cup MatchRules
                        /\ h[2] \in Actions
  BY DecidersPronounce DEF Hits
<1>2. \A h \in Hits(R) : Chain(h[1], h[2]) \in Nat
  <2>1. /\ ChainBase["device"] = 0 /\ ChainBase["group"] = 2
        /\ ChainBase["network"] = 4 /\ ChainBase["global"] = 8
    BY DEF ChainBase
  <2>2. \A r \in TopRules \cup MatchRules : r.level \in Levels /\ r.hi \in BOOLEAN
    BY DEF TopRules, MatchRules
  <2>3. ASSUME NEW r \in TopRules \cup MatchRules, NEW a \in Actions
        PROVE  Chain(r, a) \in Nat
    BY <2>1, <2>2 DEF Chain, Levels, Actions
  <2> QED
    BY <1>1, <2>3
<1>3. T \in SUBSET Nat /\ T # {}
  BY <1>2
<1> HIDE DEF T
<1>4. PICK x \in T : \A y \in T : x <= y
  BY <1>3, LeastExists
<1> QED
  BY <1>4 DEF T, First

(* For any rules, checkACL comes to the verdict that the kernel gives, unless *)
(* a level matches more than one group, or has a block and matches a group by *)
(* a rule whose action is "block".                                            *)
THEOREM VerdictsAgree ==
    ASSUME NEW R \in SUBSET Policies, OneGroupPerLevel(R), GroupsComeFirst(R)
    PROVE  AclVerdict(R) = KernelVerdict(R)
<1> DEFINE D == Deciders(R)
           r == CHOOSE r \in D : Least(R, D, r)
           h == CHOOSE h \in Hits(R) : First(R, h)
<1>1. /\ D \subseteq R \cap (TopRules \cup MatchRules)
      /\ \A q \in R : q \in D <=> \E a \in Actions : Pronounces(R, q, a)
  BY DecidersPronounce
<1>2. D = {} <=> Hits(R) = {}
  <2>1. ASSUME NEW p \in D
        PROVE  Hits(R) # {}
    <3>1. PICK a \in Actions : Pronounces(R, p, a)
      BY <1>1
    <3>2. <<p, a>> \in R \X Actions
      BY <1>1
    <3> QED
      BY <3>1, <3>2 DEF Hits
  <2>2. ASSUME NEW k \in Hits(R)
        PROVE  k[1] \in D
    BY <1>1 DEF Hits
  <2> QED
    BY <2>1, <2>2
<1>3. CASE D = {}
  BY <1>2, <1>3 DEF AclVerdict, KernelVerdict
<1>4. CASE D # {}
  <2>1. r \in D /\ Least(R, D, r)
    BY <1>4, LeastDecider
  <2>2. h \in Hits(R) /\ First(R, h)
    BY <1>2, <1>4, FirstHit
  <2>3. AclVerdict(R) = Says(R, r) /\ KernelVerdict(R) = h[2]
    BY <1>2, <1>4 DEF AclVerdict, KernelVerdict
  <2> HIDE DEF r, h
  <2> DEFINE q == h[1]
             b == h[2]
  <2>4. q \in D /\ b \in Actions /\ Pronounces(R, q, b)
    BY <2>2, <1>1 DEF Hits
  <2>5. \A a \in Actions : Pronounces(R, r, a) => Chain(q, b) <= Chain(r, a)
    <3> SUFFICES ASSUME NEW a \in Actions, Pronounces(R, r, a)
                 PROVE  Chain(q, b) <= Chain(r, a)
      OBVIOUS
    <3>1. <<r, a>> \in R \X Actions
      BY <1>1, <2>1
    <3>2. <<r, a>> \in Hits(R)
      BY <3>1 DEF Hits
    <3> QED
      BY <2>2, <3>2 DEF First
  <2>6. /\ r \in TopRules \cup MatchRules /\ q \in TopRules \cup MatchRules
        /\ r \in R /\ q \in R
    BY <1>1, <2>1, <2>4
  <2>7. Rank(r) <= Rank(q)
    BY <2>1, <2>4 DEF Least
  <2>8. PICK a \in Actions : Pronounces(R, r, a)
    BY <1>1, <2>1
  <2>9. Place(r) = Place(q)
    <3>1. Place(r) <= Place(q)
      BY <2>6, <2>7, RankOrder
    <3>2. Place(q) <= Place(r)
      BY <2>4, <2>5, <2>6, <2>8, ChainOrder
    <3>3. Place(r) \in Nat /\ Place(q) \in Nat
      BY <2>6 DEF Place
    <3> QED
      BY <3>1, <3>2, <3>3
  <2>10. r.level = q.level /\ r.hi = q.hi
    BY <2>6, <2>9, PlaceOfLevel
  <2> HIDE DEF q, b
  <2>11. /\ Pronounces(R, r, "allow") => b = "allow"
         /\ r.does = "block" => q.does \in {"block", "blockMatch"}
         /\ r.does \in Matching => q.does # "allow"
    BY <2>4, <2>5, <2>6, <2>7, <2>9, ChainOrder, RankOrder DEF Actions
  <2>12. \A p \in TopRules \cup MatchRules :
           /\ p \in TopRules => p \notin MatchRules /\ p.does \in Actions
           /\ p \in MatchRules => p \notin TopRules /\ p.does \in Matching
           /\ p.does \in Matching => p.does \notin Actions
    BY DEF TopRules, MatchRules, Actions, Matching
  <2>13. Says(R, r) = b
    <3>1. CASE r \in TopRules
      <4>1. Says(R, r) = r.does /\ Pronounces(R, r, r.does)
        BY <3>1, <2>12, <2>6 DEF Says, Pronounces, Actions
      <4>2. CASE r.does = "allow"
        BY <4>1, <4>2, <2>11
      <4>3. CASE r.does = "block"
        <5>1. q \in TopRules
          BY <3>1, <4>3, <2>6, <2>10, <2>11, <2>12 DEF GroupsComeFirst, Actions
        <5> QED
          BY <5>1, <4>1, <4>3, <2>4, <2>6, <2>11, <2>12 DEF Pronounces, Actions, Matching
      <4> QED
        BY <3>1, <4>2, <4>3, <2>12, <2>6 DEF Actions
    <3>2. CASE r \in MatchRules
      <4> DEFINE M == Members(R, r.group)
                 s == CHOOSE s \in M : Least(R, M, s)
      <4>1. r.does \in Matching /\ r \notin TopRules
        BY <3>2, <2>12, <2>6
      <4>2. \E m \in M : m.does = a
        BY <2>8, <3>2, <4>1 DEF Pronounces
      <4>3. /\ s \in M /\ s.does \in Actions
            /\ (\E m \in M : m.does = "allow") => s.does = "allow"
        BY <4>2, GroupSays
      <4>4. Says(R, r) = s.does
        BY <4>1 DEF Says
      <4> HIDE DEF s
      <4>5. CASE \E m \in M : m.does = "allow"
        <5>1. Pronounces(R, r, "allow")
          BY <4>5, <3>2 DEF Pronounces
        <5> QED
          BY <5>1, <4>3, <4>4, <4>5, <2>11
      <4>6. CASE \A m \in M : m.does # "allow"
        <5>1. s.does = "block"
          BY <4>3, <4>6 DEF Actions
        <5>2. CASE q \in TopRules
          BY <5>2, <2>4, <2>6, <2>11, <2>12, <4>1, <4>4, <5>1 DEF Pronounces, Actions
        <5>3. CASE q \in MatchRules
          <6>1. q.group = r.group
            BY <5>3, <3>2, <2>6, <2>10 DEF OneGroupPerLevel
          <6>2. \E m \in M : m.does = b
            BY <5>3, <6>1, <2>4, <2>6, <2>12 DEF Pronounces
          <6> QED
            BY <6>2, <4>6, <2>4, <4>4, <5>1 DEF Actions
        <5> QED
          BY <5>2, <5>3, <2>6
      <4> QED
        BY <4>5, <4>6
    <3> QED
      BY <3>1, <3>2, <2>6
  <2> QED
    BY <2>3, <2>13 DEF b
<1> QED
  BY <1>3, <1>4

-----------------------------------------------------------------------------
(* The variables of AccessCheck have their types.                             *)
THEOREM TypeCorrect == Spec => []TypeOK
<1>1. Init => TypeOK
  <2> SUFFICES ASSUME Init PROVE TypeOK
    OBVIOUS
  <2>1. saved \in SUBSET Policies
    BY DEF Init
  <2>2. /\ kernel = saved /\ ever = saved /\ ended = {} /\ timer = {}
        /\ events = <<>> /\ writer = Nothing /\ cache = <<>> /\ call = NoCall
    BY DEF Init
  <2> QED
    BY <2>1, <2>2 DEF TypeOK, NoCall
<1>2. TypeOK /\ [Next]_vars => TypeOK'
  <2> SUFFICES ASSUME TypeOK, [Next]_vars PROVE TypeOK'
    OBVIOUS
  <2> USE DEF TypeOK
  <2>1. ASSUME NEW r \in Policies, NEW act \in {"enforce", "unenforce"}, Write(act, r)
        PROVE  TypeOK'
    <3>1. [act |-> act, rule |-> {r}] \in Requests
      BY DEF Requests
    <3>2. saved' \in SUBSET Policies /\ ever' \in SUBSET Policies
      BY <2>1 DEF Write
    <3> QED
      BY <2>1, <3>1, <3>2 DEF Write
  <2>2. ASSUME NEW r \in Policies, Create(r) \/ Delete(r)
        PROVE  TypeOK'
    BY <2>1, <2>2 DEF Create, Delete
  <2>3. ASSUME NEW r \in Policies, Expire(r)
        PROVE  TypeOK'
    BY <2>3 DEF Expire
  <2>4. CASE TryPolicyEnforcement
    BY <2>4 DEF TryPolicyEnforcement, CacheAfter, Nothing
  <2>5. CASE HandleEvent
    <3>1. Head(events) \in Requests /\ Tail(events) \in Seq(Requests)
      BY <2>5 DEF HandleEvent
    <3>2. kernel' \in SUBSET Policies
      BY <2>5, <3>1 DEF HandleEvent, Requests
    <3> QED
      BY <2>5, <3>1, <3>2 DEF HandleEvent
  <2>6. CASE ExpireRecord
    BY <2>6 DEF ExpireRecord
  <2>7. CASE StartCheck
    BY <2>7 DEF StartCheck, NoCall
  <2>8. CASE LoadRules
    BY <2>8 DEF LoadRules, NoCall
  <2>9. CASE KeepRules
    BY <2>9 DEF KeepRules, NoCall
  <2>10. CASE UNCHANGED vars
    BY <2>10 DEF vars
  <2> QED
    BY <2>2, <2>3, <2>4, <2>5, <2>6, <2>7, <2>8, <2>9, <2>10 DEF Next
<1> QED
  BY <1>1, <1>2, PTL DEF Spec

-----------------------------------------------------------------------------
(* Requests that FireMain has not handled, the one FireApi is about to send   *)
(* last.                                                                      *)
Outbox == IF writer = Nothing THEN events ELSE Append(events, writer)
Request(act, r) == [act |-> act, rule |-> {r}]
Pending(act, r) == \E i \in 1 .. Len(Outbox) : Outbox[i] = Request(act, r)

\* Requests are about rules there are or were. A rule that is saved is in the
\* kernel or will be, unless its time is over; one that is in the kernel or will
\* be is saved or will be taken out. A rule is created once, before it is deleted.
InKernel(r) == r \in saved => r \in kernel \/ Pending("enforce", r) \/ r \in timer
InRedis(r) == r \in kernel \/ Pending("enforce", r) => r \in saved \/ Pending("unenforce", r)
NotYet(r) == /\ Pending("enforce", r) => r \notin kernel \cup timer
             /\ r \in timer => r \notin kernel
NoMore(r) == Pending("unenforce", r) => r \notin saved
InOrder(r) ==
    \A i, j \in 1 .. Len(Outbox), act \in {"enforce", "unenforce"} :
        Outbox[i] = Request(act, r) /\ Outbox[j] = Request("enforce", r) => j <= i
Known(r) == /\ r \in saved \cup kernel \cup timer => r \in ever
            /\ Pending("enforce", r) \/ Pending("unenforce", r) => r \in ever

RulesInv == \A r \in Policies : /\ InKernel(r) /\ InRedis(r) /\ NotYet(r) /\ NoMore(r)
                               /\ InOrder(r) /\ Known(r)

LEMMA OutboxType ==
    ASSUME TypeOK
    PROVE  Outbox \in Seq(Requests)
BY DEF TypeOK, Outbox

(* What a request appended to the outbox makes pending.                       *)
LEMMA AppendPending ==
    ASSUME TypeOK, NEW r \in Policies, NEW act \in {"enforce", "unenforce"},
           Outbox' = Append(Outbox, Request(act, r))
    PROVE  \A q \in Policies, a \in {"enforce", "unenforce"} :
               Pending(a, q)' <=> Pending(a, q) \/ (a = act /\ q = r)
<1>1. Outbox \in Seq(Requests)
  BY OutboxType
<1>2. /\ Len(Outbox') = Len(Outbox) + 1 /\ Len(Outbox) \in Nat
      /\ \A i \in 1 .. Len(Outbox) : Outbox'[i] = Outbox[i]
      /\ Outbox'[Len(Outbox) + 1] = Request(act, r)
  BY <1>1
<1>3. ASSUME NEW q \in Policies, NEW a \in {"enforce", "unenforce"}
      PROVE  Request(a, q) = Request(act, r) <=> a = act /\ q = r
  BY DEF Request
<1> QED
  BY <1>2, <1>3 DEF Pending

(* What is pending when the first request of the outbox has been taken.       *)
LEMMA TailPending ==
    ASSUME TypeOK, Outbox # <<>>, Outbox' = Tail(Outbox)
    PROVE  \A q \in Policies, a \in {"enforce", "unenforce"} :
               /\ Pending(a, q)' => Pending(a, q)
               /\ Pending(a, q) => Pending(a, q)' \/ Outbox[1] = Request(a, q)
<1>1. Outbox \in Seq(Requests)
  BY OutboxType
<1>2. /\ Len(Outbox') = Len(Outbox) - 1 /\ Len(Outbox) \in Nat \ {0}
      /\ \A i \in 1 .. Len(Outbox) - 1 : Outbox'[i] = Outbox[i + 1]
  BY <1>1
<1> SUFFICES ASSUME NEW q \in Policies, NEW a \in {"enforce", "unenforce"}
             PROVE  /\ Pending(a, q)' => Pending(a, q)
                    /\ Pending(a, q) => Pending(a, q)' \/ Outbox[1] = Request(a, q)
  OBVIOUS
<1>3. Request(a, q)' = Request(a, q)
  BY DEF Request
<1>4. ASSUME Pending(a, q)'
      PROVE  Pending(a, q)
  <2>1. PICK i \in 1 .. Len(Outbox') : Outbox'[i] = Request(a, q)
    BY <1>4, <1>3 DEF Pending
  <2>2. i + 1 \in 1 .. Len(Outbox) /\ Outbox[i + 1] = Request(a, q)
    BY <1>2, <2>1
  <2> QED
    BY <2>2 DEF Pending
<1>5. ASSUME Pending(a, q), Outbox[1] # Request(a, q)
      PROVE  Pending(a, q)'
  <2>1. PICK i \in 1 .. Len(Outbox) : Outbox[i] = Request(a, q)
    BY <1>5 DEF Pending
  <2>2. i - 1 \in 1 .. Len(Outbox') /\ Outbox'[i - 1] = Request(a, q)
    BY <1>2, <1>5, <2>1
  <2> QED
    BY <2>2, <1>3 DEF Pending
<1> QED
  BY <1>4, <1>5

(* Requests differ when what they ask or the rule does.                       *)
LEMMA RequestsDiffer ==
    \A q, r \in Policies : \A a, b : Request(a, q) = Request(b, r) <=> a = b /\ q = r
BY DEF Request

(* A step that does not touch the requests leaves them pending, in order.     *)
LEMMA SameRequests ==
    ASSUME UNCHANGED <<events, writer>>
    PROVE  /\ \A q \in Policies, a \in {"enforce", "unenforce"} : Pending(a, q)' <=> Pending(a, q)
           /\ \A q \in Policies : InOrder(q)' <=> InOrder(q)
<1>1. Outbox' = Outbox
  BY DEF Outbox
<1>2. \A a, q : Request(a, q)' = Request(a, q)
  BY DEF Request
<1> QED
  BY <1>1, <1>2 DEF Pending, InOrder

(* The rules: what the app writes, the app's request and FireMain's handling  *)
(* of it keep redis and the kernel together.                                  *)
LEMMA WriteKeepsRules ==
    ASSUME TypeOK, RulesInv, NEW r \in Policies, NEW act \in {"enforce", "unenforce"},
           Write(act, r),
           act = "enforce" => r \notin ever,
           act = "unenforce" => r \in saved
    PROVE  RulesInv'
<1>1. /\ writer = Nothing /\ writer' = Request(act, r) /\ events' = events
      /\ UNCHANGED <<kernel, timer>>
      /\ ever' = ever \cup {r}
      /\ act = "enforce" => saved' = saved \cup {r}
      /\ act = "unenforce" => saved' = saved \ {r}
  BY DEF Write, Request
<1>2. writer' # Nothing
  BY <1>1 DEF Request, Nothing
<1>3. Outbox' = Append(Outbox, Request(act, r))
  BY <1>1, <1>2 DEF Outbox
<1>4. \A q \in Policies, a \in {"enforce", "unenforce"} :
          Pending(a, q)' <=> Pending(a, q) \/ (a = act /\ q = r)
  BY <1>3, AppendPending
<1> SUFFICES ASSUME NEW q \in Policies
             PROVE  /\ InKernel(q)' /\ InRedis(q)' /\ NotYet(q)' /\ NoMore(q)'
                    /\ InOrder(q)' /\ Known(q)'
  BY DEF RulesInv
<1>5. /\ InKernel(q) /\ InRedis(q) /\ NotYet(q) /\ NoMore(q) /\ InOrder(q) /\ Known(q)
      /\ Known(r)
  BY DEF RulesInv
<1>6. InKernel(q)'
  BY <1>1, <1>4, <1>5 DEF InKernel
<1>7. InRedis(q)'
  BY <1>1, <1>4, <1>5 DEF InRedis
<1>8. NotYet(q)'
  BY <1>1, <1>4, <1>5 DEF NotYet, Known
<1>9. NoMore(q)'
  BY <1>1, <1>4, <1>5 DEF NoMore, Known
<1>10. Known(q)'
  BY <1>1, <1>4, <1>5 DEF Known
<1>11. InOrder(q)'
  <2>1. Outbox \in Seq(Requests)
    BY OutboxType
  <2>2. /\ Len(Outbox') = Len(Outbox) + 1 /\ Len(Outbox) \in Nat
        /\ \A i \in 1 .. Len(Outbox) : Outbox'[i] = Outbox[i]
        /\ Outbox'[Len(Outbox) + 1] = Request(act, r)
    BY <1>3, <2>1
  <2>3. \A a, p : Request(a, p)' = Request(a, p)
    BY DEF Request
  <2> SUFFICES ASSUME NEW i \in 1 .. Len(Outbox'), NEW j \in 1 .. Len(Outbox'),
                      NEW a \in {"enforce", "unenforce"},
                      Outbox'[i] = Request(a, q), Outbox'[j] = Request("enforce", q)
               PROVE  j <= i
    BY <2>3 DEF InOrder
  <2>4. CASE j = Len(Outbox) + 1
    <3>1. act = "enforce" /\ q = r
      BY <2>4, <2>2, RequestsDiffer
    <3>2. ~ Pending("enforce", q) /\ ~ Pending("unenforce", q)
      BY <3>1, <1>5 DEF Known
    <3>3. i \notin 1 .. Len(Outbox)
      BY <3>2, <2>2 DEF Pending
    <3> QED
      BY <3>3, <2>2, <2>4
  <2>5. CASE j # Len(Outbox) + 1 /\ i = Len(Outbox) + 1
    BY <2>5, <2>2
  <2>6. CASE j # Len(Outbox) + 1 /\ i # Len(Outbox) + 1
    <3>1. i \in 1 .. Len(Outbox) /\ j \in 1 .. Len(Outbox)
      BY <2>2, <2>6
    <3> QED
      BY <3>1, <2>2, <1>5 DEF InOrder
  <2> QED
    BY <2>4, <2>5, <2>6
<1> QED
  BY <1>6, <1>7, <1>8, <1>9, <1>10, <1>11

LEMMA HandleEventKeepsRules ==
    ASSUME TypeOK, RulesInv, HandleEvent
    PROVE  RulesInv'
<1>1. /\ events # <<>> /\ events' = Tail(events)
      /\ UNCHANGED <<saved, writer, timer, ever>>
      /\ Head(events) \in Requests
  BY DEF HandleEvent, TypeOK
<1>2. PICK act \in {"enforce", "unenforce"}, r \in Policies : Head(events) = Request(act, r)
  BY <1>1 DEF Requests, Request
<1>3. /\ act = "enforce" => kernel' = kernel \cup {r}
      /\ act = "unenforce" => kernel' = kernel \ {r}
  BY <1>2 DEF HandleEvent, Request
<1>4. Outbox # <<>> /\ Outbox[1] = Request(act, r) /\ Outbox' = Tail(Outbox)
  <2>1. /\ events \in Seq(Requests) /\ events # <<>> /\ events[1] = Request(act, r)
        /\ writer \in Requests \cup {Nothing} /\ writer' = writer
    BY <1>1, <1>2 DEF TypeOK
  <2>2. CASE writer = Nothing
    <3>1. Outbox = events /\ Outbox' = events'
      BY <2>1, <2>2 DEF Outbox, Nothing
    <3> QED
      BY <1>1, <2>1, <3>1
  <2>3. CASE writer # Nothing
    <3>1. Outbox = Append(events, writer) /\ Outbox' = Append(events', writer)
      BY <2>1, <2>3 DEF Outbox, Nothing
    <3>2. writer \in Requests
      BY <2>1, <2>3
    <3>3. Append(events, writer) # <<>> /\ Append(events, writer)[1] = events[1]
      BY <2>1, <3>2
    <3>4. Append(Tail(events), writer) = Tail(Append(events, writer))
      BY <2>1, <3>2
    <3> QED
      BY <1>1, <2>1, <3>1, <3>3, <3>4
  <2> QED
    BY <2>2, <2>3
<1>5. Outbox \in Seq(Requests)
  BY OutboxType
<1>6. \A q \in Policies, a \in {"enforce", "unenforce"} :
          /\ Pending(a, q)' => Pending(a, q)
          /\ Pending(a, q) => Pending(a, q)' \/ (a = act /\ q = r)
  BY <1>4, TailPending, RequestsDiffer
<1>7. /\ Len(Outbox') = Len(Outbox) - 1 /\ Len(Outbox) \in Nat \ {0}
      /\ \A i \in 1 .. Len(Outbox) - 1 : Outbox'[i] = Outbox[i + 1]
  BY <1>4, <1>5
<1>8. \A a, p : Request(a, p)' = Request(a, p)
  BY DEF Request
<1>9. Pending(act, r) /\ InOrder(r) /\ NotYet(r) /\ NoMore(r) /\ InRedis(r)
  BY <1>4, <1>7 DEF Pending, RulesInv
<1>10. ~ Pending("enforce", r)'
  <2> SUFFICES ASSUME Pending("enforce", r)' PROVE FALSE
    OBVIOUS
  <2>1. PICK i \in 1 .. Len(Outbox') : Outbox'[i] = Request("enforce", r)
    BY <1>8 DEF Pending
  <2>2. i + 1 \in 1 .. Len(Outbox) /\ Outbox[i + 1] = Request("enforce", r)
    BY <1>7, <2>1
  <2>3. i + 1 <= 1
    BY <1>4, <1>7, <1>9, <2>2 DEF InOrder
  <2> QED
    BY <2>1, <2>3
<1> SUFFICES ASSUME NEW q \in Policies
             PROVE  /\ InKernel(q)' /\ InRedis(q)' /\ NotYet(q)' /\ NoMore(q)'
                    /\ InOrder(q)' /\ Known(q)'
  BY DEF RulesInv
<1>11. InKernel(q) /\ InRedis(q) /\ NotYet(q) /\ NoMore(q) /\ InOrder(q) /\ Known(q)
  BY DEF RulesInv
<1>12. InKernel(q)'
  BY <1>1, <1>3, <1>6, <1>9, <1>11 DEF InKernel, NoMore
<1>13. InRedis(q)'
  BY <1>1, <1>3, <1>6, <1>9, <1>10, <1>11 DEF InRedis
<1>14. NotYet(q)'
  BY <1>1, <1>3, <1>6, <1>9, <1>10, <1>11 DEF NotYet
<1>15. NoMore(q)'
  BY <1>1, <1>6, <1>11 DEF NoMore
<1>16. Known(q)'
  <2>1. Pending(act, r) => r \in ever
    BY <1>2 DEF RulesInv, Known
  <2> QED
    BY <1>1, <1>3, <1>6, <1>9, <1>11, <2>1 DEF Known
<1>17. InOrder(q)'
  <2> SUFFICES ASSUME NEW i \in 1 .. Len(Outbox'), NEW j \in 1 .. Len(Outbox'),
                      NEW a \in {"enforce", "unenforce"},
                      Outbox'[i] = Request(a, q), Outbox'[j] = Request("enforce", q)
               PROVE  j <= i
    BY <1>8 DEF InOrder
  <2>1. /\ i + 1 \in 1 .. Len(Outbox) /\ Outbox[i + 1] = Request(a, q)
        /\ j + 1 \in 1 .. Len(Outbox) /\ Outbox[j + 1] = Request("enforce", q)
    BY <1>7
  <2>2. j + 1 <= i + 1
    BY <2>1, <1>11 DEF InOrder
  <2> QED
    BY <2>2, <1>7
<1> QED
  BY <1>12, <1>13, <1>14, <1>15, <1>16, <1>17

(* Redis and the kernel stay together.                                        *)
LEMMA RulesInvariant ==
    /\ Init => RulesInv
    /\ TypeOK /\ RulesInv /\ [Next]_vars => RulesInv'
<1>1. Init => RulesInv
  <2> SUFFICES ASSUME Init PROVE RulesInv
    OBVIOUS
  <2>1. kernel = saved /\ ever = saved /\ timer = {} /\ Outbox = <<>>
    BY DEF Init, Outbox
  <2> QED
    BY <2>1 DEF RulesInv, InKernel, InRedis, NotYet, NoMore, InOrder, Known, Pending
<1>2. ASSUME TypeOK, RulesInv, [Next]_vars
      PROVE  RulesInv'
  <2>1. ASSUME NEW r \in Policies, Create(r)
        PROVE  RulesInv'
    BY <1>2, <2>1, WriteKeepsRules DEF Create
  <2>2. ASSUME NEW r \in Policies, Delete(r)
        PROVE  RulesInv'
    BY <1>2, <2>2, WriteKeepsRules DEF Delete
  <2>3. CASE TryPolicyEnforcement
    <3>1. /\ writer # Nothing /\ events' = Append(events, writer) /\ writer' = Nothing
          /\ UNCHANGED <<saved, kernel, timer, ever>>
      BY <2>3 DEF TryPolicyEnforcement
    <3>2. Outbox' = Outbox
      BY <3>1 DEF Outbox, Nothing
    <3>3. \A a, q : Request(a, q)' = Request(a, q)
      BY DEF Request
    <3>4. /\ \A a, q : Pending(a, q)' <=> Pending(a, q)
          /\ \A q : InOrder(q)' <=> InOrder(q)
      BY <3>2, <3>3 DEF Pending, InOrder
    <3> QED
      BY <1>2, <3>1, <3>4 DEF RulesInv, InKernel, InRedis, NotYet, NoMore, Known
  <2>4. CASE HandleEvent
    BY <1>2, <2>4, HandleEventKeepsRules
  <2>5. ASSUME NEW r \in Policies, Expire(r)
        PROVE  RulesInv'
    <3>1. /\ timer = {} /\ timer' = {r} /\ r \in kernel /\ kernel' = kernel \ {r}
          /\ UNCHANGED <<saved, events, writer, ever>>
      BY <2>5 DEF Expire
    <3>2. /\ \A q \in Policies, a \in {"enforce", "unenforce"} : Pending(a, q)' <=> Pending(a, q)
          /\ \A q \in Policies : InOrder(q)' <=> InOrder(q)
      BY <3>1, SameRequests
    <3> QED
      BY <1>2, <3>1, <3>2 DEF RulesInv, InKernel, InRedis, NotYet, NoMore, Known
  <2>6. CASE ExpireRecord
    <3>1. /\ saved' = saved \ timer /\ timer' = {}
          /\ UNCHANGED <<kernel, events, writer, ever>>
      BY <2>6 DEF ExpireRecord
    <3>2. /\ \A q \in Policies, a \in {"enforce", "unenforce"} : Pending(a, q)' <=> Pending(a, q)
          /\ \A q \in Policies : InOrder(q)' <=> InOrder(q)
      BY <3>1, SameRequests
    <3> QED
      BY <1>2, <3>1, <3>2 DEF RulesInv, InKernel, InRedis, NotYet, NoMore, Known
  <2>7. CASE UNCHANGED <<saved, kernel, timer, events, writer, ever>>
    <3>1. /\ \A q \in Policies, a \in {"enforce", "unenforce"} : Pending(a, q)' <=> Pending(a, q)
          /\ \A q \in Policies : InOrder(q)' <=> InOrder(q)
      BY <2>7, SameRequests
    <3> QED
      BY <1>2, <2>7, <3>1 DEF RulesInv, InKernel, InRedis, NotYet, NoMore, Known
  <2>8. CASE StartCheck \/ LoadRules \/ KeepRules
    BY <2>7, <2>8 DEF StartCheck, LoadRules, KeepRules
  <2>9. CASE UNCHANGED vars
    BY <2>7, <2>9 DEF vars
  <2> QED
    BY <1>2, <2>1, <2>2, <2>3, <2>4, <2>5, <2>6, <2>8, <2>9 DEF Next
<1> QED
  BY <1>1, <1>2

-----------------------------------------------------------------------------
(* The cache and a check under way hold the rules of redis, and some that     *)
(* FireMain ended; while the app waits for its answers nothing is half saved  *)
(* when a check loads the rules.                                              *)
Current(R) == saved \subseteq R /\ R \subseteq saved \cup ended
CacheInv == /\ call.pc # "idle" => writer = Nothing
            /\ cache # <<>> /\ writer = Nothing => Current(cache[1])
            /\ call.pc = "loaded" => Current(call.rules)

LEMMA CacheInvariant ==
    ASSUME Patient
    PROVE  /\ Init => CacheInv
           /\ TypeOK /\ CacheInv /\ [Next]_vars => CacheInv'
<1>1. Init => CacheInv
  BY DEF Init, CacheInv, NoCall
<1>2. ASSUME TypeOK, CacheInv, [Next]_vars
      PROVE  CacheInv'
  <2> USE <1>2 DEF CacheInv, Current
  <2>1. ASSUME NEW r \in Policies, NEW act \in {"enforce", "unenforce"}, Write(act, r)
        PROVE  CacheInv'
    <3>1. call = NoCall /\ call' = NoCall /\ writer' = [act |-> act, rule |-> {r}]
      BY <2>1 DEF Write
    <3>2. writer' # Nothing
      BY <3>1 DEF Nothing
    <3> QED
      BY <3>1, <3>2 DEF NoCall
  <2>2. ASSUME NEW r \in Policies, Create(r) \/ Delete(r)
        PROVE  CacheInv'
    BY <2>1, <2>2 DEF Create, Delete
  <2>3. CASE TryPolicyEnforcement
    BY <2>3 DEF TryPolicyEnforcement, CacheAfter
  <2>4. CASE HandleEvent
    BY <2>4 DEF HandleEvent
  <2>5. ASSUME NEW r \in Policies, Expire(r)
        PROVE  CacheInv'
    BY <2>5 DEF Expire
  <2>6. CASE ExpireRecord
    BY <2>6 DEF ExpireRecord
  <2>7. CASE StartCheck
    BY <2>7 DEF StartCheck, NoCall
  <2>8. CASE LoadRules
    BY <2>8 DEF LoadRules, NoCall
  <2>9. CASE KeepRules
    BY <2>9 DEF KeepRules, NoCall
  <2>10. CASE UNCHANGED vars
    BY <2>10 DEF vars
  <2> QED
    BY <2>2, <2>3, <2>4, <2>5, <2>6, <2>7, <2>8, <2>9, <2>10 DEF Next
<1> QED
  BY <1>1, <1>2

(* When nothing is on its way, redis has the rules of the kernel.             *)
LEMMA SettledIsSaved ==
    ASSUME TypeOK, RulesInv, Settled
    PROVE  saved = kernel
<1>1. Outbox = <<>> /\ timer = {}
  BY DEF Settled, Outbox
<1>2. \A a, r : ~ Pending(a, r)
  BY <1>1 DEF Pending
<1> QED
  BY <1>1, <1>2 DEF TypeOK, RulesInv, InKernel, InRedis

(* If the app waits for its answers, checkACL keeps the rules of the kernel   *)
(* whatever changes, but for those that FireMain ends by itself.              *)
THEOREM CacheCorrect ==
    ASSUME Patient
    PROVE  Spec => []CacheIsCurrent
<1>1. TypeOK /\ RulesInv /\ CacheInv => CacheIsCurrent
  BY SettledIsSaved DEF CacheInv, Current, CacheIsCurrent, Settled
<1> QED
  BY <1>1, TypeCorrect, RulesInvariant, CacheInvariant, PTL DEF Spec

(* If the app waits for its answers, the verdict it is told is the kernel's.  *)
THEOREM VerdictCorrect ==
    ASSUME Patient
    PROVE  Spec => []VerdictAgrees
<1>1. ASSUME TypeOK, RulesInv, CacheInv
      PROVE  VerdictAgrees
  <2> SUFFICES ASSUME Settled, cache # <<>>, ended \cap cache[1] = {},
                      OneGroupPerLevel(cache[1]), GroupsComeFirst(cache[1])
               PROVE  AclVerdict(cache[1]) = KernelVerdict(kernel)
    BY DEF VerdictAgrees
  <2>1. cache[1] = kernel
    BY <1>1, SettledIsSaved DEF CacheInv, Current, Settled
  <2>2. cache[1] \in SUBSET Policies
    BY <1>1, <2>1 DEF TypeOK
  <2> QED
    BY <2>1, <2>2, VerdictsAgree
<1>2. TypeOK /\ RulesInv /\ CacheInv => VerdictAgrees
  BY <1>1
<1> QED
  BY <1>2, TypeCorrect, RulesInvariant, CacheInvariant, PTL DEF Spec

=============================================================================

------------------------------ MODULE VpnClient ------------------------------
(* The VPN client of the box: its policy, which the app and the client itself *)
(* write (src/net2/HostManager.js, PolicyManager.js), and the starts, stops   *)
(* and refreshes of the tunnel that follow (OpenVPNClient.js and              *)
(* VPNClientEnforcer.js of src/extension/vpnclient). The profile is valid and *)
(* the server pushes a DNS server.                                            *)
EXTENDS Naturals

CONSTANTS Calls,      \* calls of vpnClient that can be under way
          Strict,     \* settings.strictVPN
          Patient,    \* the app asks, and links are lost, only when Settled
          MaxOps,     \* bound on operations of the app
          MaxBreaks,  \* bound on losses of the link
          MaxFailures \* bound on starts that give up after 30 seconds

VARIABLES redis,     \* policy:system, vpnClient
          memory,    \* HostManager's policy.vpnClient
          oper,      \* the policy applied last
          aliased,   \* memory and oper are one object
          exec,      \* execPolicyTask is pending
          call,      \* calls of vpnClient
          writer,    \* listeners that are about to write the policy
          service,   \* the unit openvpn_client@<profile>
          link,      \* its interface
          started,   \* _started
          listening, \* link_broken has a listener
          refresh,   \* a refresh of routes
          kernel,    \* what is enforced
          wanted,    \* state the app asked for last
          ops, breaks, failures

policies == <<redis, memory, oper, aliased, exec>>
tunnel == <<service, link, started, listening, refresh>>
bounds == <<wanted, ops, breaks, failures>>
vars == <<policies, call, writer, tunnel, kernel, bounds>>

Policy == [state : BOOLEAN, running : BOOLEAN, reconnecting : 0 .. MaxBreaks + MaxFailures]
Off == [state |-> FALSE, running |-> FALSE, reconnecting |-> 0]
Listeners == {"link_broken", "push_start", "push_stop"}
NoCall == [pc |-> "idle", policy |-> Off, result |-> FALSE, data |-> Off]
NoWrite == [pc |-> "idle", data |-> Off, aliased |-> FALSE]
Nothing == [routes |-> FALSE, redirect |-> FALSE, strict |-> FALSE]

TypeOK == /\ {redis, memory, oper} \subseteq Policy
          /\ {aliased, exec, service, link, started, listening, wanted} \subseteq BOOLEAN
          /\ call \in [Calls -> [pc : {"idle", "start", "poll", "routes", "push", "up", "after",
                                       "stop", "unredirect", "kill", "down", "merge", "write"},
                                 policy : Policy, result : BOOLEAN, data : Policy]]
          /\ writer \in [Listeners -> [pc : {"idle", "read", "write"}, data : Policy,
                                       aliased : BOOLEAN]]
          /\ refresh \in {"none", "told", "checked"}
          /\ kernel \in [routes : BOOLEAN, redirect : BOOLEAN, strict : BOOLEAN]
          /\ ops \in 0 .. MaxOps /\ breaks \in 0 .. MaxBreaks /\ failures \in 0 .. MaxFailures

Init == /\ redis = Off /\ memory = Off /\ oper = Off /\ aliased = FALSE /\ exec = FALSE
        /\ call = [c \in Calls |-> NoCall]
        /\ writer = [l \in Listeners |-> NoWrite]
        /\ service = FALSE /\ link = FALSE /\ started = FALSE /\ listening = FALSE
        /\ refresh = "none" /\ kernel = Nothing
        /\ wanted = FALSE /\ ops = 0 /\ breaks = 0 /\ failures = 0

AtRest == /\ ~exec /\ refresh = "none"
          /\ \A c \in Calls : call[c] = NoCall
          /\ \A l \in Listeners : writer[l] = NoWrite
Settled == AtRest /\ (started => link)
-----------------------------------------------------------------------------
(* The policy                                                                 *)

\* The app writes the policy in FireApi and tells FireMain.
AppSets ==
    /\ ops < MaxOps /\ ops' = ops + 1
    /\ Patient => Settled
    /\ wanted' = ~wanted
    /\ redis' = [Off EXCEPT !.state = ~wanted]
    /\ exec' = TRUE
    /\ UNCHANGED <<memory, oper, aliased, call, writer, tunnel, kernel, breaks, failures>>

\* execPolicy reads the policy; execute compares it with what it applied last
\* and keeps the very object; vpnClient is not awaited.
ExecPolicy ==
    /\ exec /\ exec' = FALSE
    /\ memory' = redis
    /\ IF redis = oper
       THEN aliased' = FALSE /\ UNCHANGED <<oper, call, writer>>
       ELSE /\ oper' = redis /\ aliased' = TRUE
            /\ writer' = [l \in Listeners |-> [writer[l] EXCEPT !.aliased = FALSE]]
            /\ \E c \in Calls :
                 /\ call[c] = NoCall
                 /\ call' = [call EXCEPT ![c] = [NoCall EXCEPT
                       !.pc = IF redis.state THEN "start" ELSE "stop", !.policy = redis]]
    /\ UNCHANGED <<redis, tunnel, kernel, bounds>>

\* setPolicyAsync, once it has read the policy: memory and redis are what the
\* caller gave it.
Set(data) == memory' = data /\ redis' = data /\ exec' = TRUE

\* A listener of push options redirects DNS or ends that; then it changes the
\* object in memory and sets it.
Change(l, data) ==
    /\ memory' = data
    /\ oper' = IF aliased THEN data ELSE oper
    /\ writer' = [writer EXCEPT ![l] = [pc |-> "write", data |-> data, aliased |-> aliased]]

ListenerReads(l) ==
    /\ writer[l].pc = "read"
    /\ kernel' = [kernel EXCEPT !.redirect = (l = "push_start")]
    /\ Change(l, IF l = "push_start" THEN [memory EXCEPT !.running = TRUE] ELSE memory)
    /\ UNCHANGED <<redis, aliased, exec, call, tunnel, bounds>>

ListenerWrites(l) ==
    /\ writer[l].pc = "write"
    /\ Set(writer[l].data)
    /\ aliased' = writer[l].aliased
    /\ writer' = [writer EXCEPT ![l] = NoWrite]
    /\ UNCHANGED <<oper, call, tunnel, kernel, bounds>>

\* What vpnClient returned is merged into the latest policy in memory.
Outcome_neverCleared(c) ==
    [memory EXCEPT !.running = call[c].result, !.reconnecting = call[c].policy.reconnecting + 1]
Outcome_notCounted(c) == [memory EXCEPT !.running = call[c].result, !.reconnecting = 0]
Outcome(c) ==
    [memory EXCEPT !.running = call[c].result,
                   !.reconnecting = IF call[c].result \/ ~call[c].policy.state THEN 0
                                    ELSE call[c].policy.reconnecting + 1]
Merge(c) ==
    /\ call[c].pc = "merge"
    /\ call' = [call EXCEPT ![c].pc = "write", ![c].data = Outcome(c)]
    /\ UNCHANGED <<policies, writer, tunnel, kernel, bounds>>

Write(c) ==
    /\ call[c].pc = "write"
    /\ Set(call[c].data)
    /\ aliased' = FALSE
    /\ call' = [call EXCEPT ![c] = NoCall]
    /\ UNCHANGED <<oper, writer, tunnel, kernel, bounds>>
-----------------------------------------------------------------------------
(* start                                                                      *)

To(c, pc) == call' = [call EXCEPT ![c].pc = pc]

StartService(c) ==
    /\ call[c].pc = "start" /\ To(c, "poll")
    /\ service' = TRUE
    /\ UNCHANGED <<policies, writer, link, started, listening, refresh, kernel, bounds>>

\* The address of the other end is looked for every two seconds.
Established(c) ==
    /\ call[c].pc = "poll" /\ link /\ To(c, "routes")
    /\ UNCHANGED <<policies, writer, tunnel, kernel, bounds>>

GiveUp(c) ==
    /\ call[c].pc = "poll" /\ failures < MaxFailures
    /\ failures' = failures + 1
    /\ To(c, "after")
    /\ UNCHANGED <<policies, writer, tunnel, kernel, wanted, ops, breaks>>

EnforceRoutes(c) ==
    /\ call[c].pc = "routes" /\ To(c, "push")
    /\ kernel' = [kernel EXCEPT !.routes = TRUE]
    /\ UNCHANGED <<policies, writer, tunnel, bounds>>

\* _processPushOptions; the listener of HostManager goes on by itself.
PushOptions(c) ==
    /\ call[c].pc = "push" /\ To(c, "up")
    /\ writer' = IF writer["push_start"].pc = "idle"
                 THEN [writer EXCEPT !["push_start"].pc = "read"] ELSE writer
    /\ UNCHANGED <<policies, tunnel, kernel, bounds>>

Up(c) ==
    /\ call[c].pc = "up"
    /\ kernel' = [kernel EXCEPT !.strict = Strict, !.redirect = TRUE]
    /\ started' = TRUE
    /\ call' = [call EXCEPT ![c].pc = "after", ![c].result = TRUE]
    /\ UNCHANGED <<policies, writer, service, link, listening, refresh, bounds>>

\* vpnClient of HostManager, after start.
AfterStart(c) ==
    /\ call[c].pc = "after" /\ To(c, "merge")
    /\ kernel' = [kernel EXCEPT !.strict = Strict]
    /\ listening' = (listening \/ call[c].result)
    /\ UNCHANGED <<policies, writer, service, link, started, refresh, bounds>>

Start(c) == \/ StartService(c) \/ Established(c) \/ GiveUp(c) \/ EnforceRoutes(c)
            \/ PushOptions(c) \/ Up(c) \/ AfterStart(c)
-----------------------------------------------------------------------------
(* stop                                                                       *)

FlushRoutes(c) ==
    /\ call[c].pc = "stop" /\ To(c, "unredirect")
    /\ started' = FALSE
    /\ kernel' = [kernel EXCEPT !.routes = FALSE]
    /\ UNCHANGED <<policies, writer, service, link, listening, refresh, bounds>>

Unredirect(c) ==
    /\ call[c].pc = "unredirect" /\ To(c, "kill")
    /\ kernel' = [kernel EXCEPT !.redirect = FALSE]
    /\ writer' = IF writer["push_stop"].pc = "idle"
                 THEN [writer EXCEPT !["push_stop"].pc = "read"] ELSE writer
    /\ UNCHANGED <<policies, tunnel, bounds>>

StopService(c) ==
    /\ call[c].pc = "kill" /\ To(c, "down")
    /\ service' = FALSE /\ link' = FALSE
    /\ UNCHANGED <<policies, writer, started, listening, refresh, kernel, bounds>>

Unstrict_kept(c) == kernel
Unstrict(c) == [kernel EXCEPT !.strict = FALSE]
Down(c) ==
    /\ call[c].pc = "down" /\ To(c, "merge")
    /\ kernel' = Unstrict(c)
    /\ UNCHANGED <<policies, writer, tunnel, bounds>>

Stop(c) == FlushRoutes(c) \/ Unredirect(c) \/ StopService(c) \/ Down(c)
-----------------------------------------------------------------------------
(* The link                                                                   *)

\* OpenVPN connects, and ovpn_up.sh publishes that the route is up.
LinkUp ==
    /\ service /\ ~link /\ link' = TRUE
    /\ refresh' = IF refresh = "none" THEN "told" ELSE refresh
    /\ UNCHANGED <<policies, call, writer, service, started, listening, kernel, bounds>>

LinkDown ==
    /\ link /\ breaks < MaxBreaks
    /\ Patient => Settled
    /\ link' = FALSE /\ breaks' = breaks + 1
    /\ UNCHANGED <<policies, call, writer, service, started, listening, refresh, kernel,
                   wanted, ops, failures>>

\* _refreshRoutes: it looks at _started and at the link, and enforces routes.
RefreshCheck ==
    /\ refresh = "told"
    /\ refresh' = IF started /\ link THEN "checked" ELSE "none"
    /\ UNCHANGED <<policies, call, writer, service, link, started, listening, kernel, bounds>>

RefreshRoutes ==
    /\ refresh = "checked" /\ refresh' = "none"
    /\ kernel' = [kernel EXCEPT !.routes = TRUE, !.redirect = TRUE]
    /\ UNCHANGED <<policies, call, writer, service, link, started, listening, bounds>>

\* _checkConnectivity, every minute; its listener is called once.
CheckConnectivity ==
    /\ started /\ ~link /\ listening
    /\ writer["link_broken"].pc = "idle"
    /\ listening' = FALSE
    /\ Change("link_broken", [memory EXCEPT !.running = FALSE, !.reconnecting = @ + 1])
    /\ UNCHANGED <<redis, aliased, exec, call, service, link, started, refresh, kernel, bounds>>

Work(c) == Start(c) \/ Stop(c) \/ Merge(c) \/ Write(c)
Listen(l) == ListenerReads(l) \/ ListenerWrites(l)
Refresh == RefreshCheck \/ RefreshRoutes

Next == \/ AppSets \/ ExecPolicy
        \/ \E c \in Calls : Work(c)
        \/ \E l \in Listeners : Listen(l)
        \/ LinkUp \/ LinkDown \/ Refresh \/ CheckConnectivity

Spec == Init /\ [][Next]_vars

\* Timers fire, commands end and their callbacks are called, and OpenVPN, while
\* it runs, gets its link back.
Fairness == /\ WF_vars(ExecPolicy) /\ WF_vars(LinkUp) /\ WF_vars(Refresh)
            /\ WF_vars(CheckConnectivity)
            /\ \A c \in Calls : WF_vars(Work(c))
            /\ \A l \in Listeners : WF_vars(Listen(l))
FairSpec == Spec /\ Fairness
-----------------------------------------------------------------------------
(* A strict VPN drops what does not go through the tunnel: it must hold while *)
(* the client is wanted, connected or not, and must be gone when it is not,   *)
(* or the devices stay cut off.                                               *)
StrictFollowsState == AtRest => kernel.strict = (redis.state /\ Strict)

(* While the app wants the client, a lost link leads to a new start until it  *)
(* is up again and the policy says so, whatever starts have given up.         *)
Reconnected == started /\ link /\ kernel.routes /\ redis.running
Reconnects == redis.state /\ ~link ~> Reconnected \/ ~redis.state

(* "in case latest policy has changed before the vpnClient function returns"  *)
(* (PolicyManager.js:152): what the client writes about itself does not       *)
(* change what the app has asked for.                                         *)
AppDecides == AtRest => redis.state = wanted

(* "flush routes before stop vpn client to ensure smooth switch of traffic    *)
(* routing" (OpenVPNClient.js:416): a client that is stopped leaves nothing.  *)
StoppedLeavesNothing == AtRest /\ ~redis.state => kernel = Nothing /\ ~service /\ ~started
=============================================================================

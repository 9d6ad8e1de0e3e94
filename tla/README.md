# A verification development of Firewalla

Firewalla is the software of a home firewall: a set of Node.js processes on one
box that share redis, publish events to each other through redis, and program
the kernel (iptables, ipset, tc, routing), dnsmasq and OpenVPN. This directory
holds TLA+ models of the parts that decide *which rules are in force, what they
decide, which alarms are open, and whether what the app has asked for reaches
the box*, the TLC configurations that check them, and TLAPS proofs of some of
their properties for every value of the parameters.

Paths below are relative to the repository, without the leading `src/`.

## 1. Inventory

### 1.1 Processes

| Process | Entry | What it does here |
|---|---|---|
| FireMain | `net2/main.js` | enforces policies, applies modes, keeps hosts and sets; owner of the policy queue, cron jobs, timeouts |
| FireApi | `controllers/` (`netbot.js`) | messages of the app: reads and writes redis, then emits events |
| FireMon | `monitor/` | watches flows and creates alarms |

A process is single-threaded. Control changes hands at an `await` (or a
callback), so *the code between two awaits is one step* of every model here,
and everything else in the box may happen between two steps. Processes share
redis, in which one command, or one `multi`, is atomic.

### 1.2 Components modelled

**Policy scheduler** (`extension/scheduler/scheduler.js`).
State: `runningCronJobs` and `policyTimers` (pid -> cron job, pid -> timeout), the
jobs and timeouts themselves. Operations: `registerPolicy`, `deregisterPolicy`,
`apply` (a cron tick: enforce, then arm the timeout that unenforces),
`scheduleReload` (the timezone changes: every policy is deregistered and
registered again). It is called by the policy queue, which is serial, and by
the reload, which is not. Hard: `apply`, the callback of the timeout and the
reload await in the middle and go on with what they had. Correct when: a policy
has at most one cron job; whatever is installed will be taken out; a policy
that should be scheduled is.

**Policy manager** (`alarm/PolicyManager2.js`, `alarm/Policy.js`).
State: redis `policy:<pid>` and `policy_active`, the policy queue (bee-queue,
one consumer, 60 s a job), `enabledTimers` (pid -> timeout of an expiry or of the
end of a pause), the rules in the kernel. Operations: save, enable, disable,
update, delete (FireApi), enforce, unenforce, reenforce (FireMain), expiry, end of
a pause, boot. Clients tell FireMain by `tryPolicyEnforcement`, an event that
becomes a job. Hard: clients write redis before FireMain hears of it;
`updatePolicyAsync` reads a record whole and writes it whole; timeouts run
beside the queue; events are lost while FireMain is down. Correct when:
listed policies can be loaded; a timeout that is armed can be cleared; kernel and
records agree when everything has settled; a restart repairs what a crash
interrupted.

**Alarm manager** (`alarm/AlarmManager2.js`).
State: redis `_alarm:<aid>`, `alarm_active`, `alarm_archive`, `alarm:id`, a queue per
process, the policies and exceptions that cover alarms. Operations:
`enqueueAlarm`, `checkAndSaveAsync` (deduplicate, match exceptions and policies, id,
save, list), auto-block, block, allow, unblock, unallow, ignore, remove, delete
the alarms of a host, the bulk operations, `archiveAlarmByException`; a record expires after a month,
and `sensor/OldDataCleanSensor.js` takes ids without a record out of the lists. Hard: operations
on one alarm, and on similar alarms, overlap and write records they loaded
earlier; the first id is given by get-then-set. Correct when: an alarm is in one
list; what is listed can be loaded, until its record expires; what is handled leaves the list; no duplicates;
the queue never stays blocked.

**Pause of all policies** (`setDisableAll`, `checkRunPolicies` in `PolicyManager2.js`).
State: redis `policy:disableAll` (flag, start, length), one timeout, the jobs queued
by (un)enforceAll. Hard: the flag changes while jobs are queued; checks overlap;
crashes lose the timeout. Correct when: nothing outbound is installed in a pause; all
enabled rules are after it; a pause with an end ends.

**Rule installation and QoS** (`_enforce`, `_unenforce`, `control/Block.js`, `control/QoS.js`,
`sensor/RuleCheckSensor.js`, `control/BlockManager.js`).
State: members of shared and own ipsets, entries of chains, entries of dnsmasq's filter
files, the map of QoS handlers (policy <-> handler), traffic classes. Operations: put a rule
up and take it down, step by step and for each kind of rule; allocate and release a handler; the
check that loads all rules and enforces what is missing; the switch of `smart_block`. Hard: rules
with one target share a member; the map is read, awaited and written; the check works with
copies; recurring rules run beside the queue. Correct when: what a rule consists of goes with it;
no two rules have one mark; a rule that another has taken down comes back.

**Rule matching** (`checkACL` in `PolicyManager2.js`, the chains of
`control/install_iptables_setup.sh`). State: `sortedActiveRulesCache` of FireApi, redis, the
kernel, the events between them. Operations: create, delete, expire a rule; look a connection
up. Hard: the order of rules is written twice, as ranks in JavaScript and as chains in a shell script;
the cache is dropped only by the process that announces a change. Correct when: both decide the same.

**Domain blocking** (`control/DomainBlock.js`, `control/DomainUpdater.js`, `net2/DNSTool.js`).
State: addresses known (`rdns:domain:*`), mapped (`ipmapping:*`), in the ipset; the updater's
registration. Operations: block, unblock (policy queue), a DNS answer (`net2/BroDetect.js`). Hard:
answers arrive between the list that is read and the registration, and between two updates of one
address. Correct when: what is mapped is blocked; an address in use does not stay open.

**dnsmasq** (`extension/dnsmasq/dnsmasq.js`, `sensor/DNSMASQSensor.js`).
State: configuration files, the md5 in redis, the debounced restart, `workingInProgress`, failure
counts, redirect rules. Operations: edit and schedule a restart, compare, stop, restart, `start()`, the check of
every minute; the restarts of the DHCP service, which compare with the same md5 and on Gold restart another unit
(`platform/gold/GoldPlatform.js:44`). Hard: `clearTimeout` does not stop a callback that runs, so restarts overlap; the check
and `start()` change the redirect at once. Correct when: the service reads the last files in the end; a
dead DNS is not redirected to.

**VPN client** (`extension/vpnclient/`, `vpnClient` of `net2/HostManager.js`, `net2/PolicyManager.js`).
State: the policy in redis, in memory and as applied last (which may be one object),
the service, its link, listeners, routes, DNS redirect, strict mode. Operations: the app
turns it on or off, start, stop, give up after 30 s, the link is lost and comes back. Hard: the client writes the policy
that starts it; the result of a start is merged with a policy that has changed. Correct when: strict mode
follows the policy; a lost link leads to a new start.

**Modes and spoofing** (`net2/Mode.js`, `net2/ModeManager.js`, `net2/SpooferManager.js`).
State: the mode in redis, in the cache of FireApi and of FireMain, what is applied, `spoofStarted`, the instance
of the network and its file, a debounced reload, the bitbridge service. Operations: change (published once), apply, reapply, revert
to none after ten minutes without a complete boot, or at the next start of FireMain (`resetModeInInitStage` of `net2/main.js`), both on a box that has been paired only, register and deregister a network, reload, exit. Correct when: the mode in redis is
the one applied, and the service spoofs in the modes that do.

**Category lists** (`control/CategoryUpdater.js`, `control/CategoryUpdaterBase.js`).
State: lists in redis, `customizedCategories` with its marks, a set and a temporary set in the kernel,
`effectiveCategoryDomains`. Operations: remove a category, replace its elements (FireApi), the sweep, the rebuilding by an update and every hour, boot.
Hard: marks and temporary set are shared by overlapping calls. Correct when: a removed
category leaves nothing and the others stay; the set comes to hold the elements.

**Hosts** (`net2/HostManager.js`, `net2/Host.js`, `net2/MessageBus.js`) and
**discovery** (`hook/DeviceHook.js`, `net2/HostTool.js`).
State: redis `host:mac:*` and `host:ip4:*`; `hostsdb`, `hosts.all`, the `Host` objects and their subscriptions.
Operations: a sighting (new, moved, address of another, regular), `getHost`, the sweep of `getHosts`, deletion. Hard: commands that make or destroy what
a host has in the kernel may be rejected half way; sightings of
two devices write each other's records; the object that is listed, the one that is found and the one that
listens can differ. Correct when: they do not, and the records of a device agree with where it is.

### 1.3 Components not modelled

| Component | Why, or plan |
|---|---|
| exceptions (`alarm/ExceptionManager.js`) | planned; AlarmManager has exceptions as rules saved in one step |
| screen time, accounting (`extension/accounting`) | planned |
| ids, equal rules and bulk deletion of policies (`PolicyManager2.js:324`, `:473`, `:690`) | planned extension of PolicyManager |
| country lists, tags, networks, spoofing of single devices | the same patterns as categories and hosts, without a hazard of their own |
| flow detection and monitoring (`net2/BroDetect.js`, `monitor/`, `net2/Flow*`) | statistics over logs: thresholds on data, no shared state but counters |
| alarm kinds, intelligence, cloud | wording, scores, remote calls |
| sensors, app interface, web, command line, diagnostics | periodic reads, decoding, presentation |
| routing, WireGuard, VPN server, platforms, scripts, migration | commands to the system |
| vendored code and assets | |

`PROJECT.json` has the whole list with paths, and under `hazards` the places in this
code that are hard to test, each with the properties that cover it.

Most of the repository's ninety thousand lines are of the last rows: they read the
system, enrich records and print them. The models cover the part that keeps state shared
by several callers, which is where orders of steps matter.

## 2. Modules

| Module | What it is |
|---|---|
| `PolicyScheduler` | the scheduler and its callers |
| `PolicyManager` | the life of a policy across FireApi, FireMain and redis |
| `AccessCheck` | the verdict of the kernel and of `checkACL` |
| `DisableAll` | the pause of all policies |
| `RuleInstall` | what rules are made of, QoS handlers, the check that repairs |
| `DomainBlock` | addresses of a blocked domain |
| `AlarmManager` | creation and handling of alarms |
| `Dnsmasq` | configuration and restarts of the DNS service |
| `ConfigService` | the abstract service that `Dnsmasq` implements |
| `VpnClient` | the OpenVPN client and its policy |
| `ModeManager` | modes, spoofing and the bitbridge service |
| `CategoryUpdater` | custom lists and their sets |
| `HostManager` | hosts in memory |
| `DeviceHook` | records of devices and addresses |
| `MCPolicyManager`, `MCAlarmManager`, `MCDnsmasq` | a module for TLC: symmetry sets, instances, initial states, constraints |
| `MCRules` | `PolicyScheduler` or `RuleInstall` |
| `MCQueues` | `PolicyManager`, `AlarmManager` or `DomainBlock` |
| `MCDisableAll` | `DisableAll` or `VpnClient` |
| `MCAccessCheck` | `AccessCheck` or `VpnClient` |
| `MCServices` | `ModeManager` or `CategoryUpdater` |
| `MCDevices` | `HostManager` or `DeviceHook` |
| `RulesProofs` | theorems about PolicyScheduler and RuleInstall |
| `PolicyManagerProofs` | about PolicyManager and DomainBlock |
| `DisableAllProofs` | about DisableAll and VpnClient |
| `ServicesProofs` | about ModeManager and CategoryUpdater |
| `HostManagerProofs` | about HostManager and DeviceHook |
| `AccessCheckProofs`, `AlarmManagerProofs`, `DnsmasqProofs` | about the module they are named for |

`MCRules`, `MCQueues`, `MCDisableAll`, `MCAccessCheck`, `MCServices` and `MCDevices` put components that share no state into one run: a variable `component`, chosen
initially, says which of them moves, and the variables of the others keep their initial
value. A behaviour of such a run is one of one of its components, no more and no less; they
are side by side, not composed. A theorem about a component is about the specification of that component
(`Spec`, `Vpn!Spec`, `Cat!Spec`, `Domain!Spec`), or, for RuleInstall, about that of the run: `RulesSpec`.

A definition named `X_something` beside a definition `X` is a *variant*: the code
with a plausible mistake. No specification uses it; replacing `X` by it must
break a property, which shows that the property can fail.

### 2.1 How code becomes actions

* A process that has awaited is a record (`frame`, `proc`, `task`, `worker`, `call`, `recycle`, `sweep`, or
  `pc` and `event` of DeviceHook) with the point it is at (`pc`) and the values its closure holds: `snap` is the record
  `updatePolicyAsync` has read, `pol` the policy an event carries, `todo` a list that was loaded.
* One action per step: `Read` and `Write` are the two halves of `updatePolicyAsync`;
  `Check`, `RemoveRules` of `unenforce`; `Look` of the callback of an expiry; `Swap` and `FlushTemp` of
  `swapIpset`.
* A JavaScript timeout is a value of `Timers` or `Slots`, or a flag where one exists (`reloadTask`,
  `restartDNSTask`, `revert`); `clearTimeout` on one that has
  fired does nothing, which is the source of most of the hard interleavings.
* The queues hold jobs with the *copy* of the policy the event carried.
* `JobTimeout` lets the queue go on while the handler goes on too, as bee-queue does.
* A published event reaches the processes that listen when it is sent, and no other.
* Data is abstract: rules are installed or not, an alarm has a kind (two of one
  kind are duplicates), a policy has a version (PolicyScheduler) or a life
  (`plain`, `expiring`, `autodelete`, PolicyManager), files are numbers, a category holds
  an address and a domain.

### 2.2 Simplifications to know of

* PolicyManager: installing or removing the rules of a policy is one step (RuleInstall has the
  detail); recurring policies are in PolicyScheduler; whether an expiry is less than a minute away
  is a free choice, and so is when a timeout fires.
* AlarmManager: reading a list and the records it names is one step; saving a policy
  or an exception for an alarm is one step; the match of an alarm against them is by kind. A record
  expires when no process is at its alarm: a month is longer than any operation, but for one that
  the app begins in the last moment.
* DisableAll: time is counted in minutes; the first part of `unenforceAll` precedes
  the second read of the flag because redis answers one connection in order.
* RuleInstall: the number of handlers is a constant (the code has 126); protocols, directions and
  the order of entries within a chain are left out. Releasing a handler is one step; `deallocateQoSHandlerForPolicy`
  deletes the two halves of its map one after the other, which only a recurring rule of QoS, beside the queue, could come between.
* AccessCheck: every rule matches the connection. Whether a rule matches is decided by `checkACL` and by
  iptables each in its own way; the model compares which of the matching ones decides.
* Dnsmasq: one network; hosts files are written by one caller at a time, and reloads (`scheduleReloadDNSService`), which note
  an md5 of their own, are left out, and so is `start(true)`, by which `applyMode` restarts the service without touching the
  redirect: a `start()` of the model goes on to the redirect and does not fail there. `Fresh` says that a file does not return to an earlier content, `Slow` that reading
  may outlast the five seconds of the debounce.
* VpnClient: the profile is valid, the server pushes a DNS server.
* ModeManager: one network; manual spoofing registers none and is left out; that the boot completes is a step of the environment, and
  so is the first pairing; the reset of the boot flag by the app (`controllers/netbot.js:3143`) is left out.
* CategoryUpdater: one address and one domain with one address; the list of the domain's own
  addresses is DomainBlock. The commands by which a sweep forgets a category (`Forget`) are one step, and so are those by which the
  elements are flushed (`FlushElements`), though the code awaits between them: a rebuilding that reads the lists meanwhile sees
  them before or after. The guard `inited` of
  `updateIPSetByDomain` (`:502`) is left out; `blockDomain`, which has been called by then, fills the set all the same.
* HostManager and DeviceHook: IPv4; which of two records is the younger is a free choice.
  DeviceHook has the writes of discovery step by step; HostManager takes them as one (`Sight`). The identification of
  a device also writes its record (`net2/Host.js:1014`, which calls `:935`, and `:1085`), whole and as FireMain has it in memory. It is left out of
  DeviceHook; an old address it brings back is replaced at the next sighting, as one that a late handler has written is.
  In HostManager a command that is rejected is one of those that make the ipsets of a host, or of the first part of its
  deletion (`Fail`, at most `MaxFailures`).

## 3. Runs

`CHECK_DEADLOCK FALSE` is set everywhere because the operations of the app are finite
in each instance: when they are used up and all work is done, the system really stops.

| Run | Instance | Shows |
|---|---|---|
| `Rules` | scheduler: 1 policy, 2 versions, 2 activations at once, 1 reload, 4 jobs, 1 rejection. Installation: three boxes of 3 policies (sharing a target; 3 qos rules for 2 handlers; a recurring rule beside the queue), 3 operations, 1 round of the check; fair | one cron job per policy; an installed policy has an activation or a timeout that removes it; a policy stays scheduled; every activation ends; what a rule consists of goes with it; no two rules have one mark; a rule another one has taken down comes back |
| `Manager` | 1 policy that deletes itself when it expires and may be paused, 2 impatient clients, 2 calls of the queue's handler, 2 timeouts, 3 operations, 2 crashes, 1 job timeout (2 operations where one of these happens) | listed policies have records; no orphan timeout; a boot repairs what a crash interrupted |
| `ManagerExpiry` | 1 patient client, 4 operations | **finding** `DisabledMeansRevoked` |
| `AlarmSafety` | 1 kind, 2 alarms, 2 creations of which 1 may be beside the queue, new and used box, 2 operations of the app (`FewOnNewBox`: 1 on a new box), 1 record that expires and the sensor that cleans the lists (`FewExpire`) | one list; listed alarms can be loaded until they expire; handled alarms leave; no duplicates |
| `Queues` | alarms: new box, 2 creations, 1 operation. Policies: 4 operations of a patient app, 2 crashes. Domain: a name and a subdomain, 2 addresses, 1 line of DNS answers, 3 operations | the queue drains; kernel and records agree, rules of what is gone leave; mapped addresses are blocked, addresses in use are blocked in the end |
| `Pause` | 2 rules (1 inbound), 3 tasks, 2 timeouts, pauses of 2 minutes or without end, 2 operations, 1 crash. VPN: 2 calls at once, strict, 3 operations of a patient app, 1 lost link, 1 start that gives up | pause and kernel agree, a pause ends; strict mode follows the policy |
| `Verdict` | any 2 rules saved, 1 that may be created, 1 expiry, 2 operations. VPN: 2 calls at once, strict, 2 operations of a patient app, 1 lost link, 1 start that gives up; fair | the cache of `checkACL` is current, and its verdict that of the kernel; a lost link leads to a new start |
| `DisableAllSoon` | pauses of 1 minute, no crash | **finding** `NotPausedMeansInstalled` |
| `Dnsmasq` | one unit for DNS and DHCP: 1 writer of filters, 1 of hosts, 1 callback of each kind of restart at once, `Fresh`, not `Slow`, 2 changes and 1 crash, or 1 of them and 1 failure after a start; fair | the last files are loaded when all is quiet; a dead DNS is not redirected to; the service implements `ConfigService` |
| `DnsmasqGold` | a DHCP unit of its own, 2 changes, no failure and no crash | **finding** `FiltersLoaded` |
| `Services` | mode: spoof, dhcp and none, with or without the flags of boot and first binding, 2 tasks, 4 operations of a patient app, 1 exit. Categories: 2, one in use, 2 rebuildings at once, 2 operations of a patient app or 1 and a crash; fair | the mode in redis is applied; the service spoofs in spoof mode; a paired box that does not complete its boot leaves spoof mode; removed categories are cleared, and no other; sets catch up |
| `Devices` | 2 addresses. Hosts: 2 devices, 1 sweep at a time and 1 move, deletion or rejected command; or 1 device, 2 sweeps that overlap and 2 of these. Discovery: 2 devices, 2 sightings at once, 2 changes; fair | the listed object is the one that is found; a device that stays is listed again and again, and as the object that is told, unless a rejected command or an overlapping deletion has cost it that; records agree with where devices are |

### 3.1 Why the bounds are enough

* One policy of the scheduler in `Rules`, and one in `Manager`: the code of two policies shares no state but
  the queue, and another policy's jobs only delay. The proofs (section 4) have any
  number. Installation has three, because there policies share sets and handlers.
* Two clients, or a client and a timeout, are what it takes to put a write between
  the read and the write of `updatePolicyAsync`. Three operations allow to create
  a policy and to have two more operations race on it.
* Two handlers and one job timeout: the smallest instance in which calls of
  the queue's handler overlap. `FewOnFailure` is a constraint of that run: where a job times out or FireMain crashes, the app
  does two things at most, before and after. Two crashes: the second interrupts the repair of the first.
* Two activations: one that ends while another begins. Two versions: an update is told
  from what it replaces.
* Two alarms of one kind are needed for duplicates and for similar alarms, and two creations that look before either lists. `FirstIds` has 0, the
  new box, and 1. With 0 and two creators, two alarms may get one id (section 5.1).
  `AlarmSafety` has two creations, both in the queue or one of them beside it; any number of each is covered
  by the theorems, of those beside the queue after the first alarm.
* Pauses of 0 (without an end), 1 (ends at once) and 2 minutes (a timeout) are the
  three cases of `checkRunPolicies`.
* `Verdict` may create a rule of a group, which makes a rule that matches the group decide, or decide otherwise. It starts with any set of two rules the algorithm tells apart (level, effect, priority,
  group), so each pair of chains meets.
* `Dnsmasq` starts FireMain with one edit, a failure and a crash to come (`Starting`), or has it up with two edits and a crash but
  no failure (`Running`): an edit that a restart misses takes two, and a restart that fails one.
* Two writers of Dnsmasq's files, one of filters and one of hosts, and a callback of each kind of restart: one callback runs while the next, of its own
  or of the other kind, is due. `DnsmasqGold` needs no more than one change of each. `Fresh`, a file does not return to an earlier content, is also a hypothesis of the
  theorem about `LatestLoaded`: without it the property fails, on a longer path than these bounds allow (section 5.1). `asked` records that
  a check has begun while `start()` was at the redirect, which tells how long a minute is.
* One debounced reload (`Reloads = {r1}`) of the bitbridge service: two at once are among the behaviours
  of section 5.1. For the app that waits, one sweep over categories is at work at a time, although two may be: rebuildings of the sets do overlap.
* Sweeps of hosts overlap for one device: what two of them do to each other is done to a device. With two devices, one sweep, because there
  what matters is that they exchange their addresses.
* One record of an alarm that expires, with two operations and one alarm, or one operation and two alarms (`FewExpire`).
* Two sightings at once (`Handlers`) are the smallest number with which one writes what the other has read; one of a device at its
  old place, one at its new place or of the device that took the place.
* `Places` has the initial places of devices up to the names of devices and addresses.
* Symmetry is used in safety runs only, over values the specification does not
  distinguish.

The bounds are the constants `Max...`; each is a guard of the action it bounds.
In AlarmManager, alarms leave the window of duplicates (`Age`) only while a
creation may still look for them: later, nothing reads the window.

### 3.2 Conditions inside properties

* `Patient` says that the app does nothing new until what it asked for is done. `Settled`,
  `ModeIsApplied`, `RemovedIsCleared`, `CacheIsCurrent`, `VerdictAgrees`, `StrictFollowsState`
  and `Reconnects` are checked with such an app; with another one they may fail, in ways that section 5.1 tells. `Manager`, `AlarmSafety`, `Pause`, `Rules`,
  `Dnsmasq` and `Devices` have an app that does not wait.
* `Settled` speaks of no crash, since `RestartHeals` does. `RestartHeals` leaves out policies touched after the boot.
* `NotPausedMeansInstalled` is about operations that find earlier work done
  (`disturbed` records that one did not).
* `HandledLeaves` is about states with no operation under way; alarms blocked
  automatically stay listed on purpose.
* `OneList`, `ActiveIsLoadable` and `HandledLeaves` leave out a box that has had no alarm before (`firstId # 0`), see section 5.1.
* `UncheckedIsGone` is about the rules `RuleCheckSensor` leaves alone (`NeedsCheck`): those it does check can come back from the copy it holds.
* `ActiveIsLoadable` leaves out an alarm whose record has expired (`expired`): its id stays listed until `OldDataCleanSensor` finds it.
* `VerdictAgrees` leaves out two sets of rules for which ranks and chains differ (section 5.1): two groups matched at one level (`OneGroupPerLevel`), and
  a rule that matches a group with the action `block`, or none, beside a block rule of its level (`GroupsComeFirst`).
* `LatestLoaded` and `ServesLatest` are checked where one unit serves DNS and DHCP (`OneUnit`). `DnsmasqGold` shows what happens where two do.
* `RevertsToNone` is about a box that has been paired: `net2/main.js:171` takes one without the flag of the first binding for an old box, which
  neither reverts nor is reset. It asks for a mode that does not spoof, or a complete boot.
* `ListedIsTracked` asks of every device that stays that it is listed again and again; as the object that follows its events, of those that have met
  no rejected command and were not listed by a sweep during their deletion (`orphaned`).
* `RemovedIsCleared` is about times when FireMain has nothing to do and has not crashed.
* `CacheIsCurrent` leaves out a rule FireMain has ended (`ended`): FireApi's cache is not told of an expiry.

### 3.3 Fairness

Weak fairness of a process's next step: Node.js runs a callback that is due, and
redis answers. Weak fairness of taking the next job and of the job's timeout: the queue
does both (bee-queue's consumer and its 60 s). Weak fairness of the boot: the
watchdog restarts FireMain. Weak fairness of a timeout that is armed, since
time passes. Strong fairness of what recurs with a condition that comes and goes: a DNS answer for
each address in use (the device asks again when its ttl is over), the hourly refresh and the handling of
the update of a category, the check of rules (every ten minutes), the sighting of a device (nmap scans). Weak fairness of the
sweep of hosts (after each scan of the network, `net2/HostManager.js:160`), of dnsmasq's check (every minute) and of OpenVPN
getting its link again. There is no fairness for the app, for a cron tick, for a
crash, for a command that is rejected, for the first pairing or for the timeout of an expiry: nothing in the code makes them happen.

`ActivationEnds`, `QueueDrains`, `GoneIsRevoked`, `LearnedIsBlocked`, `ServesLatest`, `BackInForce`, `Reconnects`,
`RevertsToNone`, `SetCatchesUp`, `ListedIsTracked` and `RecordsSettle` are the temporal properties. Where two
components are in one run, one conjunct of fairness may stand for an action of each: only one
of the two is ever enabled in a behaviour, so nothing is gained but the number of conjuncts.

### 3.4 Refinement

`ConfigService` is what the rest of the box may rely on: there is a configuration that has been asked for and one that
is in service, a request changes the first at any time, and the second comes to be the first. `Dnsmasq` implements
it (`ServesLatest`), with the files and what the running service has read as the mapping; compared
md5s, overlapping callbacks of either service, failures and crashes are stutters. That initial states and steps map is proved
(`DnsmasqIsConfigService`); that the last change comes to be served is liveness, and checked by the run.

## 4. Proofs

Checked by TLAPS for all values of the constants that satisfy the assumptions
of the modules: that bounds are naturals, that identities of different kinds differ (`None` is none of them), and
that what the code lists in one go is finite. TLC evaluates the assumptions in the runs. What a theorem needs beyond that is a hypothesis in its statement, and is named
below with what happens without it.

**RulesProofs.** Of the scheduler, `TypeCorrect`, `CronJobsAreRegistered` (`OneCronJobPerPolicy`) and
`EnforcedIsRevocable` (`ActivationBounded`). The first two are proved together by
`TypeInv`: the types, `OneCronJobPerPolicy` (the table of cron jobs agrees with the
jobs that tick) and `Owned` (what is in flight belongs to a policy).
`ActivationBounded` is not inductive: a timeout that is recorded, or that a
`deregisterPolicy` under way remembers, must be one of the policy it is filed under,
or clearing it would take away the only thing that ends the activation of
another. `BoundedInv` adds `Handles`, which says that.
`AskedIsScheduled` (`ScheduledStaysScheduled`) is about moments when nobody is at work. `ScheduleHeld` is about all: the policy
has its cron job, or some caller has stopped it, waits for its unenforce and will register it again (`Returning`). That another
caller, which registers it meanwhile, does not lead to a state without either is what the proof shows.

Of rules as they are installed, `DisabledIsGone` (`UncheckedIsGone`) and `MarkSelectsItsClass` (`MarksAreOwned`), for any boxes of regular rules, any number of
handlers and of operations. Both follow from `InstallInv`:
* `Holds`, `PartsFit`: what a worker has in hand, and what is in sets, chains and filters, is of the rule it is filed under. This is where order matters: a worker goes
  through the calls and the things of a rule one after the other, and what it still has to do (`Coming`) is a part of `Ends`, what the rule is for;
* `HasTaken`: at each point of `_unenforce`, the filters are gone, then the set, and every entry in the chains that is left is of a thing still to come, or has been found and
  is about to be deleted;
* `MapFits`: the two halves of `policy_qos_handler_map` are inverse to each other, and a class is configured only for the rule that has its handler. `QosFits` says what the
  queue knows between reading the map and writing it, and `MarkFits` that an entry has the mark of its rule's handler, or has been found for deletion;
* `ToRevoke`: of a disabled rule, every job is followed by an unenforce, or is it, and a rule without one is gone, unless the worker is taking it down. For a recurring rule, whose
  cron job works beside the queue: if it is at rest, the rule is gone.

The hypothesis `Registered` says that every rule of a box is `Regular`, so that what installed it can be found again when it is removed: a rule that only adds to a shared set
has no ttl, one for a category does not depend on `smart_block` (`dnsmasq_only`), and one for QoS has one tag or device and no schedule. Each clause is needed: section 5.1 has the
counterexamples. The boxes of the run `Rules` are regular.

**PolicyManagerProofs.**
`TypeCorrect`, `ListedIsLoadable` (`ActiveHasRecord`) and `ArmedIsRecorded`
(`NoOrphanTimer`). The inductive invariant `IInv` adds to these:
* `Good`: at each point, a process has in its frame what its code uses there;
* `KnownJob`: jobs are about policies that have been created, and a reenforce
  carries an old policy (Reread must check the policy for this);
* `NewIsPrivate`: between `hmset` and `zadd` of a new policy, its client is the only one
  that knows its pid: no process, no job and no list has it. Without this,
  `AddToActive` could list a policy that somebody has deleted meanwhile.

The argument has two layers. `Result(p)` says what a step of the code of policy `p` does to
processes and timeouts (`ArmKeeps`, `UnenforceKeeps`, `EnforceKeeps`); `Kept(p)`
adds that only `p`'s record, listing and jobs change, and `KeptKeeps` shows once that
such a step keeps `IInv`. Each action but the creation of a policy, a crash and the boot
is then shown to be `Kept` for the policy it is about.

`RestartIsHealed` (`RestartHeals`) is about what is under way after a boot, and so needs to follow it. `HealInv` adds to `IInv`:
* `Base`: what processes hold what: a process without work is no policy's, a client is at a policy that has been touched, and neither installs nor removes rules
  (`ClientAt`);
* `Healing`: each untouched policy is in one of five phases. It is `Unloaded` (the kernel is flushed, and the boot has not read the list yet), `Ahead` (its
  one job is an enforcement with the record as it is), `AtWork` (a handler, and nobody else, is at it, at a point of `enforce` and with what the
  record calls for), `Waits` (its one timeout is armed and nobody else is at it) or `Done`.

`MovesHeal` shows that every step of the code of the policy itself leads from phase to phase, `OthersKeepPhase` that steps of other policies leave
the phase alone, and `AllInOrder` that the jobs `enforceAllPolicies` queues include every policy it has loaded.

`QuietIsSettled` (`Settled`) is about an app that waits, plain policies and no crash; the first two are hypotheses, the last a clause of the property. `SettleInv` adds `Orderly`
to `HealInv`: each policy is at a `Stage`. Either nothing is under way and kernel and redis agree, or exactly one place has the policy: one job, which brings the kernel to
what redis says (`JobFits`), a client at a point of its message (`AppAt`), or a handler with the rest of a job (`JobAt`). Redis is written before the message is sent, so
`AppAt` says what the kernel still lacks, and a `reenforce` that removes before it installs says it of the new policy.

`MappedAreBlocked` (`MappedIsBlocked`) is about DomainBlock. `JobCovers` says that the mapping is in the set, or in what answers have found new and have not blocked
yet (`Coming`), or in what the job has read and is about to add, unless the job is at a point where it will read it again or drops it;
`SavesItsOwn` that an answer saves no address that it does not block.

**AccessCheckProofs.**
* `VerdictsAgree` is about no behaviour: for every set of policies in which two match rules at one
  level match one group (`OneGroupPerLevel`) and no rule that matches a group with the action `block` shares its level with a block
  rule (`GroupsComeFirst`), the first of the sorted rules and the first chain that
  decides give the same verdict. It is split by where a rule is found: `RankOrder` and
  the lemmas before it say that rank and chain order rules alike.
* `CacheCorrect` (`CacheIsCurrent`) and `VerdictCorrect` (`VerdictAgrees`) hold with `Patient`, for any
  groups, rules and number of changes; the second under the two hypotheses on rules, which are in the property. The inductive invariant is in two parts. `RulesInv`, which needs no `Patient`, relates redis, the
  events under way and the kernel: with `Outbox` for the events and the one still to be sent, a rule is in the kernel if it is in redis
  and no enforcement of it is pending (`InKernel`), in redis if it is in the kernel and neither a removal nor the end of its expiry
  is (`InRedis`); `NotYet` and `NoMore` say what a pending event implies about redis, `InOrder` that of one rule the
  enforcement precedes the removal, `Known` that events are about rules that were created. `CacheInv` says that a cache, or a load that is to become one,
  holds the rules of redis and some that FireMain has ended (`Current`), unless the answer to a change, which drops it, is still to come.

**AlarmManagerProofs.**
`TypesAreKept`, `AlarmsAreInOneList` (`OneList`), `ActiveAlarmsAreLoadable` (`ActiveIsLoadable`) and `HandledAlarmsLeave` (`HandledLeaves`), with any
number of workers, operations and alarms. `IInv` adds to the types, for a box that has had an alarm before (`UsedInv`):
* `KnownIsOld`: what is listed, or named by a process, is an id that has been given;
* `NewIsPrivate`: an alarm that is being created is in no list and named by no other process, until it is listed;
* `RecordsFirst`: listed alarms have their record unless it has expired, and whoever deletes a record has unlisted it before;
* `HandledIsTaken`: a listed alarm with a result of the user has a process that will unlist it next.

None of them is inductive without the others: a list is sound because what is put into it is private, and that because ids grow.

`OneQueueMakesNoDuplicates` (`NoDuplicates`) is for one queue (`Queues = {q}`) whose creations end within the time of their job (`~Slow`); that no alarm is created beside the queue
is a clause of the property. It holds on a new box too. `AtWork` says that one creation at most is under way, the job that is current. `DupInv` says that there is an assignment of
kinds to ids that the records and all frames which have loaded one agree with (`Agree`), so that what an alarm is about outlives the deletion of its record, and that
under it no two alarms listed in the window are of one kind, nor is one of the kind a creation that has found no duplicate is about to list (`Distinct`). With `Slow`, or
two queues, two creations look before either lists, and both list.

**HostManagerProofs.**
`HostTypes` and `ListedAreFound` (`ListedIsFound`), proved together: the objects a sweep makes are of the type only because `MadeOnce`
bounds them by the deletions, through any number of overlapping sweeps. Rejected commands are in both: one that ends a deletion half way leaves the object in the table, so that no new one is made. `DeviceTypes` (`TypesOK`) adds the types of DeviceHook, with `Sighted`: a handler at
work has a sighting of a device at an address, so what it writes into a record is one.

**DnsmasqProofs.**
* `LatestIsLoaded` (`LatestLoaded`) under `Fresh` and `OneUnit`: with a DHCP unit of its own `DnsmasqGold` refutes the like. `StaleIsCovered`: if the running service has not read the files as they are, a restart is asked for or
  about to be, or a callback reads the files as they are or has found a difference. `NotedIsRestarting`: if the md5 that was noted is nevertheless that of the files,
  such a callback is about to restart the service. The two fail without `Fresh`, which `OnlyOldContents` turns into: what was noted, read or loaded earlier
  is no content of tomorrow.
* `DeadAreBypassed` (`DeadIsBypassed`) under `~Slow`. `CountsOnce`: while `start()` is between forgetting the
  count and setting the redirect, the check can count one failure at most, so the count is not at its maximum when the redirect comes back. With `Slow` the property is false (section 5.1), so the hypothesis is the real one.
* `DnsmasqTypes`, and `DnsmasqIsConfigService`, the safety part of the refinement.

**DisableAllProofs.**
`PausesRemove` (`PausedMeansRemoved`), `PausesEnd` (`PauseHasEnd`) and `PausesRestore` (`NotPausedMeansInstalled`). Jobs of the queue may contradict each other,
so the proofs look at where a rule *settles* (`Settles`): on an action if, after the last job that does it, none does the opposite, or if the kernel
is so already and no job says otherwise. Then
* `EndIsComing`: of a pause with an end, the check that arms the timeout is still to come, or a task is ending the pause, or the timeout is armed for its end: the checks that
  clear each other's timeouts always leave one of these behind;
* `DisabledFades`: a rule that is disabled, and announced, settles on its removal. This is what makes the second half of the next hold for rules that an `unenforceAll` no
  longer lists;
* `PausedFades`: in a pause, a rule that is in the kernel or about to enter it has a removal before it, or a check or load that will queue one. `enforce` does not look at
  the flag again after its check, which is why the worker's job counts as entering;
* `EnabledRises`: outside a pause, a rule that is enabled settles on that, or a check, a load or a due timeout will load it. It holds as long as operations find earlier work done
  (`~disturbed`), and then `Calm` does: one check at most, at the moment the flag was turned on, and one timeout at most, which is that of the pause. `Calm`, and so
  `PausesRestore`, needs that no pause is of one minute (`1 \notin Expiries`): such a pause is ended before its flag is off, and nothing comes back
  (`DisableAllSoon`). Lengths 0 and from 2 on are covered.

`StrictIsWanted` (`StrictFollowsState`) and `NothingIsLeft` are about VpnClient with an app that waits (`MCDisableAll` has no other; what happens with one that does not is in section 5.1). `ClientInv` is one invariant for both:
* `Agreed`: every copy of the policy (in redis, in memory, in the closures of listeners and of calls about to write the result of a start) says what the app wants, but for the
  moments in which the policy has changed and has not been executed (`Asked`);
* `Held`: of a client that is wanted, a start under way will set strict mode, or it is set;
* `Leaves`: of one that is not, each of route, redirection, strict mode and service is there only while a stop that takes it away is.

**ServicesProofs.** Both parts are about an app that waits (`Patient`).
* `ModeFollows` (`ModeIsApplied`): `Control` says that one task at most is under way, that nothing is spoofed until its last step, and that when none is, FireMain has applied the mode
  it has taken, or a message tells it the one of redis. Crashes, boots and the reset a boot begins with are in it.
* `ServiceFollows` (`ServiceFollowsMode`), with one timeout of a reload: `Files` says that a spoofed network has its file or a write of it to come, and is served or has a reload
  to come; `Exact`, which a crash breaks, that what is served is spoofed or will be reloaded. With two reloads at once the property is false (section 5.1), so the hypothesis is the real one.
* `RemovedLeavesNothing` (`RemovedIsCleared`), for any number of sweeps and rebuildings, of which `Follows` shows that one sweep at most is at work: FireMain knows of each
  category, step by step of that sweep, what `Knows` says. A removed category that has elements is always known, and hence flushed; and only a category that is removed is, because the marks are those of the one sweep. The clause about crashes is the property's own.

**Only model-checked:** every liveness property (`ActivationEnds`, `BackInForce`, `QueueDrains`, `GoneIsRevoked`, `LearnedIsBlocked`, `Reconnects`, `RevertsToNone`, `SetCatchesUp`,
`ListedIsTracked`, `RecordsSettle` and the live part of `ServesLatest`), since fairness and ENABLED are beyond the prover. Every invariant the passing runs check is stated by a theorem. TypeOK of
the other modules is in their proofs, and is left out of the runs where other invariants fail with it.

## 5. Where the code disagrees with its comments

Each of these is a run that TLC must find violated.

* `DisabledMeansRevoked` (`alarm/PolicyManager2.js:970`, `:1018`): the callback of an expiry
  checks that the policy is enabled, awaits `unenforce`, and disables it; a
  reenforce in between has installed its rules again and they stay.
* `NotPausedMeansInstalled` (`alarm/PolicyManager2.js:1961`): a pause with a minute or less to
  go ends at once, but its enforcement is skipped because the flag is still on.
* `FiltersLoaded` (`extension/dnsmasq/dnsmasq.js:1477`, "use restart to ensure the latest configuration is loaded"): on Gold the callback of
  `scheduleRestartDHCPService` (`:290`) compares with, and notes, the md5 of all configuration files, and restarts `firerouter_dhcp` only. If a policy has just
  written its filters, the callback that was to restart the DNS service finds no change, and the filters are not loaded until something else changes.

### 5.1 Behaviours met while modelling

The following are in the models too. Each can be seen by checking the named definition, or the named parameter, in a
run of its own.

* *Scheduler.* `LastJobWins` (`alarm/PolicyManager2.js:266`, enforcement is to be serialized): the reload
  after a change of timezone is not in the queue, and registers again a policy that
  the queue has unenforced while the reload awaited.
* *Rules.* `RevokedIsGone`: `RuleCheckSensor` (`:238`) enforces from the copy it loaded, also a rule that has been
  disabled since. `MarksAreOwned` fails with `Boxes = TimedQos` (a recurring qos rule runs beside the queue: two allocations read the
  map at once) and with `TwoTags` (the second tag of a rule takes a second handler and the first stays). With
  `Ttl`, `UncheckedIsGone` fails without the check: `_enforce` (`:1255`) and `_unenforce` (`:1539`) do not decide alike whether a rule has a set with a ttl. A rule for a
  category with `dnsmasq_only` refers to the static set or to the whole one, by `smart_block` as it is when the rule is installed (`:1315`) and when it is removed (`:1590`): if
  it is switched in between, the removal looks for the other one and the entry stays.
* *Matching.* With two groups matched at one level, `checkACL` and the chains may differ (`OneGroupPerLevel`). So they may for a rule that matches a group and
  whose action is `block`, the default (`alarm/Policy.js:93`): `checkACL` (`alarm/PolicyManager2.js:2268-2273`, "a trick that makes match_group rule be checked after
  allow rule and before block rule") adds 1 for the block and a half for the group and checks it after the block rules of its level, while `_enforce` (`:1360`) gives
  it the chains of a group, which allow before they block. If a rule of the group allows and another rule of the level blocks, the app is told "block" and the
  connection passes (`GroupsComeFirst`). `Patient = FALSE` breaks
  `CacheIsCurrent`: rules loaded before a change are kept after it, and `sortedActiveRulesCache` may be set to null in the
  middle of the loop that walks through it (`:2343`). An expiry, which FireMain handles, never drops FireApi's cache.
* *Domains.* `UnblockedIsOpen`: a DNS answer that an update is working on while the domain is unblocked leaves an address in the set.
* *Alarms.* `getNextID` gets the id and sets it if there is none, so the first two alarms of a box that are saved at once get one id: the
  second record replaces the first, and when one of the two is deleted or handled, the other one's listing has no record, or is put back. The
  clause `firstId # 0` of `OneList`, `ActiveIsLoadable` and `HandledLeaves` leaves that out. The record of an alarm expires a month after it was saved (`alarm/AlarmManager2.js:302`),
  its id stays in the list, and operations on it do nothing, until `cleanAlarmIndex` (`sensor/OldDataCleanSensor.js:338`) finds it.
* *dnsmasq.* `LatestLoaded` without `Fresh` (4 changes, 1 writer, 2 restarts): `checkConfsChange` (`extension/dnsmasq/dnsmasq.js:1477`) notes the md5 it has
  computed before the restart reads the files. If they are changed in between and back after it, the next comparison finds the md5 it
  knows and does not restart, and the service goes on with the content in the middle until the next change.
* *dnsmasq.* `LiveIsRedirected`: `start()` flushes, and the check of every minute removes the redirect of a network that it has just added. With
  `Slow` (a change of the redirect may outlast the minute between two checks), `start()` and the check overlap in the other order too, and
  `DeadIsBypassed` fails.
* *VPN.* `AppDecides` and `StoppedLeavesNothing` with `Patient = FALSE`: the result of a start is merged with a policy that has been
  changed, and a stop is undone or half done.
* *Modes.* A box without the flag of the first binding never reverts to none (`net2/ModeManager.js:52`, `:62`). `ModeIsApplied` with `Patient = FALSE`: two changes are applied at once and each uses the mode it has read; spoofing stays on in
  mode none, or a revert after ten minutes overrules a change made in its last step. An exit between the removal of a network and its reload leaves the
  service running. Two reloads at once (`Reloads` of two) break `ServiceFollowsMode`: one has seen that the box spoofs and is about to restart the service when the mode
  changes; the next stops the service and ends, and then the first starts it.
* *Categories.* `ClearedWasRemoved` with `Patient = FALSE`: a sweep that overlaps another one clears a category that exists. Two rebuildings share the
  temporary set, and one can swap in what the other has just flushed; the next refresh repairs it (`SetCatchesUp`).
* *Hosts.* `OldAddressIsDropped`: `net2/HostManager.js:1343-1345` removes the entry of the old address of a host that has moved only if the entry of its *new* address is
  this host's already; at the first sweep after a move it is not, so the old entry stays. A device that is listed while it is being deleted (`SweepHost` before `DeleteInstance`)
  is listed as the object that has unsubscribed and is out of the table of instances, and stays so: nothing makes another one while it is listed. The same
  comes of a command that is rejected, when the ipsets of a host are made (`net2/Host.js:108`, the error is logged and the object never subscribes) or in the first part of its deletion
  (`:744-749`, the handler ends after it has unsubscribed). `ListedIsTracked` has these in `orphaned`.
* *Discovery.* The takeover of an address by a new device does not remove the address from the record of the device that had it
  (`removeDup` is called for a changed device only); overlapping sightings of a device announce it twice, and a restart between the record and
  its announcement never does.

## 6. Plan

Modelled first is what the box is for: the rules in force, then what is built on them, then the services the rules reach
the network by. Done, in this order: PolicyScheduler, PolicyManager, AlarmManager, DisableAll, RuleInstall, AccessCheck, DomainBlock,
Dnsmasq, VpnClient, ModeManager, CategoryUpdater, HostManager, DeviceHook.

Next:
1. `ExceptionManager`: `getNextID` (`:158`) returns the value it read before the increment; `deleteExceptions` (`:337`) removes records and
   queue in two steps.
2. `ScreenTime`: the periodic check against rules it has created, and a policy deleted during it (`screentime.js:113`).
3. PolicyManager with ids (`:332`), equal rules (`:479`) and deletion by device (`:702`).

Composition: `PolicyManager` with `PolicyScheduler`, the queue's jobs of recurring
policies being the scheduler's callers.

Abstract specification: `RuleStore`, one variable (the policies in force) changed
atomically by each operation of the app; PolicyManager with patient clients implements it
with the kernel as refinement mapping at settled states. For AlarmManager:
`AlarmBox`, where each alarm is new, open, archived or gone.

Theorems to prove: the invariants of these. Of the models there are, what is left is the converse of `UncheckedIsGone`, that a rule which is enabled and settled has all its parts;
the code repairs it only for the rules `RuleCheckSensor` checks, and `BackInForce` is what is checked of it.

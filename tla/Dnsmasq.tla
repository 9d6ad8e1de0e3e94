------------------------------- MODULE Dnsmasq -------------------------------
(* The DNS service of src/extension/dnsmasq/dnsmasq.js. FireMain writes its   *)
(* configuration files and restarts it after 5 s without another request, if  *)
(* the md5 of the files differs from the one it noted at the previous         *)
(* restart. A check every minute restarts it when it does not resolve, and    *)
(* takes the rules that redirect clients to it out after three failures. The  *)
(* restarts of the DHCP service compare with, and note, the same md5: it is   *)
(* the same service, except on Gold (GoldPlatform.js:44-58).                  *)
(* Contents of the files are numbers; every await is a step boundary.         *)
EXTENDS Naturals

CONSTANTS Writers,     \* concurrent enforcements that edit filter files
          Restarts,    \* callbacks of restartDNSTask that may overlap
          DhcpRestarts, \* callbacks of restartDHCPTask
          OneUnit,     \* TRUE: DHCP_SERVICE_NAME is SERVICE_NAME
          None,        \* no md5, service stopped, count undefined
          Fresh,       \* TRUE: a file never returns to an earlier content
          Slow,        \* TRUE: reading the files may last longer than 5 s, and changing
                       \* the redirect longer than a minute
          MaxChanges,  \* bound on edits of files
          MaxFailures, \* bound on failed restarts and lost DNS answers
          MaxCrashes   \* bound on crashes of FireMain

ASSUME BoundsAssumption == {MaxChanges, MaxFailures, MaxCrashes} \subseteq Nat
ASSUME ChoiceAssumption == {Fresh, Slow, OneUnit} \subseteq BOOLEAN
ASSUME CallbacksAssumption == Restarts \cap DhcpRestarts = {}
ASSUME NoneAssumption == None \notin Nat

VARIABLES conf,          \* the files: "filter" (policies) and "rest" (resolv.conf, hosts)
          changes,       \* edits so far
          md5,           \* dnsmasq:conf in redis: the files when they were last compared
          loaded,        \* the files the running service has read
          restartDNSTask,\* the armed timeout: "off", "check" the md5 or "force"
          task,          \* callbacks of that timeout and the next one
          restartDHCPTask, \* the same for the DHCP service
          hosts,         \* "schedule" if a restart of the DHCP service is to be asked for
          writer,        \* where each writer is
          workingInProgress, \* the flag writers of filter files wait for
          start,         \* where start() is
          check,         \* where dnsStatusCheck() is
          failCount,     \* networkFailCountMap of the network
          redirect,      \* the rules that redirect DNS of the network are installed
          asked,         \* a check has begun while start() was at the redirect
          failures, crashes

confVars == <<conf, changes, md5, loaded>>
netVars == <<check, failCount, redirect, asked>>
dhcpVars == <<restartDHCPTask, hosts>>
vars == <<confVars, restartDNSTask, dhcpVars, task, writer, workingInProgress, start, netVars,
          failures, crashes>>

Paths == {"filter", "rest"}
Numbers == 0..MaxChanges + 1
Files == [Paths -> Numbers]
ASSUME FilesAssumption == None \notin Files
Callbacks == Restarts \cup DhcpRestarts
Off == [at |-> "idle", seen |-> None]
\* More than two failures take the redirect out; the count is cut at three.
MaxCount == 3

\* On Gold a sensor asks for a restart of the DHCP service when FireMain starts.
HostsAtStart == IF OneUnit THEN "idle" ELSE "schedule"

\* FireMain starts, or it has been up for a while and the service has what is
\* written. Of the edits, failures and crashes of the bounds some may be over.
Init == /\ conf = [p \in Paths |-> 0] /\ changes \in 0..MaxChanges
        /\ md5 = None /\ loaded \in {conf, None}
        /\ restartDNSTask = "off" /\ restartDHCPTask = "off"
        /\ task = [c \in Callbacks |-> Off]
        /\ writer = [w \in Writers |-> "idle"]
        /\ workingInProgress = FALSE
        /\ check = "idle"
        /\ asked = FALSE
        /\ failures \in 0..MaxFailures /\ crashes \in 0..MaxCrashes
        /\ \/ /\ start = "resolv" /\ hosts = HostsAtStart
              /\ failCount = None /\ redirect \in BOOLEAN
           \/ /\ start = "idle" /\ hosts = "idle" /\ failCount = 0 /\ redirect = TRUE /\ loaded = conf
-----------------------------------------------------------------------------
NewContents == IF Fresh THEN {changes + 1} ELSE {0, 1}

\* p gets a new content, or is left as it is once the bound is reached.
Edit(p) == \/ /\ changes < MaxChanges
              /\ changes' = changes + 1
              /\ \E x \in NewContents : conf' = [conf EXCEPT ![p] = x]
           \/ /\ changes = MaxChanges
              /\ UNCHANGED <<conf, changes>>

\* scheduleRestartDNSService clears the timeout that is armed, whatever its sort.
Request_once(kind) == restartDNSTask' = IF restartDNSTask = "off" THEN "check" ELSE restartDNSTask
Request(kind) == restartDNSTask' = kind

(* addPolicyFilterEntry, removePolicyFilterEntry: wait for the flag, write    *)
(* the file, then the caller asks for a restart.                              *)
MayWork_always == TRUE
MayWork == ~workingInProgress

WriterLock(w) ==
    /\ writer[w] = "idle" /\ changes < MaxChanges
    /\ MayWork
    /\ workingInProgress' = TRUE
    /\ writer' = [writer EXCEPT ![w] = "write"]
    /\ UNCHANGED <<dhcpVars, confVars, restartDNSTask, task, start, netVars, failures,
                   crashes>>

WriterWrite(w) ==
    /\ writer[w] = "write"
    /\ Edit("filter")
    /\ workingInProgress' = FALSE
    /\ writer' = [writer EXCEPT ![w] = "schedule"]
    /\ UNCHANGED <<dhcpVars, md5, loaded, restartDNSTask, task, start, netVars, failures,
                   crashes>>

WriterSchedule(w) ==
    /\ writer[w] = "schedule"
    /\ Request("check")
    /\ writer' = [writer EXCEPT ![w] = "idle"]
    /\ UNCHANGED <<dhcpVars, confVars, task, workingInProgress, start, netVars, failures,
                   crashes>>
-----------------------------------------------------------------------------
(* onDHCPReservationChanged and onSpoofChanged: after 5 s the hosts file is    *)
(* written, then a restart of the DHCP service is asked for.                  *)
HostsWrite ==
    /\ hosts = "idle" /\ changes < MaxChanges
    /\ Edit("rest")
    /\ hosts' = "schedule"
    /\ UNCHANGED <<md5, loaded, restartDNSTask, restartDHCPTask, task, writer,
                   workingInProgress, start, netVars, failures, crashes>>

HostsSchedule ==
    /\ hosts = "schedule"
    /\ hosts' = "idle" /\ restartDHCPTask' = "check"
    /\ UNCHANGED <<confVars, restartDNSTask, task, writer, workingInProgress, start, netVars,
                   failures, crashes>>
-----------------------------------------------------------------------------
(* The callbacks of restartDNSTask and restartDHCPTask. Unless Slow, the files*)
(* are read before the 5 s of another timeout of the kind are over.           *)
Checking(c) == task[c].at \in {"read", "rest", "compare"}
Begin(c, kind) == /\ task[c].at = "idle"
                  /\ task' = [task EXCEPT ![c].at = IF kind = "force" THEN "stop" ELSE "read"]

Fire(c) ==
    /\ restartDNSTask # "off"
    /\ Slow \/ \A d \in Restarts : ~Checking(d)
    /\ Begin(c, restartDNSTask)
    /\ restartDNSTask' = "off"
    /\ UNCHANGED <<dhcpVars, confVars, writer, workingInProgress, start, netVars, failures,
                   crashes>>

FireDhcp(c) ==
    /\ restartDHCPTask # "off"
    /\ Slow \/ \A d \in DhcpRestarts : ~Checking(d)
    /\ Begin(c, restartDHCPTask)
    /\ restartDHCPTask' = "off"
    /\ UNCHANGED <<hosts, confVars, restartDNSTask, writer, workingInProgress, start,
                   netVars, failures, crashes>>

\* checkConfsChange reads one directory or file after the other...
Read(c) ==
    /\ task[c].at \in {"read", "rest"}
    /\ task' = [task EXCEPT ![c] =
         IF @.at = "read" THEN [at |-> "rest", seen |-> conf]
         ELSE [at |-> "compare", seen |-> [@.seen EXCEPT !["rest"] = conf["rest"]]]]
    /\ UNCHANGED <<dhcpVars, confVars, restartDNSTask, writer, workingInProgress, start,
                   netVars, failures, crashes>>

\* ... and notes the md5 when it is another one. An error counts as a change.
Changed_filtersOnly(seen) == md5 # [seen EXCEPT !["rest"] = IF md5 = None THEN 0 ELSE md5["rest"]]
Changed(seen) == seen # md5

Compare(c) ==
    /\ task[c].at = "compare"
    /\ \/ /\ ~Changed(task[c].seen)
          /\ task' = [task EXCEPT ![c] = Off]
          /\ UNCHANGED <<md5, failures>>
       \/ /\ Changed(task[c].seen)
          /\ md5' = task[c].seen
          /\ task' = [task EXCEPT ![c] = [at |-> "stop", seen |-> None]]
          /\ UNCHANGED failures
       \/ /\ failures < MaxFailures /\ failures' = failures + 1
          /\ task' = [task EXCEPT ![c] = [at |-> "stop", seen |-> None]]
          /\ UNCHANGED md5
    /\ UNCHANGED <<dhcpVars, conf, changes, loaded, restartDNSTask, writer,
                   workingInProgress, start, netVars, crashes>>

\* The callback restarts the unit that serves DNS.
RestartsDns(c) == OneUnit \/ c \in Restarts

StopService(c) ==
    /\ task[c].at = "stop"
    /\ loaded' = IF RestartsDns(c) THEN None ELSE loaded
    /\ task' = [task EXCEPT ![c].at = "restart"]
    /\ UNCHANGED <<dhcpVars, conf, changes, md5, restartDNSTask, writer, workingInProgress,
                   start, netVars, failures, crashes>>

\* systemctl restart; its failure is logged and nothing else.
RestartService(c) ==
    /\ task[c].at = "restart"
    /\ task' = [task EXCEPT ![c] = Off]
    /\ IF RestartsDns(c)
       THEN \/ loaded' = conf /\ UNCHANGED failures
            \/ failures < MaxFailures /\ failures' = failures + 1 /\ loaded' = None
       ELSE UNCHANGED <<loaded, failures>>
    /\ UNCHANGED <<dhcpVars, conf, changes, md5, restartDNSTask, writer, workingInProgress,
                   start, netVars, crashes>>
-----------------------------------------------------------------------------
(* start(), which Mode:Applied and changes of the network call: resolv.conf,  *)
(* start script and hosts file, restart without comparing, redirect rules.    *)
StartAgain ==
    /\ start = "idle" /\ changes < MaxChanges
    /\ loaded # None
    /\ start' = "resolv"
    /\ UNCHANGED <<dhcpVars, confVars, restartDNSTask, task, writer, workingInProgress,
                   netVars, failures, crashes>>

StartConfig ==
    /\ \/ start = "resolv" /\ Request("check") /\ start' = "raw" /\ UNCHANGED restartDHCPTask
       \/ /\ start = "raw" /\ Request("force") /\ start' = "flush"
          /\ restartDHCPTask' = IF OneUnit THEN restartDHCPTask ELSE "force"
    /\ Edit("rest")
    /\ UNCHANGED <<md5, loaded, hosts, task, writer, workingInProgress, netVars, failures,
                   crashes>>

\* _remove_all_iptables_rules flushes the chain, then forgets the counts;
\* _add_iptables_rules adds the rules, then sets the count.
StartRedirect ==
    /\ \/ start = "flush" /\ redirect' = FALSE /\ start' = "forget" /\ UNCHANGED failCount
       \/ start = "forget" /\ failCount' = None /\ start' = "add" /\ UNCHANGED redirect
       \/ start = "add" /\ redirect' = TRUE /\ start' = "count" /\ UNCHANGED failCount
       \/ start = "count" /\ failCount' = 0 /\ start' = "idle" /\ UNCHANGED redirect
    /\ asked' = (asked /\ start' # "idle")
    /\ UNCHANGED <<dhcpVars, confVars, restartDNSTask, task, writer, workingInProgress,
                   check, failures, crashes>>
-----------------------------------------------------------------------------
(* dnsStatusCheck: asks the service, then counts, then changes the rules.     *)
\* The answer may be lost though the service runs. Unless Slow, start() gets the
\* redirect done within the minute between two checks.
Redirecting == start \in {"forget", "add", "count"}
CheckVerify ==
    /\ check = "idle"
    /\ Slow \/ ~asked
    /\ asked' = Redirecting
    /\ \/ check' = (IF loaded # None THEN "resolved" ELSE "failed") /\ UNCHANGED failures
       \/ /\ loaded # None /\ failures < MaxFailures
          /\ check' = "failed" /\ failures' = failures + 1
    /\ UNCHANGED <<dhcpVars, confVars, restartDNSTask, task, writer, workingInProgress,
                   start, failCount, redirect, crashes>>

NextCount == IF failCount < MaxCount THEN failCount + 1 ELSE MaxCount
Unreachable_later(n) == n > 3
Unreachable(n) == n > 2

CheckCount ==
    /\ check \in {"resolved", "failed"}
    /\ \/ /\ failCount = None
          /\ check' = "idle"
          /\ UNCHANGED <<failCount, restartDNSTask>>
       \/ /\ failCount # None /\ check = "resolved"
          /\ check' = IF Unreachable(failCount) THEN "restore" ELSE "idle"
          /\ failCount' = IF Unreachable(failCount) THEN failCount ELSE 0
          /\ UNCHANGED restartDNSTask
       \/ /\ failCount # None /\ check = "failed"
          /\ failCount' = NextCount
          /\ check' = IF Unreachable(NextCount) THEN "remove" ELSE "idle"
          /\ IF Unreachable(NextCount) THEN UNCHANGED restartDNSTask ELSE Request("force")
    /\ UNCHANGED <<dhcpVars, confVars, task, writer, workingInProgress, start, redirect,
                   asked, failures, crashes>>

CheckRedirect ==
    /\ \/ /\ check = "restore"
          /\ redirect' = TRUE /\ failCount' = 0
          /\ UNCHANGED restartDNSTask
       \/ /\ check = "remove"
          /\ redirect' = FALSE
          /\ Request("force")
          /\ UNCHANGED failCount
    /\ check' = "idle"
    /\ UNCHANGED <<dhcpVars, confVars, task, writer, workingInProgress, start, asked,
                   failures, crashes>>
-----------------------------------------------------------------------------
(* FireMain stops and starts again. The service is not its child and goes on. *)
(* The boot removes the filter files and the md5 (cleanUpLeftoverConfig) and  *)
(* calls start().                                                             *)
Crash ==
    /\ crashes < MaxCrashes /\ changes < MaxChanges
    /\ crashes' = crashes + 1
    /\ Edit("filter")
    /\ md5' = None
    /\ restartDNSTask' = "off" /\ restartDHCPTask' = "off" /\ hosts' = HostsAtStart
    /\ task' = [c \in Callbacks |-> Off]
    /\ writer' = [w \in Writers |-> "idle"]
    /\ workingInProgress' = FALSE
    /\ start' = "resolv"
    /\ check' = "idle" /\ failCount' = None /\ asked' = FALSE
    /\ UNCHANGED <<loaded, redirect, failures>>

WriterStep(w) == WriterLock(w) \/ WriterWrite(w) \/ WriterSchedule(w)
TaskStep(c) == Read(c) \/ Compare(c) \/ StopService(c) \/ RestartService(c)
StartStep == StartConfig \/ StartRedirect
CheckStep == CheckVerify \/ CheckCount \/ CheckRedirect

Next == \/ \E w \in Writers : WriterStep(w)
        \/ HostsWrite \/ HostsSchedule
        \/ \E c \in Restarts : Fire(c)
        \/ \E c \in DhcpRestarts : FireDhcp(c)
        \/ \E c \in Callbacks : TaskStep(c)
        \/ StartAgain \/ StartStep \/ CheckStep
        \/ Crash

Spec == Init /\ [][Next]_vars

\* Timeouts expire, commands and reads end, the check runs every minute. Nobody
\* has to edit a file, so a writer is fair only once it has begun.
Fairness == /\ \A w \in Writers : WF_vars(WriterWrite(w) \/ WriterSchedule(w))
            /\ WF_vars(HostsSchedule)
            /\ \A c \in Restarts : WF_vars(Fire(c))
            /\ \A c \in DhcpRestarts : WF_vars(FireDhcp(c))
            /\ \A c \in Callbacks : WF_vars(TaskStep(c))
            /\ WF_vars(StartStep) /\ WF_vars(CheckStep)

FairSpec == Spec /\ Fairness
-----------------------------------------------------------------------------
(* Every variable has its type, and the flag workingInProgress is held by one *)
(* writer, the one that is about to write its file.                           *)
TypeOK ==
    /\ conf \in Files /\ md5 \in Files \cup {None} /\ loaded \in Files \cup {None}
    /\ restartDNSTask \in {"off", "check", "force"}
    /\ restartDHCPTask \in {"off", "check", "force"} /\ hosts \in {"idle", "schedule"}
    /\ \A c \in Callbacks :
         /\ task[c].at \in {"idle", "read", "rest", "compare", "stop", "restart"}
         /\ task[c].seen \in Files \cup {None}
    /\ start \in {"idle", "resolv", "raw", "flush", "forget", "add", "count"}
    /\ check \in {"idle", "resolved", "failed", "restore", "remove"}
    /\ failCount \in 0..MaxCount \cup {None} /\ redirect \in BOOLEAN /\ asked \in BOOLEAN
    /\ \A w \in Writers : writer[w] \in {"idle", "write", "schedule"}
    /\ \A w, x \in Writers : writer[w] = "write" /\ writer[x] = "write" => w = x
    /\ workingInProgress = (\E w \in Writers : writer[w] = "write")

(* Whatever changes, restarts, failures and checks overlap, the service reads *)
(* the last configuration in the end: dnsmasq.js:1477 "use restart to ensure  *)
(* the latest configuration is loaded". The service is one that ConfigService *)
(* specifies.                                                                 *)
Service == INSTANCE ConfigService WITH Contents <- Files, wanted <- conf, served <- loaded
ServesLatest == Service!Spec

(* When nobody is writing, restarting or about to, a running service has read *)
(* the files as they are (dnsmasq.js:1477, as above). It does where the DHCP  *)
(* service is the same unit: the md5 a restart for DHCP notes is then that of *)
(* files the service has read.                                                *)
Quiet == /\ restartDNSTask = "off" /\ restartDHCPTask = "off"
         /\ hosts = "idle" /\ start = "idle"
         /\ \A c \in Callbacks : task[c].at = "idle"
         /\ \A w \in Writers : writer[w] = "idle"
LatestLoaded == Quiet /\ loaded # None => loaded = conf

(* Of that, what both units must keep: the service has read the filters, and  *)
(* blocks the domains of the rules that are in force.                         *)
FiltersLoaded == Quiet /\ loaded # None => loaded["filter"] = conf["filter"]

(* A network whose DNS failed three times has no redirect to it while its     *)
(* count stays there, whatever start() and the check do at once.              *)
DeadIsBypassed == failCount = MaxCount /\ check \notin {"remove", "restore"} => ~redirect

(* A network whose count is 0 has its redirect, when neither start() nor the  *)
(* check is at work on it (dnsmasq.js:213, "raw restart dnsmasq to refresh    *)
(* all confs and iptables").                                                  *)
LiveIsRedirected == start = "idle" /\ check # "remove" /\ failCount = 0 => redirect
=============================================================================

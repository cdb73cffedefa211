------------------------------- MODULE Plugin -------------------------------
(***************************************************************************)
(* The life of the plugin (plugin.go, internal.go): Serve brings up the    *)
(* worker pools, the Temporal client and the Temporal workers; a goroutine *)
(* answers the exit of worker processes with Reset or ResetAP; Reset may   *)
(* also be asked for by RPC; Stop ends it all.  They exclude each other    *)
(* with p.mu.                                                              *)
(*                                                                         *)
(* External: a pool replaces a process that exits and then has the event   *)
(* bus tell "process exited, pid: ..."; it tells nothing of processes it   *)
(* destroys itself.  The subscription names no pool, so the exits of other *)
(* plugins' workers are told too.  A Temporal worker that polls takes      *)
(* workflow tasks, and a task puts its run into the sticky cache; as       *)
(* WorkerStopTimeout is 0, stopping the worker does not wait for the tasks *)
(* it has taken.  Pids are numbered as processes start; Text says which    *)
(* pids occur in the text of which.                                        *)
(***************************************************************************)
EXTENDS Naturals, Sequences

CONSTANTS
    Queues,      \* the task queues the workers' info lists
    Text,        \* <<p, q>>: the decimal text of p contains that of q
    MaxPid,      \* bound: processes
    MaxIncidents,\* bound: exits of worker processes, the plugin's own and
                 \*        others, and resets asked for by RPC, together
    MaxTasks     \* bound: workflow tasks in flight

Pids == 1 .. MaxPid

ASSUME TextAssumption ==
    Text \subseteq Pids \X Pids /\ \A p \in Pids : <<p, p>> \in Text
ASSUME BoundsAssumption ==
    /\ MaxPid \in Nat
    /\ MaxIncidents \in Nat
    /\ MaxTasks \in Nat

VARIABLES
    mu,          \* Plugin.mu: the call that holds it
    pc,          \* where each call is
    wwPID,       \* Plugin.wwPID
    workers,     \* temporal.workers
    client,      \* temporal.client
    events,      \* Plugin.events, a channel of capacity 1
    stopCh,      \* Plugin.stopCh: what it holds
    errCh,       \* the errors sent to the channel Serve returns
    taken,       \* the event the goroutine handles, 0 if none
    building,    \* Temporal workers made and not yet started
    subscribed,  \* the plugin is subscribed to the event bus
    worker,      \* the process of each pool, 0 if none
    notices,     \* exits the event bus has yet to tell
    polling,     \* Temporal workers that poll
    tasks,       \* workflow tasks taken and not yet in the cache
    cache,       \* sticky cache: the processes its runs live in
    owner,       \* history: the pool each process belongs to
    nextPid,     \* history: the next process
    gen,         \* history: generations of Temporal workers made
    crashed,     \* history: workflow processes that exited since the last purge
    replaced,    \* history: the workflow process the last reset replaced
    abandoned,   \* history: Temporal workers started and not kept
    incidents    \* history: exits and resets asked for so far

plugin == <<wwPID, workers, client, taken, building, errCh>>
chans  == <<events, stopCh, subscribed, notices>>
procs  == <<worker, owner, nextPid, crashed, replaced>>
sdk    == <<polling, tasks, cache>>
rest   == <<gen, abandoned, incidents>>
vars   == <<mu, pc, plugin, chans, procs, sdk, rest>>

Resetters == {"events", "reset"}
Calls == {"serve", "stop"} \cup Resetters
Pools == {"wf", "act"}
Generation(g) == {[gen |-> g, queue |-> q] : q \in Queues}

Init ==
    /\ mu = "none"
    /\ pc = [c \in Calls |-> IF c = "events" THEN "off" ELSE "idle"]
    /\ wwPID = 0
    /\ workers = {}
    /\ client = "nil"
    /\ events = <<>>
    /\ stopCh = 0
    /\ errCh = 0
    /\ taken = 0
    /\ building = {}
    /\ subscribed = FALSE
    /\ worker = [p \in Pools |-> 0]
    /\ notices = {}
    /\ polling = {}
    /\ tasks = 0
    /\ cache = {}
    /\ owner = [p \in Pids |-> "none"]
    /\ nextPid = 1
    /\ gen = 0
    /\ crashed = {}
    /\ replaced = 0
    /\ abandoned = {}
    /\ incidents = 0

-----------------------------------------------------------------------------
(***************************************************************************)
(* Helpers shared by the calls.                                            *)
(***************************************************************************)
Goto(c, step) == pc' = [pc EXCEPT ![c] = step]

Lock(c, step) ==
    /\ mu = "none"
    /\ mu' = c
    /\ Goto(c, step)

(***************************************************************************)
(* Unlock releases the lock whoever holds it.  When nobody does, the Go    *)
(* runtime ends the program.                                               *)
(***************************************************************************)
Unlock(c, step) ==
    /\ mu' = "none"
    /\ IF mu = "none" THEN pc' = [d \in Calls |-> "dead"] ELSE Goto(c, step)

(***************************************************************************)
(* An error ends Serve and the goroutine, which send it to errCh (the      *)
(* goroutine once the lock is released); the RPC hands it to its caller.   *)
(***************************************************************************)
Fail(c) ==
    /\ Unlock(c, IF c = "reset" THEN "idle" ELSE "ended")
    /\ errCh' = IF c = "reset" \/ mu = "none" THEN errCh ELSE errCh + 1

(***************************************************************************)
(* A new process in a pool.                                                *)
(***************************************************************************)
NewProcess(pool) ==
    /\ nextPid <= MaxPid
    /\ worker' = [worker EXCEPT ![pool] = nextPid]
    /\ owner' = [owner EXCEPT ![nextPid] = pool]
    /\ nextPid' = nextPid + 1

(***************************************************************************)
(* Bound: one more exit, or reset asked for.                               *)
(***************************************************************************)
Incident ==
    /\ incidents < MaxIncidents
    /\ incidents' = incidents + 1

(***************************************************************************)
(* TemporalWorkers makes a worker for every task queue the info lists.     *)
(***************************************************************************)
TemporalWorkers(queues) ==
    /\ gen' = gen + 1
    /\ building' = {w \in Generation(gen + 1) : w.queue \in queues}

(***************************************************************************)
(* The workers of the last generation that were started.                   *)
(***************************************************************************)
Started == polling \cap Generation(gen)

-----------------------------------------------------------------------------
(***************************************************************************)
(* Serve and initPool, under the lock from beginning to end.               *)
(***************************************************************************)
Serve ==
    /\ pc["serve"] = "idle"
    /\ Lock("serve", "pools")
    /\ UNCHANGED <<plugin, chans, procs, sdk, rest>>

NewPools ==
    /\ pc["serve"] = "pools"
    /\ \/ /\ nextPid < MaxPid
          /\ worker' = [act |-> nextPid, wf |-> nextPid + 1]
          /\ owner' = [owner EXCEPT ![nextPid] = "act", ![nextPid + 1] = "wf"]
          /\ nextPid' = nextPid + 2
          /\ Goto("serve", "info")
          /\ UNCHANGED <<mu, errCh>>
       \/ NewProcess("act") /\ Fail("serve")
       \/ Fail("serve") /\ UNCHANGED <<worker, owner, nextPid>>
    /\ UNCHANGED <<wwPID, workers, client, taken, building, chans,
                   crashed, replaced, sdk, rest>>

(***************************************************************************)
(* WorkerInfo asks the workflow worker, which may die or answer badly.     *)
(* Serve takes an empty list for an error, Reset does not.                 *)
(***************************************************************************)
WorkerInfo(c) ==
    /\ pc[c] = "info"
    /\ \/ /\ c = "serve"
          /\ Goto(c, "client")
          /\ UNCHANGED <<mu, errCh, gen, building>>
       \/ /\ c # "serve"
          /\ \E queues \in SUBSET Queues : TemporalWorkers(queues)
          /\ Goto(c, "start")
          /\ UNCHANGED <<mu, errCh>>
       \/ /\ Fail(c)
          /\ UNCHANGED <<gen, building>>
    /\ UNCHANGED <<wwPID, workers, client, taken, chans, procs,
                   sdk, abandoned, incidents>>

initTemporalClient ==
    /\ pc["serve"] = "client"
    /\ \/ /\ client' = "open"
          /\ \E queues \in (SUBSET Queues) \ {{}} : TemporalWorkers(queues)
          /\ Goto("serve", "start")
          /\ UNCHANGED <<mu, errCh>>
       \/ /\ Fail("serve")
          /\ UNCHANGED <<client, gen, building>>
    /\ UNCHANGED <<wwPID, workers, taken, chans, procs, sdk,
                   abandoned, incidents>>

(***************************************************************************)
(* One Temporal worker is started.  When it cannot be, those started       *)
(* before it are left polling and forgotten.                               *)
(***************************************************************************)
StartWorker(c) ==
    /\ pc[c] = "start"
    /\ building # {}
    /\ \/ \E w \in building :
             /\ building' = building \ {w}
             /\ polling' = polling \cup {w}
             /\ UNCHANGED <<mu, pc, errCh, abandoned>>
       \/ /\ Fail(c)
          /\ building' = {}
          /\ abandoned' = abandoned \cup Started
          /\ UNCHANGED polling
    /\ UNCHANGED <<wwPID, workers, client, taken, chans, procs,
                   tasks, cache, gen, incidents>>

(***************************************************************************)
(* The end of Serve: the workflow pool may have no process just then;      *)
(* otherwise the fields are set, and unless the subscription fails the     *)
(* goroutine is started.                                                   *)
(***************************************************************************)
Serving ==
    /\ pc["serve"] = "start"
    /\ building = {}
    /\ \/ /\ Fail("serve")
          /\ abandoned' = abandoned \cup Started
          /\ UNCHANGED <<wwPID, workers, subscribed>>
       \/ /\ wwPID' = worker["wf"]
          /\ workers' = Started
          /\ \/ /\ subscribed' = TRUE
                /\ mu' = "none"
                /\ pc' = [pc EXCEPT !["serve"] = "served", !["events"] = "select"]
                /\ UNCHANGED errCh
             \/ /\ Fail("serve")
                /\ UNCHANGED subscribed
          /\ UNCHANGED abandoned
    /\ UNCHANGED <<client, taken, building, events, stopCh, notices, procs, sdk,
                   gen, incidents>>

-----------------------------------------------------------------------------
(***************************************************************************)
(* The goroutine.                                                          *)
(***************************************************************************)

(* Mutant: the pid in the event is not looked at. *)
EventForActivities ==
    /\ pc["events"] = "select"
    /\ events # <<>>
    /\ taken' = Head(events)
    /\ events' = Tail(events)
    /\ Goto("events", "ResetAP")
    /\ UNCHANGED <<mu, wwPID, workers, client, building, errCh,
                   stopCh, subscribed, notices, procs, sdk, rest>>

EventTaken ==
    /\ pc["events"] = "select"
    /\ events # <<>>
    /\ taken' = Head(events)
    /\ events' = Tail(events)
    /\ Goto("events", IF <<taken', wwPID>> \in Text THEN "Reset" ELSE "ResetAP")
    /\ UNCHANGED <<mu, wwPID, workers, client, building, errCh,
                   stopCh, subscribed, notices, procs, sdk, rest>>

StopTaken ==
    /\ pc["events"] = "select"
    /\ stopCh > 0
    /\ stopCh' = stopCh - 1
    /\ Goto("events", "ended")
    /\ UNCHANGED <<mu, plugin, events, subscribed, notices, procs, sdk, rest>>

Done(c) == IF c = "reset" THEN "idle" ELSE "select"

ResetAsked ==
    /\ pc["serve"] = "served"
    /\ pc["reset"] = "idle"
    /\ Incident
    /\ Goto("reset", "Reset")
    /\ UNCHANGED <<mu, plugin, chans, procs, sdk, gen, abandoned>>

(***************************************************************************)
(* ResetAP: the activity pool only.                                        *)
(***************************************************************************)
ResetAP ==
    /\ pc["events"] = "ResetAP"
    /\ Lock("events", "actOnly")
    /\ UNCHANGED <<plugin, chans, procs, sdk, rest>>

(* Mutant: an error is reported and the goroutine goes on. *)
ReportAndGoOn ==
    /\ pc["events"] = "actOnly"
    /\ errCh' = errCh + 1
    /\ Unlock("events", "select")
    /\ UNCHANGED <<wwPID, workers, client, taken, building, chans,
                   procs, sdk, rest>>

(* Mutant: an error ends the goroutine and is not reported. *)
EndQuietly ==
    /\ pc["events"] = "actOnly"
    /\ Unlock("events", "ended")
    /\ UNCHANGED <<plugin, chans, procs, sdk, rest>>

ResetActivityPool ==
    /\ pc["events"] = "actOnly"
    /\ \/ /\ NewProcess("act")
          /\ Unlock("events", "select")
          /\ taken' = 0
          /\ UNCHANGED errCh
       \/ /\ Fail("events")
          /\ UNCHANGED <<worker, owner, nextPid, taken>>
    /\ UNCHANGED <<wwPID, workers, client, building, chans,
                   crashed, replaced, sdk, rest>>

(***************************************************************************)
(* Reset, step by step.                                                    *)
(***************************************************************************)
Reset(c) ==
    /\ pc[c] = "Reset"
    /\ Lock(c, "stop")
    /\ UNCHANGED <<plugin, chans, procs, sdk, rest>>

(* Mutant: the Temporal workers are forgotten and not stopped. *)
ForgetWorkers(c) ==
    /\ pc[c] = "stop"
    /\ workers' = {}
    /\ Goto(c, "purge")
    /\ UNCHANGED <<mu, wwPID, client, taken, building, errCh,
                   chans, procs, sdk, rest>>

(***************************************************************************)
(* The Temporal workers take no more tasks.                                *)
(***************************************************************************)
StopWorkers(c) ==
    /\ pc[c] = "stop"
    /\ polling' = polling \ workers
    /\ workers' = {}
    /\ Goto(c, "purge")
    /\ UNCHANGED <<mu, wwPID, client, taken, building, errCh,
                   chans, procs, tasks, cache, rest>>

(* Mutant: the cache is left as it is. *)
PurgeSkipped(c) ==
    /\ pc[c] = "purge"
    /\ Goto(c, "wf")
    /\ UNCHANGED <<mu, plugin, chans, procs, sdk, rest>>

PurgeStickyWorkflowCache(c) ==
    /\ pc[c] = "purge"
    /\ cache' = {}
    /\ crashed' = {}
    /\ Goto(c, "wf")
    /\ UNCHANGED <<mu, plugin, chans, worker, owner, nextPid, replaced, polling, tasks, rest>>

ResetPool(c, pool, next) ==
    /\ pc[c] = pool
    /\ \/ /\ NewProcess(pool)
          /\ replaced' = IF pool = "wf" THEN worker["wf"] ELSE replaced
          /\ Goto(c, next)
          /\ UNCHANGED <<mu, errCh>>
       \/ /\ Fail(c)
          /\ UNCHANGED <<worker, owner, nextPid, replaced>>
    /\ UNCHANGED <<wwPID, workers, client, taken, building, chans,
                   crashed, sdk, rest>>

Restarted(c) ==
    /\ pc[c] = "start"
    /\ building = {}
    /\ workers' = Started
    /\ taken' = IF c = "events" THEN 0 ELSE taken
    /\ Unlock(c, Done(c))
    /\ UNCHANGED <<wwPID, client, building, errCh, chans,
                   procs, sdk, rest>>

-----------------------------------------------------------------------------
(* Mutant: the goroutine is not told. *)
StopUnsignalled ==
    /\ pc["stop"] = "idle"
    /\ pc["serve"] \in {"served", "ended"}
    /\ Lock("stop", "closing")
    /\ subscribed' = FALSE
    /\ UNCHANGED <<plugin, events, stopCh, notices, procs, sdk, rest>>

(***************************************************************************)
(* Stop: first the events, then the Temporal workers and the client.  When *)
(* the metrics cannot be closed it unlocks before it returns and again by  *)
(* defer.  In between another call may get the lock, which the second      *)
(* Unlock takes from it: then two calls may be at work at a time, until    *)
(* one of them finds nothing to unlock.                                    *)
(***************************************************************************)
Stop ==
    /\ pc["stop"] = "idle"
    /\ pc["serve"] \in {"served", "ended"}
    /\ Lock("stop", "closing")
    /\ subscribed' = FALSE
    /\ stopCh' = stopCh + 1
    /\ UNCHANGED <<plugin, events, notices, procs, sdk, rest>>

StopRest ==
    /\ pc["stop"] = "closing"
    /\ \/ /\ Unlock("stop", "stopped")
          /\ polling' = polling \ workers
          /\ client' = IF client = "nil" THEN client ELSE "closed"
       \/ /\ Unlock("stop", "unlocked")
          /\ polling' = polling \ workers
          /\ UNCHANGED client
    /\ UNCHANGED <<wwPID, workers, taken, building, errCh, chans,
                   procs, tasks, cache, rest>>

SecondUnlock ==
    /\ pc["stop"] = "unlocked"
    /\ Unlock("stop", "failed")
    /\ UNCHANGED <<plugin, chans, procs, sdk, rest>>

-----------------------------------------------------------------------------
(***************************************************************************)
(* The environment (external).                                             *)
(***************************************************************************)
ProcessExits(pool) ==
    /\ worker[pool] # 0
    /\ Incident
    /\ NewProcess(pool)
    /\ crashed' = IF pool = "wf" THEN crashed \cup {worker["wf"]} ELSE crashed
    /\ notices' = notices \cup {worker[pool]}
    /\ UNCHANGED <<mu, pc, plugin, events, stopCh, subscribed, replaced, sdk, gen,
                   abandoned>>

OtherProcessExits ==
    /\ nextPid <= MaxPid
    /\ Incident
    /\ owner' = [owner EXCEPT ![nextPid] = "other"]
    /\ nextPid' = nextPid + 1
    /\ notices' = notices \cup {nextPid}
    /\ UNCHANGED <<mu, pc, plugin, events, stopCh, subscribed, worker, crashed,
                   replaced, sdk, gen, abandoned>>

(***************************************************************************)
(* The bus may wait for room in the channel or drop what does not fit.     *)
(***************************************************************************)
NoticeTold(p) ==
    /\ p \in notices
    /\ notices' = notices \ {p}
    /\ \/ /\ subscribed
          /\ events = <<>>
          /\ events' = <<p>>
       \/ /\ ~subscribed \/ events # <<>>
          /\ UNCHANGED events
    /\ UNCHANGED <<mu, pc, plugin, stopCh, subscribed, procs, sdk, rest>>

TaskTaken ==
    /\ polling # {}
    /\ tasks < MaxTasks
    /\ tasks' = tasks + 1
    /\ UNCHANGED <<mu, pc, plugin, chans, procs, polling, cache, rest>>

(***************************************************************************)
(* A task in flight starts its run in the process the pool has just then,  *)
(* also when the worker that took it has been stopped.                     *)
(***************************************************************************)
RunCached ==
    /\ tasks > 0
    /\ worker["wf"] # 0
    /\ tasks' = tasks - 1
    /\ cache' = cache \cup {worker["wf"]}
    /\ UNCHANGED <<mu, pc, plugin, chans, procs, polling, rest>>

RunEvicted ==
    /\ \E p \in cache : cache' = cache \ {p}
    /\ UNCHANGED <<mu, pc, plugin, chans, procs, polling, tasks, rest>>

-----------------------------------------------------------------------------
ServeStep ==
    NewPools \/ WorkerInfo("serve") \/ initTemporalClient \/ StartWorker("serve") \/ Serving

ResetStep(c) ==
    \/ StopWorkers(c)
    \/ PurgeStickyWorkflowCache(c)
    \/ ResetPool(c, "wf", "act")
    \/ ResetPool(c, "act", "info")
    \/ WorkerInfo(c)
    \/ StartWorker(c)
    \/ Restarted(c)

GoroutineStep == EventTaken \/ StopTaken \/ ResetActivityPool \/ ResetStep("events")

Environment ==
    \/ \E pool \in Pools : ProcessExits(pool)
    \/ OtherProcessExits
    \/ \E p \in Pids : NoticeTold(p)
    \/ TaskTaken \/ RunCached \/ RunEvicted

Ended ==
    /\ \/ pc["stop"] = "dead"
       \/ pc["stop"] = "stopped" /\ pc["events"] \in {"off", "ended"}
    /\ UNCHANGED vars

Next ==
    \/ Serve \/ ServeStep
    \/ GoroutineStep \/ ResetAP
    \/ ResetAsked \/ ResetStep("reset")
    \/ \E c \in Resetters : Reset(c)
    \/ Stop \/ StopRest \/ SecondUnlock
    \/ pc["stop"] # "dead" /\ Environment
    \/ Ended

Spec == Init /\ [][Next]_vars

(***************************************************************************)
(* Every goroutine keeps running: what it waits for inside a step (a pool  *)
(* reset, a worker's info) has a timeout.  A sync.RWMutex is handed to     *)
(* whoever waits for it.                                                   *)
(***************************************************************************)
FairSpec ==
    /\ Spec
    /\ WF_vars(ServeStep)
    /\ WF_vars(GoroutineStep)
    /\ WF_vars(ResetStep("reset"))
    /\ WF_vars(StopRest \/ SecondUnlock)
    /\ SF_vars(ResetAP)
    /\ \A c \in Resetters : SF_vars(Reset(c))

-----------------------------------------------------------------------------
Steps == {"off", "idle", "pools", "info", "client", "start", "served", "select",
          "Reset", "ResetAP", "actOnly", "stop", "purge", "wf", "act",
          "closing", "unlocked", "stopped", "failed", "ended", "dead"}

(***************************************************************************)
(* Types; that errCh and stopCh never hold more than their capacity of 1   *)
(* says that no call blocks sending to them while it holds the lock.       *)
(***************************************************************************)
TypeOK ==
    /\ mu \in Calls \cup {"none"}
    /\ pc \in [Calls -> Steps]
    /\ wwPID \in 0 .. MaxPid
    /\ client \in {"nil", "open", "closed"}
    /\ events \in {<<>>} \cup {<<p>> : p \in Pids}
    /\ stopCh \in 0 .. 1
    /\ errCh \in 0 .. 1
    /\ taken \in 0 .. MaxPid
    /\ building \subseteq IF gen = 0 THEN {} ELSE Generation(gen)
    /\ subscribed \in BOOLEAN
    /\ worker \in [Pools -> 0 .. MaxPid]
    /\ notices \subseteq Pids
    /\ \A w \in workers \cup polling \cup abandoned :
          \E g \in 1 .. gen : w \in Generation(g)
    /\ cache \subseteq Pids
    /\ owner \in [Pids -> Pools \cup {"none", "other"}]
    /\ nextPid \in 1 .. MaxPid + 1
    /\ gen \in Nat
    /\ crashed \subseteq Pids
    /\ replaced \in 0 .. MaxPid
    /\ tasks \in 0 .. MaxTasks
    /\ incidents \in 0 .. MaxIncidents

(***************************************************************************)
(* Stop has released a lock that another call held.                        *)
(***************************************************************************)
Broken == pc["stop"] \in {"failed", "dead"}

(***************************************************************************)
(* Only Temporal workers the plugin will stop are polling: between its     *)
(* calls every polling worker is in temporal.workers, or was started by a  *)
(* call that then failed.                                                  *)
(***************************************************************************)
OnlyTrackedPoll ==
    mu = "none" /\ ~Broken => polling \subseteq workers \cup abandoned

(***************************************************************************)
(* Stale runs do not pile up in the sticky cache.  A cached run lives in   *)
(* the workflow pool's process, in the one the last reset replaced, or in  *)
(* one that exited by itself since the last purge: a run that a task in    *)
(* flight, or a worker that was left polling, caches behind the purge is   *)
(* gone after the next reset.                                              *)
(***************************************************************************)
StaleRunsPurged ==
    ~Broken => cache \subseteq crashed \cup {worker["wf"], replaced}

(***************************************************************************)
(* The goroutine that answers the exits ends only when Stop was called or  *)
(* after it reported an error on the channel Serve returned.               *)
(***************************************************************************)
NoSilentEnd ==
    pc["events"] = "ended" => errCh = 1 \/ pc["stop"] # "idle"

(***************************************************************************)
(* After Stop, also when it fails, the goroutine ends, whatever event it   *)
(* was handling.                                                           *)
(***************************************************************************)
GoroutineEnds ==
    pc["stop"] \in {"stopped", "failed"} ~> pc["events"] \in {"off", "ended", "dead"}

(***************************************************************************)
(* When the goroutine is told that the workflow worker Serve started has   *)
(* exited, the runs that lived in it leave the sticky cache, unless an     *)
(* error is reported or the plugin is stopped.                             *)
(***************************************************************************)
FirstExitRecovered ==
    (events = <<wwPID>>) ~>
        (wwPID \notin cache \/ errCh = 1 \/ pc["stop"] # "idle")

=============================================================================

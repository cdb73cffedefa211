---------------------------- MODULE PluginProofs ----------------------------
(***************************************************************************)
(* Until a failing Stop releases the lock twice, Serve, Reset, ResetAP and *)
(* Stop exclude each other, so what one of them leaves between two of its  *)
(* steps is seen by no other; from this follow what the plugin promises of *)
(* its Temporal workers, of the sticky cache and of the goroutine that     *)
(* answers exits.                                                          *)
(***************************************************************************)
EXTENDS Plugin, TLAPS

(***************************************************************************)
(* The steps between Lock and Unlock; only the holder of the lock is at    *)
(* one of them.                                                            *)
(***************************************************************************)
Inside == {"pools", "info", "client", "start", "actOnly", "stop", "purge", "wf",
           "act", "closing"}

Excluded == \A c \in Calls : pc[c] \in Inside => mu = c

(***************************************************************************)
(* The goroutine and resets come after Serve, Stop after Serve has ended,  *)
(* and a crash of the program ends all calls.                              *)
(***************************************************************************)
Ordered ==
    /\ pc["serve"] \notin {"served", "dead"} => pc["events"] = "off" /\ pc["reset"] = "idle"
    /\ pc["serve"] \notin {"served", "ended", "dead"} => pc["stop"] = "idle" /\ workers = {}
    /\ pc["serve"] \in {"idle", "pools"} => worker["wf"] = 0 /\ cache = {}
    /\ pc["serve"] = "dead" => \A c \in Calls : pc[c] = "dead"

(***************************************************************************)
(* From StopWorkers to Restarted the plugin has no Temporal workers but    *)
(* those it is starting.                                                   *)
(***************************************************************************)
Emptied ==
    \A c \in Calls :
        pc[c] \in {"purge", "wf", "act", "info", "client", "start"} => workers = {}

Tracked ==
    \A w \in polling :
        w \in workers \cup abandoned \/
        (w \in Generation(gen) /\ \E c \in Calls : pc[c] = "start")

(***************************************************************************)
(* What tasks in flight cache between the purge and the reset of the       *)
(* workflow pool lives in the pool's process, or in one that exited since. *)
(***************************************************************************)
Purged == \A c \in Calls : pc[c] = "wf" => cache \subseteq crashed \cup {worker["wf"]}

Reported ==
    /\ pc["serve"] \notin {"ended", "dead"} /\ pc["events"] \notin {"ended", "dead"} => errCh = 0
    /\ pc["stop"] = "idle" => stopCh = 0

PluginInv ==
    /\ TypeOK /\ Ordered /\ Reported /\ NoSilentEnd
    /\ ~Broken => Excluded /\ Emptied /\ Tracked /\ Purged /\ StaleRunsPurged

(***************************************************************************)
(* The lock is given back with an error: no call is inside any more, and   *)
(* the error is the first one on errCh.                                    *)
(***************************************************************************)
LEMMA FailLeaves ==
    ASSUME PluginInv, NEW c \in Calls \ {"stop"}, pc[c] \in Inside, Fail(c),
           UNCHANGED stopCh
    PROVE  (~Broken => Excluded') /\ (Reported /\ NoSilentEnd)' /\ errCh' \in 0 .. 1
<1>1. /\ pc \in [Calls -> Steps] /\ errCh \in 0 .. 1 /\ Ordered
      /\ Reported /\ NoSilentEnd /\ (~Broken => Excluded)
  BY DEF PluginInv, TypeOK
<1>2. CASE mu = "none"
  <2>1. pc' = [d \in Calls |-> "dead"] /\ errCh' = errCh
    BY <1>2 DEF Fail, Unlock
  <2> QED BY <1>1, <2>1 DEF Excluded, Reported, NoSilentEnd, Inside, Calls, Resetters
<1>3. CASE mu # "none"
  <2>1. /\ mu' = "none"
        /\ pc' = [pc EXCEPT ![c] = IF c = "reset" THEN "idle" ELSE "ended"]
        /\ errCh' = IF c = "reset" THEN errCh ELSE errCh + 1
    BY <1>3 DEF Fail, Unlock, Goto
  <2>2. ~Broken => Excluded'
    BY <1>1, <2>1 DEF Excluded, Inside, Calls, Resetters
  <2>3. c # "reset" => errCh = 0
    BY <1>1 DEF Ordered, Reported, Inside, Calls, Resetters
  <2>4. CASE c = "reset"
    BY <1>1, <2>1, <2>2, <2>4 DEF Reported, NoSilentEnd, Inside, Calls, Resetters
  <2>5. CASE c = "serve"
    <3>1. pc["events"] = "off"
      BY <1>1, <2>5 DEF Ordered, Inside
    <3> QED BY <1>1, <2>1, <2>2, <2>3, <2>5, <3>1 DEF Reported, NoSilentEnd, Inside, Calls,
               Resetters
  <2>6. CASE c = "events"
    BY <1>1, <2>1, <2>2, <2>3, <2>6 DEF Reported, NoSilentEnd, Inside, Calls, Resetters
  <2> QED BY <2>4, <2>5, <2>6 DEF Calls, Resetters
<1> QED BY <1>2, <1>3

(***************************************************************************)
(* A call goes on under the lock.                                          *)
(***************************************************************************)
LEMMA InsideStays ==
    ASSUME PluginInv, NEW c \in Calls, pc[c] \in Inside, NEW s \in Inside,
           Goto(c, s), UNCHANGED <<mu, errCh, stopCh>>
    PROVE  (~Broken => Excluded') /\ (Reported /\ NoSilentEnd)'
<1>1. pc \in [Calls -> Steps] /\ (~Broken => Excluded) /\ Reported /\ NoSilentEnd
  BY ZenonT(60) DEF PluginInv, TypeOK
<1> QED
  BY <1>1 DEF Goto, Excluded, Reported, NoSilentEnd, Inside, Calls, Resetters

(***************************************************************************)
(* A lock released twice stays so until the program ends.                  *)
(***************************************************************************)
LEMMA BrokenStays == PluginInv /\ [Next]_vars /\ ~Broken' => ~Broken
<1> SUFFICES ASSUME PluginInv, [Next]_vars, Broken PROVE Broken'
  OBVIOUS
<1>0. pc \in [Calls -> Steps] /\ pc["stop"] \in {"failed", "dead"}
  BY DEF PluginInv, TypeOK, Broken
<1> USE DEF Broken, Calls, Resetters
<1>1. CASE UNCHANGED pc
  BY <1>0, <1>1
<1>2. ASSUME NEW c \in Calls \ {"stop"}, NEW s, Unlock(c, s) PROVE Broken'
  BY <1>0, <1>2 DEF Unlock, Goto
<1>3. ASSUME NEW c \in Calls \ {"stop"}, Fail(c) PROVE Broken'
  BY <1>2, <1>3 DEF Fail
<1>4. ASSUME NEW c \in Calls \ {"stop"}, NEW s, Goto(c, s) PROVE Broken'
  BY <1>0, <1>4 DEF Goto
<1>5. CASE Serving
  <2>1. CASE pc' = [pc EXCEPT !["serve"] = "served", !["events"] = "select"]
    BY <1>0, <2>1
  <2> QED BY <1>3, <1>5, <2>1 DEF Serving
<1>6. CASE Stop \/ StopRest \/ SecondUnlock
  BY <1>0, <1>6 DEF Stop, StopRest, SecondUnlock
<1>7. CASE Serve \/ ServeStep \/ GoroutineStep \/ ResetAP \/ ResetAsked
  BY <1>1, <1>2, <1>3, <1>4, <1>5, <1>7, ZenonT(60)
  DEF Serve, ServeStep, GoroutineStep, ResetAP, ResetAsked, Lock, NewPools, WorkerInfo,
      initTemporalClient, StartWorker, EventTaken, StopTaken, ResetActivityPool, ResetStep,
      StopWorkers, PurgeStickyWorkflowCache, ResetPool, Restarted
<1>8. CASE ResetStep("reset") \/ \E c \in Resetters : Reset(c)
  BY <1>1, <1>2, <1>3, <1>4, <1>8, ZenonT(60)
  DEF Reset, Lock, ResetStep, WorkerInfo, StartWorker, StopWorkers,
      PurgeStickyWorkflowCache, ResetPool, Restarted
<1>9. CASE Environment \/ Ended \/ UNCHANGED vars
  BY <1>1, <1>9, ZenonT(60)
  DEF Environment, ProcessExits, OtherProcessExits, NoticeTold, TaskTaken, RunCached,
      RunEvicted, Ended, vars
<1> QED BY <1>6, <1>7, <1>8, <1>9, ZenonT(60) DEF Next

(***************************************************************************)
(* Only the holder of the lock is inside.                                  *)
(***************************************************************************)
LEMMA ExcludedStep == PluginInv /\ [Next]_vars /\ ~Broken' => Excluded'
<1> SUFFICES ASSUME PluginInv, [Next]_vars, ~Broken' PROVE Excluded'
  OBVIOUS
<1>0. pc \in [Calls -> Steps] /\ Excluded /\ Ordered /\ ~Broken /\ ~Broken'
  BY BrokenStays DEF PluginInv, TypeOK
<1> USE DEF Calls, Resetters, Inside, Excluded
<1>1. CASE UNCHANGED <<mu, pc>>
  BY <1>0, <1>1
<1>2. CASE Serve
  BY <1>0, <1>2 DEF Serve, Lock, Goto
<1>3. CASE NewPools
  <2>1. CASE Fail("serve")
    BY <1>0, <1>3, <2>1, FailLeaves, ZenonT(60) DEF NewPools, chans, Inside, Calls
  <2>2. CASE Goto("serve", "info") /\ UNCHANGED <<mu, errCh, stopCh>>
    BY <1>0, <1>3, <2>2, InsideStays DEF NewPools, Inside, Calls
  <2> QED BY <1>3, <2>1, <2>2 DEF NewPools, chans
<1>4. ASSUME NEW c \in Calls \ {"stop"}, WorkerInfo(c) PROVE Excluded'
  <2>1. CASE Fail(c)
    BY <1>0, <1>4, <2>1, FailLeaves DEF WorkerInfo, chans, Inside
  <2>2. CASE \E s \in Inside : Goto(c, s) /\ UNCHANGED <<mu, errCh, stopCh>>
    BY <1>0, <1>4, <2>2, InsideStays DEF WorkerInfo, Inside
  <2> QED BY <1>4, <2>1, <2>2 DEF WorkerInfo, chans, Inside
<1>5. CASE initTemporalClient
  <2>1. CASE Fail("serve")
    BY <1>0, <1>5, <2>1, FailLeaves, ZenonT(60) DEF initTemporalClient, chans, Inside, Calls
  <2>2. CASE Goto("serve", "start") /\ UNCHANGED <<mu, errCh, stopCh>>
    BY <1>0, <1>5, <2>2, InsideStays DEF initTemporalClient, Inside, Calls
  <2> QED BY <1>5, <2>1, <2>2 DEF initTemporalClient, chans
<1>6. ASSUME NEW c \in Calls \ {"stop"}, StartWorker(c) PROVE Excluded'
  <2>1. CASE Fail(c)
    BY <1>0, <1>6, <2>1, FailLeaves DEF StartWorker, chans, Inside
  <2>2. CASE UNCHANGED <<mu, pc, errCh, stopCh>>
    BY <1>0, <2>2
  <2> QED BY <1>6, <2>1, <2>2 DEF StartWorker, chans
<1>7. CASE Serving
  <2>1. CASE Fail("serve")
    BY <1>0, <1>7, <2>1, FailLeaves DEF Serving, Inside, Calls
  <2>2. CASE /\ pc' = [pc EXCEPT !["serve"] = "served", !["events"] = "select"]
             /\ mu' = "none" /\ UNCHANGED <<errCh, stopCh>>
    <3>1. pc["serve"] = "start" /\ pc["events"] = "off"
      BY <1>0, <1>7 DEF Serving, Ordered
    <3>2. \A d \in Calls : pc'[d] \in Inside => pc[d] \in Inside /\ d # "serve"
      BY <1>0, <2>2, <3>1
    <3>3. mu = "serve"
      BY <1>0, <3>1 DEF Excluded
    <3> QED BY <1>0, <2>2, <3>1, <3>2, <3>3 DEF Excluded, Reported, NoSilentEnd
  <2> QED BY <1>7, <2>1, <2>2 DEF Serving
<1>8. CASE EventTaken
  BY <1>0, <1>8 DEF EventTaken, Goto
<1>9. CASE StopTaken
  BY <1>0, <1>9 DEF StopTaken, Goto
<1>10. CASE ResetAsked
  BY <1>0, <1>10 DEF ResetAsked, Goto
<1>11. CASE ResetAP
  BY <1>0, <1>11 DEF ResetAP, Lock, Goto
<1>12. CASE ResetActivityPool
  <2>1. CASE Fail("events")
    BY <1>0, <1>12, <2>1, FailLeaves DEF ResetActivityPool, chans, Inside, Calls, Resetters
  <2>2. CASE Unlock("events", "select") /\ UNCHANGED <<errCh, stopCh>>
    BY <1>0, <1>12, <2>2 DEF ResetActivityPool, Unlock, Goto
  <2> QED BY <1>12, <2>1, <2>2 DEF ResetActivityPool, chans
<1>13. ASSUME NEW c \in Resetters, Reset(c) PROVE Excluded'
  BY <1>0, <1>13 DEF Reset, Lock, Goto
<1>14. ASSUME NEW c \in Resetters, StopWorkers(c) PROVE Excluded'
  BY <1>0, <1>14 DEF StopWorkers, Goto
<1>15. ASSUME NEW c \in Resetters, PurgeStickyWorkflowCache(c) PROVE Excluded'
  BY <1>0, <1>15 DEF PurgeStickyWorkflowCache, Goto
<1>16. ASSUME NEW c \in Resetters, ResetPool(c, "wf", "act") PROVE Excluded'
  <2>1. CASE Fail(c)
    BY <1>0, <1>16, <2>1, FailLeaves, ZenonT(60) DEF ResetPool, chans, Inside, Calls, Resetters
  <2>2. CASE \E s \in Inside : Goto(c, s) /\ UNCHANGED <<mu, errCh, stopCh>>
    BY <1>0, <1>16, <2>2, InsideStays DEF ResetPool, Inside, Calls, Resetters
  <2> QED BY <1>16, <2>1, <2>2 DEF ResetPool, chans, Inside
<1>17. ASSUME NEW c \in Resetters, ResetPool(c, "act", "info") PROVE Excluded'
  <2>1. CASE Fail(c)
    BY <1>0, <1>17, <2>1, FailLeaves, ZenonT(60) DEF ResetPool, chans, Inside, Calls, Resetters
  <2>2. CASE \E s \in Inside : Goto(c, s) /\ UNCHANGED <<mu, errCh, stopCh>>
    BY <1>0, <1>17, <2>2, InsideStays DEF ResetPool, Inside, Calls, Resetters
  <2> QED BY <1>17, <2>1, <2>2 DEF ResetPool, chans, Inside
<1>18. ASSUME NEW c \in Resetters, Restarted(c) PROVE Excluded'
  BY <1>0, <1>18 DEF Restarted, Started, Done, Unlock, Goto
<1>19. CASE Stop
  BY <1>0, <1>19 DEF Stop, Lock, Goto
<1>20. CASE StopRest
  BY <1>0, <1>20, ZenonT(60) DEF StopRest, Unlock, Goto
<1>24. CASE SecondUnlock
  BY <1>0, <1>24 DEF SecondUnlock, Unlock, Goto, Broken
<1> QED
  BY <1>0, <1>1, <1>2, <1>3, <1>4, <1>5, <1>6, <1>7, <1>8, <1>9, <1>10,
     <1>11, <1>12, <1>13, <1>14, <1>15, <1>16, <1>17, <1>18, <1>19, <1>20, <1>24
  DEF Next, ServeStep, GoroutineStep, ResetStep, Ended, vars, plugin, chans,
      procs, sdk, rest, Calls, Resetters,
      Environment, ProcessExits, OtherProcessExits, NoticeTold, TaskTaken, RunCached,
      RunEvicted

(***************************************************************************)
(* An error is reported once, and stopCh filled by Stop only.              *)
(***************************************************************************)
LEMMA ReportedStep == PluginInv /\ [Next]_vars => (Reported /\ NoSilentEnd)'
<1> SUFFICES ASSUME PluginInv, [Next]_vars PROVE (Reported /\ NoSilentEnd)'
  OBVIOUS
<1>0. pc \in [Calls -> Steps] /\ stopCh \in 0 .. 1 /\ errCh \in 0 .. 1 /\ Ordered
      /\ Reported /\ NoSilentEnd
  BY DEF PluginInv, TypeOK
<1> USE DEF Calls, Resetters, Inside, Reported, NoSilentEnd
<1>1. CASE UNCHANGED <<pc, errCh, stopCh>>
  BY <1>0, <1>1
<1>2. CASE Serve
  BY <1>0, <1>2 DEF Serve, Lock, Goto, plugin, chans
<1>3. CASE NewPools
  <2>1. CASE Fail("serve")
    BY <1>3, <2>1, FailLeaves DEF NewPools, chans, Inside, Calls
  <2>2. CASE Goto("serve", "info") /\ UNCHANGED <<mu, errCh, stopCh>>
    BY <1>3, <2>2, InsideStays DEF NewPools, Inside, Calls
  <2> QED BY <1>3, <2>1, <2>2 DEF NewPools, chans
<1>4. ASSUME NEW c \in Calls \ {"stop"}, WorkerInfo(c) PROVE (Reported /\ NoSilentEnd)'
  <2>1. CASE Fail(c)
    BY <1>4, <2>1, FailLeaves DEF WorkerInfo, chans, Inside
  <2>2. CASE \E s \in Inside : Goto(c, s) /\ UNCHANGED <<mu, errCh, stopCh>>
    BY <1>4, <2>2, InsideStays DEF WorkerInfo, Inside
  <2> QED BY <1>4, <2>1, <2>2 DEF WorkerInfo, chans, Inside
<1>5. CASE initTemporalClient
  <2>1. CASE Fail("serve")
    BY <1>5, <2>1, FailLeaves DEF initTemporalClient, chans, Inside, Calls
  <2>2. CASE Goto("serve", "start") /\ UNCHANGED <<mu, errCh, stopCh>>
    BY <1>5, <2>2, InsideStays DEF initTemporalClient, Inside, Calls
  <2> QED BY <1>5, <2>1, <2>2 DEF initTemporalClient, chans
<1>6. ASSUME NEW c \in Calls \ {"stop"}, StartWorker(c) PROVE (Reported /\ NoSilentEnd)'
  <2>1. CASE Fail(c)
    BY <1>6, <2>1, FailLeaves DEF StartWorker, chans, Inside
  <2>2. CASE UNCHANGED <<mu, pc, errCh, stopCh>>
    BY <1>0, <2>2
  <2> QED BY <1>6, <2>1, <2>2 DEF StartWorker, chans
<1>7. CASE Serving
  <2>1. CASE Fail("serve")
    BY <1>7, <2>1, FailLeaves DEF Serving, Inside, Calls
  <2>2. CASE /\ pc' = [pc EXCEPT !["serve"] = "served", !["events"] = "select"]
             /\ mu' = "none" /\ UNCHANGED <<errCh, stopCh>>
    <3>1. pc["serve"] = "start" /\ pc["events"] = "off"
      BY <1>0, <1>7 DEF Serving, Ordered
    <3> QED BY <1>0, <2>2, <3>1 DEF Reported, NoSilentEnd
  <2> QED BY <1>7, <2>1, <2>2 DEF Serving
<1>8. CASE EventTaken
  BY <1>0, <1>8 DEF EventTaken, Goto, plugin, chans
<1>9. CASE StopTaken
  BY <1>0, <1>9 DEF StopTaken, Goto, plugin, chans
<1>10. CASE ResetAsked
  BY <1>0, <1>10 DEF ResetAsked, Goto, plugin, chans
<1>11. CASE ResetAP
  BY <1>0, <1>11 DEF ResetAP, Lock, Goto, plugin, chans
<1>12. CASE ResetActivityPool
  <2>1. CASE Fail("events")
    BY <1>12, <2>1, FailLeaves DEF ResetActivityPool, chans, Inside, Calls, Resetters
  <2>2. CASE Unlock("events", "select") /\ UNCHANGED <<errCh, stopCh>>
    BY <1>0, <1>12, <2>2 DEF ResetActivityPool, Unlock, Goto
  <2> QED BY <1>12, <2>1, <2>2 DEF ResetActivityPool, chans
<1>13. ASSUME NEW c \in Resetters, Reset(c) PROVE (Reported /\ NoSilentEnd)'
  BY <1>0, <1>13 DEF Reset, Lock, Goto, plugin, chans
<1>14. ASSUME NEW c \in Resetters, StopWorkers(c) PROVE (Reported /\ NoSilentEnd)'
  BY <1>0, <1>14 DEF StopWorkers, Goto, plugin, chans
<1>15. ASSUME NEW c \in Resetters, PurgeStickyWorkflowCache(c) PROVE (Reported /\ NoSilentEnd)'
  BY <1>0, <1>15 DEF PurgeStickyWorkflowCache, Goto, plugin, chans
<1>16. ASSUME NEW c \in Resetters, ResetPool(c, "wf", "act") PROVE (Reported /\ NoSilentEnd)'
  <2>1. CASE Fail(c)
    BY <1>16, <2>1, FailLeaves DEF ResetPool, chans, Inside, Calls, Resetters
  <2>2. CASE \E s \in Inside : Goto(c, s) /\ UNCHANGED <<mu, errCh, stopCh>>
    BY <1>16, <2>2, InsideStays DEF ResetPool, Inside, Calls, Resetters
  <2> QED BY <1>16, <2>1, <2>2 DEF ResetPool, chans, Inside
<1>17. ASSUME NEW c \in Resetters, ResetPool(c, "act", "info") PROVE (Reported /\ NoSilentEnd)'
  <2>1. CASE Fail(c)
    BY <1>17, <2>1, FailLeaves DEF ResetPool, chans, Inside, Calls, Resetters
  <2>2. CASE \E s \in Inside : Goto(c, s) /\ UNCHANGED <<mu, errCh, stopCh>>
    BY <1>17, <2>2, InsideStays DEF ResetPool, Inside, Calls, Resetters
  <2> QED BY <1>17, <2>1, <2>2 DEF ResetPool, chans, Inside
<1>18. ASSUME NEW c \in Resetters, Restarted(c) PROVE (Reported /\ NoSilentEnd)'
  BY <1>0, <1>18 DEF Restarted, Started, Done, Unlock, Goto, plugin, chans
<1>19. CASE Stop
  BY <1>0, <1>19 DEF Stop, Lock, Goto, plugin, chans
<1>20. CASE StopRest
  BY <1>0, <1>20, Zenon DEF StopRest, Unlock, Goto, plugin, chans
<1>24. CASE SecondUnlock
  BY <1>0, <1>24 DEF SecondUnlock, Unlock, Goto, plugin, chans
<1> QED
  BY <1>0, <1>1, <1>2, <1>3, <1>4, <1>5, <1>6, <1>7, <1>8, <1>9, <1>10, ZenonT(60),
     <1>11, <1>12, <1>13, <1>14, <1>15, <1>16, <1>17, <1>18, <1>19, <1>20, <1>24
  DEF Next, ServeStep, GoroutineStep, ResetStep, Ended, vars, plugin, chans,
      procs, sdk, rest, Calls, Resetters,
      Environment, ProcessExits, OtherProcessExits, NoticeTold, TaskTaken, RunCached,
      RunEvicted

(***************************************************************************)
(* The calls come in their order.                                          *)
(***************************************************************************)
LEMMA OrderedStep == PluginInv /\ [Next]_vars => Ordered'
<1> SUFFICES ASSUME PluginInv, [Next]_vars PROVE Ordered'
  OBVIOUS
<1>0. pc \in [Calls -> Steps] /\ Ordered /\ worker \in [Pools -> 0 .. MaxPid]
  BY BoundsAssumption DEF PluginInv, TypeOK
<1> USE DEF Calls, Resetters, Inside, Ordered, Pools
<1>1. CASE UNCHANGED <<pc, workers, worker, cache>>
  BY <1>0, <1>1
<1>2. CASE Serve
  BY <1>0, <1>2 DEF Serve, Lock, Goto, plugin, procs, sdk
<1>3. CASE NewPools
  BY <1>0, <1>3 DEF NewPools, NewProcess, Fail, Unlock, Goto, plugin, procs, sdk
<1>4. ASSUME NEW c \in Calls \ {"stop"}, WorkerInfo(c) PROVE Ordered'
  BY <1>0, <1>4 DEF WorkerInfo, TemporalWorkers, Fail, Unlock, Goto, plugin, procs, sdk
<1>5. CASE initTemporalClient
  BY <1>0, <1>5 DEF initTemporalClient, TemporalWorkers, Fail, Unlock, Goto, plugin, procs,
     sdk
<1>6. ASSUME NEW c \in Calls \ {"stop"}, StartWorker(c) PROVE Ordered'
  BY <1>0, <1>6 DEF StartWorker, Started, Fail, Unlock, Goto, plugin, procs, sdk
<1>7. CASE Serving
  BY <1>0, <1>7 DEF Serving, Started, Fail, Unlock, Goto, plugin, procs, sdk
<1>8. CASE EventTaken
  BY <1>0, <1>8 DEF EventTaken, Goto, plugin, procs, sdk
<1>9. CASE StopTaken
  BY <1>0, <1>9 DEF StopTaken, Goto, plugin, procs, sdk
<1>10. CASE ResetAsked
  BY <1>0, <1>10 DEF ResetAsked, Goto, plugin, procs, sdk
<1>11. CASE ResetAP
  BY <1>0, <1>11 DEF ResetAP, Lock, Goto, plugin, procs, sdk
<1>12. CASE ResetActivityPool
  BY <1>0, <1>12 DEF ResetActivityPool, NewProcess, Fail, Unlock, Goto, plugin, procs, sdk
<1>13. ASSUME NEW c \in Resetters, Reset(c) PROVE Ordered'
  BY <1>0, <1>13 DEF Reset, Lock, Goto, plugin, procs, sdk
<1>14. ASSUME NEW c \in Resetters, StopWorkers(c) PROVE Ordered'
  BY <1>0, <1>14 DEF StopWorkers, Goto, plugin, procs, sdk
<1>15. ASSUME NEW c \in Resetters, PurgeStickyWorkflowCache(c) PROVE Ordered'
  BY <1>0, <1>15 DEF PurgeStickyWorkflowCache, Goto, plugin, procs, sdk
<1>16. ASSUME NEW c \in Resetters, ResetPool(c, "wf", "act") PROVE Ordered'
  BY <1>0, <1>16 DEF ResetPool, NewProcess, Fail, Unlock, Goto, plugin, procs, sdk
<1>17. ASSUME NEW c \in Resetters, ResetPool(c, "act", "info") PROVE Ordered'
  BY <1>0, <1>17 DEF ResetPool, NewProcess, Fail, Unlock, Goto, plugin, procs, sdk
<1>18. ASSUME NEW c \in Resetters, Restarted(c) PROVE Ordered'
  BY <1>0, <1>18 DEF Restarted, Started, Done, Unlock, Goto, plugin, procs, sdk
<1>19. CASE Stop
  BY <1>0, <1>19 DEF Stop, Lock, Goto, plugin, procs, sdk
<1>20. CASE StopRest
  BY <1>0, <1>20 DEF StopRest, Unlock, Goto, plugin, procs, sdk
<1>24. CASE SecondUnlock
  BY <1>0, <1>24 DEF SecondUnlock, Unlock, Goto, plugin, procs, sdk
<1>21. ASSUME NEW pool \in Pools, ProcessExits(pool) PROVE Ordered'
  BY <1>0, <1>21 DEF ProcessExits, NewProcess, plugin, procs, sdk
<1>22. CASE RunCached
  BY <1>0, <1>22 DEF RunCached, plugin, procs, sdk
<1>23. CASE RunEvicted
  BY <1>0, <1>23, Zenon DEF RunEvicted, plugin, procs, sdk
<1> QED
  BY <1>0, <1>1, <1>2, <1>3, <1>4, <1>5, <1>6, <1>7, <1>8, <1>9, <1>10, ZenonT(60),
     <1>11, <1>12, <1>13, <1>14, <1>15, <1>16, <1>17, <1>18, <1>19, <1>20, <1>24,
     <1>21, <1>22, <1>23
  DEF Next, ServeStep, GoroutineStep, ResetStep, Ended, vars, plugin, chans,
      procs, sdk, rest, Calls, Resetters,
      Environment, OtherProcessExits, NoticeTold, TaskTaken

(***************************************************************************)
(* A reset sees no Temporal workers but its own.                           *)
(***************************************************************************)
LEMMA EmptiedStep == PluginInv /\ [Next]_vars /\ ~Broken' => Emptied'
<1> SUFFICES ASSUME PluginInv, [Next]_vars, ~Broken' PROVE Emptied'
  OBVIOUS
<1>0. pc \in [Calls -> Steps] /\ Excluded /\ Ordered /\ Emptied /\ ~Broken /\ ~Broken'
  BY BrokenStays DEF PluginInv, TypeOK
<1> USE DEF Calls, Resetters, Inside, Excluded, Ordered, Emptied
<1>1. CASE UNCHANGED <<pc, workers>>
  BY <1>0, <1>1
<1>2. CASE Serve
  BY <1>0, <1>2, Zenon DEF Serve, Lock, Goto, plugin
<1>3. CASE NewPools
  BY <1>0, <1>3 DEF NewPools, NewProcess, Fail, Unlock, Goto, plugin
<1>4. ASSUME NEW c \in Calls \ {"stop"}, WorkerInfo(c) PROVE Emptied'
  BY <1>0, <1>4 DEF WorkerInfo, TemporalWorkers, Fail, Unlock, Goto, plugin
<1>5. CASE initTemporalClient
  BY <1>0, <1>5 DEF initTemporalClient, TemporalWorkers, Fail, Unlock, Goto, plugin
<1>6. ASSUME NEW c \in Calls \ {"stop"}, StartWorker(c) PROVE Emptied'
  BY <1>0, <1>6 DEF StartWorker, Started, Fail, Unlock, Goto, plugin
<1>7. CASE Serving
  BY <1>0, <1>7 DEF Serving, Started, Fail, Unlock, Goto, plugin
<1>8. CASE EventTaken
  BY <1>0, <1>8 DEF EventTaken, Goto, plugin
<1>9. CASE StopTaken
  BY <1>0, <1>9 DEF StopTaken, Goto, plugin
<1>10. CASE ResetAsked
  BY <1>0, <1>10 DEF ResetAsked, Goto, plugin
<1>11. CASE ResetAP
  BY <1>0, <1>11 DEF ResetAP, Lock, Goto, plugin
<1>12. CASE ResetActivityPool
  BY <1>0, <1>12 DEF ResetActivityPool, NewProcess, Fail, Unlock, Goto, plugin
<1>13. ASSUME NEW c \in Resetters, Reset(c) PROVE Emptied'
  BY <1>0, <1>13 DEF Reset, Lock, Goto, plugin
<1>14. ASSUME NEW c \in Resetters, StopWorkers(c) PROVE Emptied'
  BY <1>0, <1>14 DEF StopWorkers, Goto, plugin
<1>15. ASSUME NEW c \in Resetters, PurgeStickyWorkflowCache(c) PROVE Emptied'
  BY <1>0, <1>15 DEF PurgeStickyWorkflowCache, Goto, plugin
<1>16. ASSUME NEW c \in Resetters, ResetPool(c, "wf", "act") PROVE Emptied'
  BY <1>0, <1>16 DEF ResetPool, NewProcess, Fail, Unlock, Goto, plugin
<1>17. ASSUME NEW c \in Resetters, ResetPool(c, "act", "info") PROVE Emptied'
  BY <1>0, <1>17 DEF ResetPool, NewProcess, Fail, Unlock, Goto, plugin
<1>18. ASSUME NEW c \in Resetters, Restarted(c) PROVE Emptied'
  BY <1>0, <1>18 DEF Restarted, Started, Done, Unlock, Goto, plugin
<1>19. CASE Stop
  BY <1>0, <1>19 DEF Stop, Lock, Goto, plugin
<1>20. CASE StopRest
  BY <1>0, <1>20, ZenonT(60) DEF StopRest, Unlock, Goto, plugin
<1>24. CASE SecondUnlock
  BY <1>0, <1>24 DEF SecondUnlock, Unlock, Goto, Broken
<1> QED
  BY <1>0, <1>1, <1>2, <1>3, <1>4, <1>5, <1>6, <1>7, <1>8, <1>9, <1>10, ZenonT(60),
     <1>11, <1>12, <1>13, <1>14, <1>15, <1>16, <1>17, <1>18, <1>19, <1>20, <1>24
  DEF Next, ServeStep, GoroutineStep, ResetStep, Ended, vars, plugin, chans,
      procs, sdk, rest, Calls, Resetters,
      Environment, ProcessExits, OtherProcessExits, NoticeTold, TaskTaken, RunCached,
      RunEvicted

(***************************************************************************)
(* A Temporal worker that polls is kept, abandoned or being started.       *)
(***************************************************************************)
LEMMA TrackedStep == PluginInv /\ [Next]_vars /\ ~Broken' => Tracked'
<1> SUFFICES ASSUME PluginInv, [Next]_vars, ~Broken' PROVE Tracked'
  OBVIOUS
<1>0. /\ pc \in [Calls -> Steps] /\ building \subseteq Generation(gen)
      /\ Excluded /\ Ordered /\ Emptied /\ Tracked /\ ~Broken /\ ~Broken'
  BY BrokenStays DEF PluginInv, TypeOK
<1> USE DEF Calls, Resetters, Inside, Excluded, Ordered, Emptied, Tracked
<1>1. CASE UNCHANGED <<pc, workers, polling, abandoned, gen>>
  BY <1>0, <1>1
<1>2. CASE Serve
  BY <1>0, <1>2, ZenonT(60) DEF Serve, Lock, Goto, plugin, sdk, rest
<1>3. CASE NewPools
  BY <1>0, <1>3 DEF NewPools, NewProcess, Fail, Unlock, Goto, plugin, sdk, rest
<1>4. ASSUME NEW c \in Calls \ {"stop"}, WorkerInfo(c) PROVE Tracked'
  BY <1>0, <1>4 DEF WorkerInfo, TemporalWorkers, Fail, Unlock, Goto, plugin, sdk, rest
<1>5. CASE initTemporalClient
  BY <1>0, <1>5 DEF initTemporalClient, TemporalWorkers, Fail, Unlock, Goto, plugin, sdk,
     rest
<1>6. ASSUME NEW c \in Calls \ {"stop"}, StartWorker(c) PROVE Tracked'
  <2>1. CASE UNCHANGED <<pc, abandoned>> /\ \E w \in building : polling' = polling \cup {w}
    BY <1>0, <1>6, <2>1 DEF StartWorker
  <2>2. CASE UNCHANGED polling /\ abandoned' = abandoned \cup Started
    BY <1>0, <1>6, <2>2 DEF StartWorker, Started
  <2> QED BY <1>6, <2>1, <2>2 DEF StartWorker
<1>7. CASE Serving
  BY <1>0, <1>7 DEF Serving, Started, Fail, Unlock, Goto, plugin, sdk, rest
<1>8. CASE EventTaken
  BY <1>0, <1>8 DEF EventTaken, Goto, plugin, sdk, rest
<1>9. CASE StopTaken
  BY <1>0, <1>9 DEF StopTaken, Goto, plugin, sdk, rest
<1>10. CASE ResetAsked
  BY <1>0, <1>10 DEF ResetAsked, Goto, plugin, sdk, rest
<1>11. CASE ResetAP
  BY <1>0, <1>11 DEF ResetAP, Lock, Goto, plugin, sdk, rest
<1>12. CASE ResetActivityPool
  BY <1>0, <1>12 DEF ResetActivityPool, NewProcess, Fail, Unlock, Goto, plugin, sdk, rest
<1>13. ASSUME NEW c \in Resetters, Reset(c) PROVE Tracked'
  BY <1>0, <1>13 DEF Reset, Lock, Goto, plugin, sdk, rest
<1>14. ASSUME NEW c \in Resetters, StopWorkers(c) PROVE Tracked'
  BY <1>0, <1>14 DEF StopWorkers, Goto, plugin, sdk, rest
<1>15. ASSUME NEW c \in Resetters, PurgeStickyWorkflowCache(c) PROVE Tracked'
  BY <1>0, <1>15 DEF PurgeStickyWorkflowCache, Goto, plugin, sdk, rest
<1>16. ASSUME NEW c \in Resetters, ResetPool(c, "wf", "act") PROVE Tracked'
  BY <1>0, <1>16 DEF ResetPool, NewProcess, Fail, Unlock, Goto, plugin, sdk, rest
<1>17. ASSUME NEW c \in Resetters, ResetPool(c, "act", "info") PROVE Tracked'
  BY <1>0, <1>17 DEF ResetPool, NewProcess, Fail, Unlock, Goto, plugin, sdk, rest
<1>18. ASSUME NEW c \in Resetters, Restarted(c) PROVE Tracked'
  BY <1>0, <1>18 DEF Restarted, Started, Done, Unlock, Goto, plugin, sdk, rest
<1>19. CASE Stop
  BY <1>0, <1>19 DEF Stop, Lock, Goto, plugin, sdk, rest
<1>20. CASE StopRest
  BY <1>0, <1>20, Zenon DEF StopRest, Unlock, Goto, plugin, sdk, rest
<1>24. CASE SecondUnlock
  BY <1>0, <1>24 DEF SecondUnlock, Unlock, Goto, Broken
<1> QED
  BY <1>0, <1>1, <1>2, <1>3, <1>4, <1>5, <1>6, <1>7, <1>8, <1>9, <1>10, Zenon,
     <1>11, <1>12, <1>13, <1>14, <1>15, <1>16, <1>17, <1>18, <1>19, <1>20, <1>24
  DEF Next, ServeStep, GoroutineStep, ResetStep, Ended, vars, plugin, chans,
      procs, sdk, rest, Calls, Resetters,
      Environment, ProcessExits, OtherProcessExits, NoticeTold, TaskTaken, RunCached,
      RunEvicted

(***************************************************************************)
(* The cache is empty when the workflow pool is replaced.                  *)
(***************************************************************************)
LEMMA CacheStep == PluginInv /\ [Next]_vars /\ ~Broken' => (Purged /\ StaleRunsPurged)'
<1> SUFFICES ASSUME PluginInv, [Next]_vars, ~Broken' PROVE (Purged /\ StaleRunsPurged)'
  OBVIOUS
<1>0. /\ pc \in [Calls -> Steps] /\ worker \in [Pools -> 0 .. MaxPid]
      /\ Excluded /\ Ordered /\ Purged /\ StaleRunsPurged /\ ~Broken /\ ~Broken'
  BY BoundsAssumption, BrokenStays DEF PluginInv, TypeOK
<1> USE DEF Calls, Resetters, Inside, Excluded, Ordered, Purged, StaleRunsPurged, Pools
<1>1. CASE UNCHANGED <<pc, cache, crashed, replaced, worker>>
  BY <1>0, <1>1
<1>2. CASE Serve
  BY <1>0, <1>2, ZenonT(60) DEF Serve, Lock, Goto, procs, sdk, rest
<1>3. CASE NewPools
  BY <1>0, <1>3 DEF NewPools, NewProcess, Fail, Unlock, Goto, procs, sdk, rest
<1>4. ASSUME NEW c \in Calls \ {"stop"}, WorkerInfo(c) PROVE (Purged /\ StaleRunsPurged)'
  BY <1>0, <1>4 DEF WorkerInfo, TemporalWorkers, Fail, Unlock, Goto, procs, sdk, rest
<1>5. CASE initTemporalClient
  BY <1>0, <1>5 DEF initTemporalClient, TemporalWorkers, Fail, Unlock, Goto, procs, sdk,
     rest
<1>6. ASSUME NEW c \in Calls \ {"stop"}, StartWorker(c) PROVE (Purged /\ StaleRunsPurged)'
  BY <1>0, <1>6 DEF StartWorker, Started, Fail, Unlock, Goto, procs, sdk, rest
<1>7. CASE Serving
  BY <1>0, <1>7 DEF Serving, Started, Fail, Unlock, Goto, procs, sdk, rest
<1>8. CASE EventTaken
  BY <1>0, <1>8 DEF EventTaken, Goto, procs, sdk, rest
<1>9. CASE StopTaken
  BY <1>0, <1>9 DEF StopTaken, Goto, procs, sdk, rest
<1>10. CASE ResetAsked
  BY <1>0, <1>10 DEF ResetAsked, Goto, procs, sdk, rest
<1>11. CASE ResetAP
  BY <1>0, <1>11 DEF ResetAP, Lock, Goto, procs, sdk, rest
<1>12. CASE ResetActivityPool
  BY <1>0, <1>12 DEF ResetActivityPool, NewProcess, Fail, Unlock, Goto, procs, sdk, rest
<1>13. ASSUME NEW c \in Resetters, Reset(c) PROVE (Purged /\ StaleRunsPurged)'
  BY <1>0, <1>13 DEF Reset, Lock, Goto, procs, sdk, rest
<1>14. ASSUME NEW c \in Resetters, StopWorkers(c) PROVE (Purged /\ StaleRunsPurged)'
  BY <1>0, <1>14 DEF StopWorkers, Goto, procs, sdk, rest
<1>15. ASSUME NEW c \in Resetters, PurgeStickyWorkflowCache(c) PROVE (Purged /\ StaleRunsPurged)'
  BY <1>0, <1>15 DEF PurgeStickyWorkflowCache, Goto, procs, sdk, rest
<1>16. ASSUME NEW c \in Resetters, ResetPool(c, "wf", "act") PROVE (Purged /\ StaleRunsPurged)'
  BY <1>0, <1>16 DEF ResetPool, NewProcess, Fail, Unlock, Goto, procs, sdk, rest
<1>17. ASSUME NEW c \in Resetters, ResetPool(c, "act", "info") PROVE (Purged /\ StaleRunsPurged)'
  BY <1>0, <1>17 DEF ResetPool, NewProcess, Fail, Unlock, Goto, procs, sdk, rest
<1>18. ASSUME NEW c \in Resetters, Restarted(c) PROVE (Purged /\ StaleRunsPurged)'
  BY <1>0, <1>18 DEF Restarted, Started, Done, Unlock, Goto, procs, sdk, rest
<1>19. CASE Stop
  BY <1>0, <1>19 DEF Stop, Lock, Goto, procs, sdk, rest
<1>20. CASE StopRest
  BY <1>0, <1>20 DEF StopRest, Unlock, Goto, procs, sdk, rest
<1>24. CASE SecondUnlock
  BY <1>0, <1>24 DEF SecondUnlock, Unlock, Goto, Broken
<1>21. ASSUME NEW pool \in Pools, ProcessExits(pool) PROVE (Purged /\ StaleRunsPurged)'
  BY <1>0, <1>21 DEF ProcessExits, NewProcess, procs, sdk, rest
<1>22. CASE RunCached
  BY <1>0, <1>22 DEF RunCached, procs, sdk, rest
<1>23. CASE RunEvicted
  BY <1>0, <1>23, Zenon DEF RunEvicted, procs, sdk, rest
<1> QED
  BY <1>0, <1>1, <1>2, <1>3, <1>4, <1>5, <1>6, <1>7, <1>8, <1>9, <1>10, ZenonT(60),
     <1>11, <1>12, <1>13, <1>14, <1>15, <1>16, <1>17, <1>18, <1>19, <1>20, <1>24,
     <1>21, <1>22, <1>23
  DEF Next, ServeStep, GoroutineStep, ResetStep, Ended, vars, plugin, chans,
      procs, sdk, rest, Calls, Resetters,
      Environment, OtherProcessExits, NoticeTold, TaskTaken

(***************************************************************************)
(* The conjuncts of TypeOK by what disturbs them.                          *)
(***************************************************************************)
ControlTypes ==
    /\ mu \in Calls \cup {"none"}
    /\ pc \in [Calls -> Steps]
    /\ client \in {"nil", "open", "closed"}

PidTypes ==
    /\ wwPID \in 0 .. MaxPid
    /\ events \in {<<>>} \cup {<<p>> : p \in Pids}
    /\ taken \in 0 .. MaxPid
    /\ worker \in [Pools -> 0 .. MaxPid]
    /\ notices \subseteq Pids
    /\ cache \subseteq Pids
    /\ owner \in [Pids -> Pools \cup {"none", "other"}]
    /\ nextPid \in 1 .. MaxPid + 1
    /\ crashed \subseteq Pids
    /\ replaced \in 0 .. MaxPid

ChannelTypes == stopCh \in 0 .. 1 /\ errCh \in 0 .. 1

GenerationTypes ==
    /\ gen \in Nat
    /\ building \subseteq IF gen = 0 THEN {} ELSE Generation(gen)
    /\ \A w \in workers \cup polling \cup abandoned :
          \E g \in 1 .. gen : w \in Generation(g)

FlagTypes == subscribed \in BOOLEAN

CountTypes ==
    incidents \in 0 .. MaxIncidents /\ tasks \in 0 .. MaxTasks

(***************************************************************************)
(* They are TypeOK.                                                        *)
(***************************************************************************)
LEMMA TypesSplit ==
    TypeOK <=> /\ ControlTypes /\ PidTypes /\ ChannelTypes /\ GenerationTypes
               /\ FlagTypes /\ CountTypes
BY Zenon DEF TypeOK, ControlTypes, PidTypes, ChannelTypes, GenerationTypes, FlagTypes,
   CountTypes

(***************************************************************************)
(* The lock, the steps and the client.                                     *)
(***************************************************************************)
LEMMA ControlStep == PluginInv /\ [Next]_vars => ControlTypes'
<1> SUFFICES ASSUME PluginInv, [Next]_vars PROVE ControlTypes'
  OBVIOUS
<1>0. ControlTypes
  BY DEF PluginInv, TypeOK, ControlTypes
<1> USE DEF ControlTypes, Calls, Resetters, Steps
<1>1. CASE UNCHANGED <<mu, pc, client>>
  BY <1>0, <1>1
<1>2. CASE Serve
  BY <1>0, <1>2, ZenonT(60) DEF Serve, Lock, Goto, plugin, rest
<1>3. CASE NewPools
  BY <1>0, <1>3 DEF NewPools, NewProcess, Fail, Unlock, Goto, plugin, rest
<1>4. ASSUME NEW c \in Calls \ {"stop"}, WorkerInfo(c) PROVE ControlTypes'
  BY <1>0, <1>4 DEF WorkerInfo, TemporalWorkers, Fail, Unlock, Goto, plugin, rest
<1>5. CASE initTemporalClient
  BY <1>0, <1>5 DEF initTemporalClient, TemporalWorkers, Fail, Unlock, Goto, plugin, rest
<1>6. ASSUME NEW c \in Calls \ {"stop"}, StartWorker(c) PROVE ControlTypes'
  BY <1>0, <1>6 DEF StartWorker, Started, Fail, Unlock, Goto, plugin, rest
<1>7. CASE Serving
  BY <1>0, <1>7 DEF Serving, Started, Fail, Unlock, Goto, plugin, rest
<1>8. CASE EventTaken
  BY <1>0, <1>8 DEF EventTaken, Goto, plugin, rest
<1>9. CASE StopTaken
  BY <1>0, <1>9 DEF StopTaken, Goto, plugin, rest
<1>10. CASE ResetAsked
  BY <1>0, <1>10 DEF ResetAsked, Goto, plugin, rest
<1>11. CASE ResetAP
  BY <1>0, <1>11 DEF ResetAP, Lock, Goto, plugin, rest
<1>12. CASE ResetActivityPool
  BY <1>0, <1>12 DEF ResetActivityPool, NewProcess, Fail, Unlock, Goto, plugin, rest
<1>13. ASSUME NEW c \in Resetters, Reset(c) PROVE ControlTypes'
  BY <1>0, <1>13 DEF Reset, Lock, Goto, plugin, rest
<1>14. ASSUME NEW c \in Resetters, StopWorkers(c) PROVE ControlTypes'
  BY <1>0, <1>14 DEF StopWorkers, Goto, plugin, rest
<1>15. ASSUME NEW c \in Resetters, PurgeStickyWorkflowCache(c) PROVE ControlTypes'
  BY <1>0, <1>15 DEF PurgeStickyWorkflowCache, Goto, plugin, rest
<1>16. ASSUME NEW c \in Resetters, ResetPool(c, "wf", "act") PROVE ControlTypes'
  BY <1>0, <1>16 DEF ResetPool, NewProcess, Fail, Unlock, Goto, plugin, rest
<1>17. ASSUME NEW c \in Resetters, ResetPool(c, "act", "info") PROVE ControlTypes'
  BY <1>0, <1>17 DEF ResetPool, NewProcess, Fail, Unlock, Goto, plugin, rest
<1>18. ASSUME NEW c \in Resetters, Restarted(c) PROVE ControlTypes'
  BY <1>0, <1>18 DEF Restarted, Started, Done, Unlock, Goto, plugin, rest
<1>19. CASE Stop
  BY <1>0, <1>19 DEF Stop, Lock, Goto, plugin, rest
<1>20. CASE StopRest
  BY <1>0, <1>20, Zenon DEF StopRest, Unlock, Goto, plugin, rest
<1>24. CASE SecondUnlock
  BY <1>0, <1>24 DEF SecondUnlock, Unlock, Goto, plugin, rest
<1> QED
  BY <1>0, <1>1, <1>2, <1>3, <1>4, <1>5, <1>6, <1>7, <1>8, <1>9, <1>10, ZenonT(60),
     <1>11, <1>12, <1>13, <1>14, <1>15, <1>16, <1>17, <1>18, <1>19, <1>20, <1>24
  DEF Next, ServeStep, GoroutineStep, ResetStep, Ended, vars, plugin, chans,
      procs, sdk, rest, Calls, Resetters, Environment, ProcessExits, OtherProcessExits,
      NoticeTold, TaskTaken, RunCached, RunEvicted

(***************************************************************************)
(* Every process the plugin knows of is one that was started.              *)
(***************************************************************************)
LEMMA PidStep == PluginInv /\ [Next]_vars => PidTypes'
<1> SUFFICES ASSUME PluginInv, [Next]_vars PROVE PidTypes'
  OBVIOUS
<1>0. PidTypes /\ MaxPid \in Nat
  BY BoundsAssumption DEF PluginInv, TypeOK, PidTypes
<1> USE DEF PidTypes, Pids, Pools
<1>1. CASE UNCHANGED <<wwPID, events, taken, worker, notices, cache, owner, nextPid, crashed, replaced>>
  BY <1>0, <1>1, Zenon
<1>2. CASE NewPools
  <2>1. UNCHANGED <<wwPID, events, taken, notices, cache, crashed, replaced>>
    BY <1>2 DEF NewPools, chans, sdk
  <2>2. CASE /\ nextPid < MaxPid
             /\ worker' = [act |-> nextPid, wf |-> nextPid + 1]
             /\ owner' = [owner EXCEPT ![nextPid] = "act", ![nextPid + 1] = "wf"]
             /\ nextPid' = nextPid + 2
    <3>1. nextPid' \in 1 .. MaxPid + 1 /\ worker' \in [Pools -> 0 .. MaxPid]
      BY <1>0, <2>2
    <3>2. owner' \in [Pids -> Pools \cup {"none", "other"}]
      BY <1>0, <2>2
    <3> QED BY <1>0, <2>1, <3>1, <3>2
  <2>3. CASE NewProcess("act")
    BY <1>0, <2>1, <2>3 DEF NewProcess
  <2>4. CASE UNCHANGED <<worker, owner, nextPid>>
    BY <1>0, <2>1, <2>4, Zenon
  <2> QED BY <1>2, <2>2, <2>3, <2>4 DEF NewPools
<1>3. CASE Serving
  BY <1>0, <1>3 DEF Serving, Started, Fail, Unlock, Goto, plugin, chans, procs, sdk
<1>4. CASE EventTaken
  <2>1. PICK p \in Pids : events = <<p>>
    BY <1>0, <1>4 DEF EventTaken
  <2>2. taken' = p /\ events' = <<>>
    BY <2>1, <1>4 DEF EventTaken
  <2>3. UNCHANGED <<wwPID, worker, notices, cache, owner, nextPid, crashed, replaced>>
    BY <1>4 DEF EventTaken, procs, sdk
  <2> QED BY <1>0, <2>2, <2>3
<1>5. CASE ResetActivityPool
  <2>1. UNCHANGED <<wwPID, events, notices, cache, crashed, replaced>>
    BY <1>5 DEF ResetActivityPool, chans, sdk
  <2>2. taken' \in 0 .. MaxPid
    BY <1>0, <1>5 DEF ResetActivityPool
  <2>3. CASE NewProcess("act")
    BY <1>0, <2>1, <2>2, <2>3 DEF NewProcess
  <2>4. CASE UNCHANGED <<worker, owner, nextPid>>
    BY <1>0, <2>1, <2>2, <2>4, Zenon
  <2> QED BY <1>5, <2>3, <2>4 DEF ResetActivityPool
<1>6. ASSUME NEW c \in Resetters, PurgeStickyWorkflowCache(c) PROVE PidTypes'
  BY <1>0, <1>6, Zenon DEF PurgeStickyWorkflowCache, Goto, plugin, chans, procs, sdk
<1>7. ASSUME NEW c \in Resetters, ResetPool(c, "wf", "act") PROVE PidTypes'
  BY <1>0, <1>7, SMTT(60) DEF ResetPool, NewProcess, Fail, Unlock, Goto, plugin, chans,
     procs, sdk
<1>8. ASSUME NEW c \in Resetters, ResetPool(c, "act", "info") PROVE PidTypes'
  BY <1>0, <1>8 DEF ResetPool, NewProcess, Fail, Unlock, Goto, plugin, chans, procs, sdk
<1>9. ASSUME NEW pool \in Pools, ProcessExits(pool) PROVE PidTypes'
  <2>1. UNCHANGED <<wwPID, events, taken, cache, replaced>> /\ NewProcess(pool)
    BY <1>9 DEF ProcessExits, plugin, sdk
  <2>2. worker[pool] \in Pids
    BY <1>0, <1>9 DEF ProcessExits
  <2>3. notices' \subseteq Pids /\ crashed' \subseteq Pids
    BY <1>0, <1>9, <2>2, Zenon DEF ProcessExits
  <2>4. /\ worker' \in [Pools -> 0 .. MaxPid] /\ nextPid' \in 1 .. MaxPid + 1
        /\ owner' \in [Pids -> Pools \cup {"none", "other"}]
    BY <1>0, <2>1 DEF NewProcess
  <2> QED BY <1>0, <2>1, <2>3, <2>4, Zenon
<1>10. CASE OtherProcessExits
  BY <1>0, <1>10, SMTT(60) DEF OtherProcessExits, plugin, chans, procs, sdk
<1>11. ASSUME NEW p \in Pids, NoticeTold(p) PROVE PidTypes'
  BY <1>0, <1>11 DEF NoticeTold, plugin, chans, procs, sdk
<1>12. CASE RunCached
  <2>1. worker["wf"] # 0 /\ cache' = cache \cup {worker["wf"]}
    BY <1>12, Zenon DEF RunCached
  <2>2. worker["wf"] \in Pids
    BY ONLY <1>0, <2>1, BoundsAssumption DEF PidTypes, Pids, Pools
  <2>3. UNCHANGED <<wwPID, events, taken, worker, notices, owner, nextPid, crashed, replaced>>
    BY <1>12, Zenon DEF RunCached, plugin, chans, procs
  <2> QED BY <1>0, <2>1, <2>2, <2>3, Zenon
<1>13. CASE RunEvicted
  BY <1>0, <1>13 DEF RunEvicted, plugin, chans, procs, sdk
<1>14. ASSUME NEW c \in Resetters, Restarted(c) PROVE PidTypes'
  <2>1. UNCHANGED <<wwPID, events, worker, notices, cache, owner, nextPid, crashed, replaced>>
    BY <1>14, Zenon DEF Restarted, chans, procs, sdk
  <2>2. taken' \in 0 .. MaxPid
    BY <1>0, <1>14 DEF Restarted
  <2> QED BY <1>0, <2>1, <2>2, Zenon
<1> QED
  BY <1>0, <1>1, <1>2, <1>3, <1>4, <1>5, <1>6, <1>7, <1>8, <1>9, <1>10, ZenonT(60),
     <1>11, <1>12, <1>13, <1>14
  DEF Next, ServeStep, GoroutineStep, ResetStep, Ended, vars, plugin, chans,
      procs, sdk, rest, Calls, Resetters, Serve, WorkerInfo,
      initTemporalClient, StartWorker, StopTaken, ResetAsked, ResetAP,
      Reset, StopWorkers, Stop, StopRest, SecondUnlock, Environment, TaskTaken

(***************************************************************************)
(* Neither channel is sent to when it is full.                             *)
(***************************************************************************)
LEMMA ChannelStep == PluginInv /\ [Next]_vars => ChannelTypes'
<1> SUFFICES ASSUME PluginInv, [Next]_vars PROVE ChannelTypes'
  OBVIOUS
<1>0. ChannelTypes /\ Reported
  BY DEF PluginInv, TypeOK, ChannelTypes
<1> USE DEF ChannelTypes, Reported
<1>1. CASE UNCHANGED <<errCh, stopCh>>
  BY <1>0, <1>1
<1>2. CASE NewPools
  <2>1. CASE Fail("serve")
    BY <1>0, <1>2, <2>1, FailLeaves DEF NewPools, chans, Inside, Calls, Resetters
  <2>2. CASE UNCHANGED <<errCh, stopCh>>
    BY <1>0, <2>2
  <2> QED BY <1>2, <2>1, <2>2 DEF NewPools, chans
<1>3. ASSUME NEW c \in Calls \ {"stop"}, WorkerInfo(c) PROVE ChannelTypes'
  <2>1. CASE Fail(c)
    BY <1>0, <1>3, <2>1, FailLeaves DEF WorkerInfo, chans, Inside, Calls, Resetters
  <2>2. CASE UNCHANGED <<errCh, stopCh>>
    BY <1>0, <2>2
  <2> QED BY <1>3, <2>1, <2>2 DEF WorkerInfo, chans
<1>4. CASE initTemporalClient
  <2>1. CASE Fail("serve")
    BY <1>0, <1>4, <2>1, FailLeaves DEF initTemporalClient, chans, Inside, Calls, Resetters
  <2>2. CASE UNCHANGED <<errCh, stopCh>>
    BY <1>0, <2>2
  <2> QED BY <1>4, <2>1, <2>2 DEF initTemporalClient, chans
<1>5. ASSUME NEW c \in Calls \ {"stop"}, StartWorker(c) PROVE ChannelTypes'
  <2>1. CASE Fail(c)
    BY <1>0, <1>5, <2>1, FailLeaves DEF StartWorker, chans, Inside, Calls, Resetters
  <2>2. CASE UNCHANGED <<errCh, stopCh>>
    BY <1>0, <2>2
  <2> QED BY <1>5, <2>1, <2>2 DEF StartWorker, chans
<1>6. CASE Serving
  <2>1. CASE Fail("serve")
    BY <1>0, <1>6, <2>1, FailLeaves DEF Serving, chans, Inside, Calls, Resetters
  <2>2. CASE UNCHANGED <<errCh, stopCh>>
    BY <1>0, <2>2
  <2> QED BY <1>6, <2>1, <2>2 DEF Serving, chans
<1>7. CASE StopTaken
  BY <1>0, <1>7 DEF StopTaken, Goto, plugin, chans
<1>8. CASE ResetActivityPool
  <2>1. CASE Fail("events")
    BY <1>0, <1>8, <2>1, FailLeaves DEF ResetActivityPool, chans, Inside, Calls, Resetters
  <2>2. CASE UNCHANGED <<errCh, stopCh>>
    BY <1>0, <2>2
  <2> QED BY <1>8, <2>1, <2>2 DEF ResetActivityPool, chans
<1>9. ASSUME NEW c \in Resetters, ResetPool(c, "wf", "act") PROVE ChannelTypes'
  <2>1. CASE Fail(c)
    BY <1>0, <1>9, <2>1, FailLeaves DEF ResetPool, chans, Inside, Calls, Resetters
  <2>2. CASE UNCHANGED <<errCh, stopCh>>
    BY <1>0, <2>2
  <2> QED BY <1>9, <2>1, <2>2 DEF ResetPool, chans
<1>10. ASSUME NEW c \in Resetters, ResetPool(c, "act", "info") PROVE ChannelTypes'
  <2>1. CASE Fail(c)
    BY <1>0, <1>10, <2>1, FailLeaves DEF ResetPool, chans, Inside, Calls, Resetters
  <2>2. CASE UNCHANGED <<errCh, stopCh>>
    BY <1>0, <2>2
  <2> QED BY <1>10, <2>1, <2>2 DEF ResetPool, chans
<1>11. CASE Stop
  BY <1>0, <1>11, SMTT(60) DEF Stop, Lock, Goto, plugin, chans
<1> QED
  BY <1>0, <1>1, <1>2, <1>3, <1>4, <1>5, <1>6, <1>7, <1>8, <1>9, <1>10, ZenonT(60),
     <1>11
  DEF Next, ServeStep, GoroutineStep, ResetStep, Ended, vars, plugin, chans,
      procs, sdk, rest, Calls, Resetters, Serve, EventTaken, ResetAsked,
      ResetAP, Reset, StopWorkers, PurgeStickyWorkflowCache, Restarted,
      StopRest, SecondUnlock, Environment, ProcessExits, OtherProcessExits, NoticeTold, TaskTaken, RunCached,
      RunEvicted

(***************************************************************************)
(* Every Temporal worker belongs to a generation that was made.            *)
(***************************************************************************)
LEMMA GenerationStep == PluginInv /\ [Next]_vars => GenerationTypes'
<1> SUFFICES ASSUME PluginInv, [Next]_vars PROVE GenerationTypes'
  OBVIOUS
<1>0. GenerationTypes
  BY Zenon DEF PluginInv, TypeOK, GenerationTypes
<1> USE DEF GenerationTypes, Generation
<1>1. CASE UNCHANGED <<gen, building, workers, polling, abandoned>>
  BY <1>0, <1>1, ZenonT(60)
<1>a. ASSUME NEW queues, TemporalWorkers(queues), UNCHANGED <<workers, polling, abandoned>>
      PROVE  GenerationTypes'
  <2>1. gen \in Nat /\ gen' = gen + 1
    BY <1>0, <1>a DEF TemporalWorkers
  <2>2. gen' \in Nat /\ gen' # 0 /\ 1 .. gen \subseteq 1 .. gen'
    BY <2>1
  <2>3. building' \subseteq Generation(gen')
    BY <1>a, <2>1, Zenon DEF TemporalWorkers
  <2> QED BY <1>0, <1>a, <2>2, <2>3, Zenon
<1>2. ASSUME NEW c \in Calls \ {"stop"}, WorkerInfo(c) PROVE GenerationTypes'
  <2>1. UNCHANGED <<workers, polling, abandoned>>
    BY <1>2, Zenon DEF WorkerInfo, sdk
  <2> QED BY <1>1, <1>2, <1>a, <2>1, Zenon DEF WorkerInfo
<1>3. CASE initTemporalClient
  <2>1. UNCHANGED <<workers, polling, abandoned>>
    BY <1>3, ZenonT(60) DEF initTemporalClient, sdk
  <2> QED BY <1>1, <1>3, <1>a, <2>1 DEF initTemporalClient
<1>4. ASSUME NEW c \in Calls \ {"stop"}, StartWorker(c) PROVE GenerationTypes'
  <2>1. ASSUME NEW w \in building, polling' = polling \cup {w}, building' = building \ {w},
               UNCHANGED <<workers, abandoned, gen>>
        PROVE  GenerationTypes'
    <3>1. gen # 0
      BY <1>0, <2>1, Zenon DEF GenerationTypes
    <3> QED BY <1>0, <2>1, <3>1
  <2>2. CASE /\ building' = {} /\ abandoned' = abandoned \cup Started
             /\ UNCHANGED <<workers, polling, gen>>
    BY <1>0, <2>2, Zenon DEF Started
  <2> QED BY <1>4, <2>1, <2>2 DEF StartWorker
<1>5. CASE Serving
  BY <1>0, <1>5, Zenon DEF Serving, Started, Fail, Unlock, Goto, plugin, sdk, rest
<1>6. ASSUME NEW c \in Resetters, StopWorkers(c) PROVE GenerationTypes'
  BY <1>0, <1>6, SMTT(60) DEF StopWorkers, Goto, plugin, sdk, rest
<1>7. ASSUME NEW c \in Resetters, Restarted(c) PROVE GenerationTypes'
  BY <1>0, <1>7 DEF Restarted, Started, Done, Unlock, Goto, plugin, sdk, rest
<1>8. CASE StopRest
  <2>1. polling' = polling \ workers /\ UNCHANGED <<workers, building, abandoned, gen>>
    BY ONLY <1>8, Zenon DEF StopRest, rest
  <2> QED BY <1>0, <2>1, Zenon
<1> QED
  BY <1>0, <1>1, <1>2, <1>3, <1>4, <1>5, <1>6, <1>7, <1>8, ZenonT(60) DEF Next, ServeStep,
     GoroutineStep, ResetStep, Ended, vars, plugin, chans,
      procs, sdk, rest, Calls, Resetters, Serve, NewPools, EventTaken,
      StopTaken, ResetAsked, ResetAP, ResetActivityPool, Reset,
      PurgeStickyWorkflowCache, ResetPool, Stop, SecondUnlock, Environment,
      ProcessExits, OtherProcessExits, NoticeTold, TaskTaken, RunCached, RunEvicted

(***************************************************************************)
(* Whether there is a subscription.                                        *)
(***************************************************************************)
LEMMA FlagStep == PluginInv /\ [Next]_vars => FlagTypes'
<1> SUFFICES ASSUME PluginInv, [Next]_vars PROVE FlagTypes'
  OBVIOUS
<1>0. FlagTypes
  BY DEF PluginInv, TypeOK, FlagTypes
<1> USE DEF FlagTypes
<1>1. CASE UNCHANGED <<subscribed>>
  BY <1>0, <1>1
<1>2. CASE Serving
  BY <1>0, <1>2, Zenon DEF Serving, Started, Fail, Unlock, Goto, plugin, chans
<1>3. CASE Stop
  BY <1>0, <1>3, Zenon DEF Stop, Lock, Goto, plugin, chans
<1> QED
  BY <1>0, <1>1, <1>2, <1>3, ZenonT(60) DEF Next, ServeStep, GoroutineStep, ResetStep,
     Ended, vars, plugin, chans,
      procs, sdk, rest, Calls, Resetters, Serve, NewPools, WorkerInfo,
      initTemporalClient, StartWorker, EventTaken, StopTaken, ResetAsked,
      ResetAP, ResetActivityPool, Reset, StopWorkers,
      PurgeStickyWorkflowCache, ResetPool, Restarted, StopRest, SecondUnlock,
      Environment, ProcessExits, OtherProcessExits, NoticeTold, TaskTaken, RunCached,
      RunEvicted

(***************************************************************************)
(* The bounded numbers of incidents and tasks.                             *)
(***************************************************************************)
LEMMA CountStep == PluginInv /\ [Next]_vars => CountTypes'
<1> SUFFICES ASSUME PluginInv, [Next]_vars PROVE CountTypes'
  OBVIOUS
<1>0. CountTypes /\ MaxIncidents \in Nat /\ MaxTasks \in Nat
  BY BoundsAssumption DEF PluginInv, TypeOK, CountTypes
<1> USE DEF CountTypes
<1>1. CASE UNCHANGED <<incidents, tasks>>
  BY <1>0, <1>1
<1>2. CASE ResetAsked
  BY <1>0, <1>2 DEF ResetAsked, Incident, Goto, sdk
<1>3. ASSUME NEW pool \in Pools, ProcessExits(pool) PROVE CountTypes'
  BY <1>0, <1>3 DEF ProcessExits, Incident, sdk
<1>4. CASE OtherProcessExits
  BY <1>0, <1>4 DEF OtherProcessExits, Incident, sdk
<1>5. CASE TaskTaken \/ RunCached
  BY <1>0, <1>5 DEF TaskTaken, RunCached, rest
<1> QED
  BY <1>0, <1>1, <1>2, <1>3, <1>4, <1>5, ZenonT(60) DEF Next, ServeStep, GoroutineStep,
     ResetStep, Ended, vars, plugin, chans,
      procs, sdk, rest, Calls, Resetters, Serve, NewPools, WorkerInfo,
      initTemporalClient, StartWorker, Serving, EventTaken, StopTaken,
      ResetAP, ResetActivityPool, Reset, StopWorkers,
      PurgeStickyWorkflowCache, ResetPool, Restarted, Stop, StopRest, SecondUnlock,
      Environment, NoticeTold, RunEvicted

(***************************************************************************)
(* PluginInv is an invariant.                                              *)
(***************************************************************************)
LEMMA PluginInvariant == Spec => []PluginInv
<1>1. Init => PluginInv
  <2> SUFFICES ASSUME Init PROVE PluginInv
    OBVIOUS
  <2>1. FlagTypes
    BY Zenon DEF Init, FlagTypes
  <2>2. ControlTypes /\ ChannelTypes
    BY DEF Init, ControlTypes, ChannelTypes, Calls, Resetters, Steps
  <2>3. PidTypes /\ GenerationTypes /\ CountTypes
    <3>1. PidTypes
      BY BoundsAssumption DEF Init, PidTypes, Pids, Pools
    <3>2. GenerationTypes
      BY DEF Init, GenerationTypes
    <3>3. CountTypes
      BY BoundsAssumption DEF Init, CountTypes
    <3> QED BY <3>1, <3>2, <3>3
  <2>4. Excluded /\ Ordered /\ Emptied /\ Tracked /\ Purged
    BY DEF Init, Excluded, Ordered, Emptied, Tracked, Purged, Inside, Calls, Resetters,
       Pools
  <2>5. Reported /\ StaleRunsPurged /\ NoSilentEnd
    BY DEF Init, Reported, StaleRunsPurged, NoSilentEnd, Calls, Resetters, Pools
  <2> QED BY <2>1, <2>2, <2>3, <2>4, <2>5, TypesSplit DEF PluginInv
<1>2. PluginInv /\ [Next]_vars => TypeOK'
  <2>1. PluginInv /\ [Next]_vars =>
            /\ ControlTypes' /\ PidTypes' /\ ChannelTypes' /\ GenerationTypes'
            /\ FlagTypes' /\ CountTypes'
    BY ControlStep, PidStep, ChannelStep, GenerationStep, FlagStep, CountStep
  <2>2. TypeOK' <=> /\ ControlTypes' /\ PidTypes' /\ ChannelTypes' /\ GenerationTypes'
                    /\ FlagTypes' /\ CountTypes'
    BY TypesSplit, PTL
  <2> QED BY <2>1, <2>2
<1>3. PluginInv /\ [Next]_vars => PluginInv'
  BY <1>2, ExcludedStep, OrderedStep, EmptiedStep, TrackedStep, CacheStep, ReportedStep
  DEF PluginInv
<1> QED BY <1>1, <1>3, PTL DEF Spec

(***************************************************************************)
(* Types, and that no call ever blocks on a channel while it holds the     *)
(* lock: errCh and stopCh are never sent to when they are full.            *)
(***************************************************************************)
THEOREM PluginTypes == Spec => []TypeOK
<1>1. PluginInv => TypeOK
  BY DEF PluginInv
<1> QED BY <1>1, PluginInvariant, PTL

(***************************************************************************)
(* However resets, exits, failures and Stop interleave, between the calls  *)
(* only Temporal workers the plugin will stop are polling, or those of a   *)
(* start that failed.                                                      *)
(***************************************************************************)
THEOREM OnlyTrackedWorkersPoll == Spec => []OnlyTrackedPoll
<1>1. PluginInv => OnlyTrackedPoll
  <2> SUFFICES ASSUME PluginInv, mu = "none", ~Broken PROVE polling \subseteq workers \cup abandoned
    BY DEF OnlyTrackedPoll
  <2>1. \A c \in Calls : pc[c] # "start"
    BY DEF PluginInv, Excluded, Inside, Calls, Resetters
  <2> QED BY <2>1 DEF PluginInv, Tracked
<1> QED BY <1>1, PluginInvariant, PTL

(***************************************************************************)
(* For any number of resets, exits, failures, tasks in flight and task     *)
(* queues, a cached run lives in the workflow pool's process, in the one   *)
(* the last reset replaced, or in one that exited since the last purge.    *)
(***************************************************************************)
THEOREM StaleRunsArePurged == Spec => []StaleRunsPurged
<1>1. PluginInv => StaleRunsPurged
  BY DEF PluginInv, StaleRunsPurged
<1> QED BY <1>1, PluginInvariant, PTL

(***************************************************************************)
(* The goroutine that answers exits never ends without Stop or an error on *)
(* the channel Serve returned.                                             *)
(***************************************************************************)
THEOREM NoEndIsSilent == Spec => []NoSilentEnd
<1>1. PluginInv => NoSilentEnd
  BY DEF PluginInv
<1> QED BY <1>1, PluginInvariant, PTL
=============================================================================

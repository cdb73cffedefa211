----------------------------- MODULE ResetLock ------------------------------
(***************************************************************************)
(* Heartbeats and resets meet at Plugin.mu.  Reset and ResetAP (plugin.go) *)
(* hold it while the activity pool waits for its busy workers; an activity *)
(* that reports a heartbeat (RecordActivityHeartbeat, rpc.go) keeps its    *)
(* worker busy while it waits for the lock, twice in a row.  Each waits    *)
(* for the other until the pool gives up after 30 seconds.  RemoveWorker   *)
(* (workers_manager.go) holds it for reading while it waits for a worker   *)
(* that is free, so that a reset that has asked for the lock can make all  *)
(* three wait in a ring.  AddWorker, Workers and the lists of names only   *)
(* read.                                                                   *)
(*                                                                         *)
(* External: sync.RWMutex, where a writer that has announced itself keeps  *)
(* new readers out, gets in when the readers that are in have left, and    *)
(* on leaving lets in the readers that wait; the activity pool, whose      *)
(* Reset hands out no worker, replaces them all once they are free, and    *)
(* when its context expires kills those that are not, and whose            *)
(* RemoveWorker waits for a free worker until its context expires; the     *)
(* activity, which need not ever end.                                      *)
(***************************************************************************)
EXTENDS Naturals

CONSTANTS
    Workers,     \* the activity workers
    Managers,    \* the calls that manage or list workers
    Resetters    \* the calls of Reset and ResetAP

VARIABLES
    announced,   \* the reset that holds p.mu or waits for its readers
    reading,     \* the calls that hold p.mu for reading
    reset,       \* where each reset is
    activity,    \* what each activity worker does
    heartbeat,   \* where the heartbeat call of each worker is
    manage       \* what each managing call does

vars == <<announced, reading, reset, activity, heartbeat, manage>>

Init ==
    /\ announced = "none"
    /\ reading = {}
    /\ reset = [c \in Resetters |-> "idle"]
    /\ activity = [w \in Workers |-> "free"]
    /\ heartbeat = [w \in Workers |-> "none"]
    /\ manage = [m \in Managers |-> "none"]

Resetting == \E c \in Resetters : reset[c] = "pool"

-----------------------------------------------------------------------------
(***************************************************************************)
(* The activity: it is taken on and ends; while it waits for the answer to *)
(* a heartbeat it does nothing else.  A worker that was killed leaves its  *)
(* call behind, and the next one makes none before that is answered.       *)
(***************************************************************************)
TaskTaken(w) ==
    /\ activity[w] = "free"
    /\ ~Resetting
    /\ activity' = [activity EXCEPT ![w] = "busy"]
    /\ UNCHANGED <<announced, reading, reset, heartbeat, manage>>

TaskEnds(w) ==
    /\ activity[w] = "busy"
    /\ activity' = [activity EXCEPT ![w] = "free"]
    /\ UNCHANGED <<announced, reading, reset, heartbeat, manage>>

Heartbeat(w) ==
    /\ activity[w] = "busy"
    /\ heartbeat[w] = "none"
    /\ activity' = [activity EXCEPT ![w] = "waits"]
    /\ heartbeat' = [heartbeat EXCEPT ![w] = "getActDef"]
    /\ UNCHANGED <<announced, reading, reset, manage>>

(***************************************************************************)
(* RecordActivityHeartbeat: the definition is looked up under the lock,    *)
(* then the context of the activity, under the lock again.                 *)
(***************************************************************************)
Readers ==
    {w \in Workers : heartbeat[w] # "none"} \cup {m \in Managers : manage[m] # "none"}

RLock(r) ==
    /\ r \in Readers \ reading
    /\ announced = "none"
    /\ reading' = reading \cup {r}
    /\ UNCHANGED <<announced, reset, activity, heartbeat, manage>>

(* Mutant: the lock is still held when it is asked for again. *)
DefinitionKept(w) ==
    /\ heartbeat[w] = "getActDef"
    /\ w \in reading
    /\ \/ /\ announced = "none"
          /\ heartbeat' = [heartbeat EXCEPT ![w] = "GetActivityContext"]
       \/ /\ announced # "none"
          /\ UNCHANGED heartbeat
    /\ UNCHANGED <<announced, reading, reset, activity, manage>>

getActDef(w) ==
    /\ heartbeat[w] = "getActDef"
    /\ w \in reading
    /\ reading' = reading \ {w}
    /\ heartbeat' = [heartbeat EXCEPT ![w] = "GetActivityContext"]
    /\ UNCHANGED <<announced, reset, activity, manage>>

GetActivityContext(w) ==
    /\ heartbeat[w] = "GetActivityContext"
    /\ w \in reading
    /\ reading' = reading \ {w}
    /\ heartbeat' = [heartbeat EXCEPT ![w] = "none"]
    /\ activity' = [activity EXCEPT ![w] = IF @ = "waits" THEN "busy" ELSE @]
    /\ UNCHANGED <<announced, reset, manage>>

-----------------------------------------------------------------------------
(***************************************************************************)
(* The calls on the pools, each under the lock for reading until it        *)
(* returns.                                                                *)
(***************************************************************************)
Managed(m, call) ==
    /\ manage[m] = "none"
    /\ manage' = [manage EXCEPT ![m] = call]
    /\ UNCHANGED <<announced, reading, reset, activity, heartbeat>>

RUnlock(m, call) ==
    /\ manage[m] = call
    /\ m \in reading
    /\ reading' = reading \ {m}
    /\ manage' = [manage EXCEPT ![m] = "none"]
    /\ UNCHANGED <<announced, reset, heartbeat>>

AddWorker(m) ==
    /\ RUnlock(m, "AddWorker")
    /\ \/ \E w \in Workers :
             /\ activity[w] = "removed"
             /\ activity' = [activity EXCEPT ![w] = "free"]
       \/ UNCHANGED activity

RemoveWorker(m) ==
    /\ RUnlock(m, "RemoveWorker")
    /\ \E w \in Workers :
          /\ activity[w] = "free"
          /\ activity' = [activity EXCEPT ![w] = "removed"]

(***************************************************************************)
(* The pool gives up waiting for a free worker: the context is the         *)
(* caller's, and it is the caller who has it expire (external).            *)
(***************************************************************************)
RemoveTimeout(m) ==
    /\ RUnlock(m, "RemoveWorker")
    /\ UNCHANGED activity

GetNames(m) ==
    /\ RUnlock(m, "GetNames")
    /\ UNCHANGED activity

-----------------------------------------------------------------------------
(***************************************************************************)
(* A reset: the lock, the pool, the unlock by defer.                       *)
(***************************************************************************)
ResetAsked(c) ==
    /\ reset[c] = "idle"
    /\ reset' = [reset EXCEPT ![c] = "asked"]
    /\ UNCHANGED <<announced, reading, activity, heartbeat, manage>>

Announce(c) ==
    /\ reset[c] = "asked"
    /\ announced = "none"
    /\ announced' = c
    /\ reset' = [reset EXCEPT ![c] = "lock"]
    /\ UNCHANGED <<reading, activity, heartbeat, manage>>

Lock(c) ==
    /\ reset[c] = "lock"
    /\ reading = {}
    /\ reset' = [reset EXCEPT ![c] = "pool"]
    /\ UNCHANGED <<announced, reading, activity, heartbeat, manage>>

Unlock(c) ==
    /\ announced' = "none"
    /\ reading' = Readers
    /\ reset' = [reset EXCEPT ![c] = "idle"]
    /\ UNCHANGED <<heartbeat, manage>>

PoolReset(c) ==
    /\ reset[c] = "pool"
    /\ \A w \in Workers : activity[w] \in {"free", "removed"}
    /\ Unlock(c)
    /\ UNCHANGED activity

(* Mutant: the pool waits without a timeout. *)
NoTimeout(c) == reset[c] = "pool" /\ UNCHANGED vars

(***************************************************************************)
(* The context of 30 seconds expires: the workers still busy are killed.   *)
(***************************************************************************)
PoolTimeout(c) ==
    /\ reset[c] = "pool"
    /\ \E w \in Workers : activity[w] \notin {"free", "removed"}
    /\ activity' = [w \in Workers |->
                       IF activity[w] = "removed" THEN "removed" ELSE "free"]
    /\ Unlock(c)

-----------------------------------------------------------------------------
CallStep(w) ==
    \/ RLock(w)
    \/ getActDef(w)
    \/ GetActivityContext(w)

ManagerStep(m) ==
    RLock(m) \/ AddWorker(m) \/ RemoveWorker(m) \/ RemoveTimeout(m) \/ GetNames(m)

Next ==
    \/ \E m \in Managers, call \in {"AddWorker", "RemoveWorker", "GetNames"} :
          Managed(m, call)
    \/ \E m \in Managers : ManagerStep(m)
    \/ \E w \in Workers : TaskTaken(w) \/ TaskEnds(w) \/ Heartbeat(w) \/ CallStep(w)
    \/ \E c \in Resetters :
          ResetAsked(c) \/ Announce(c) \/ Lock(c) \/ PoolReset(c) \/ PoolTimeout(c)

(***************************************************************************)
(* The goroutines of the calls keep running and a mutex is handed to       *)
(* whoever waits for it.  The context of a reset expires; that the one     *)
(* RemoveWorker is called with does too is assumed of its caller.  Nothing *)
(* is assumed of the activities.                                           *)
(***************************************************************************)
FairSpec ==
    /\ Init
    /\ [][Next]_vars
    /\ \A w \in Workers : SF_vars(CallStep(w))
    /\ \A m \in Managers : SF_vars(ManagerStep(m))
    /\ \A c \in Resetters :
          SF_vars(Announce(c)) /\ WF_vars(Lock(c)) /\ WF_vars(PoolReset(c) \/ PoolTimeout(c))

-----------------------------------------------------------------------------
(***************************************************************************)
(* A reset comes to an end, also when activities report heartbeats while   *)
(* it waits for them or a call waits for a free worker, as long as its     *)
(* caller lets it, and when the activities never end.                      *)
(***************************************************************************)
ResetEnds ==
    \A c \in Resetters : reset[c] = "asked" ~> reset[c] = "idle"

(***************************************************************************)
(* A heartbeat is answered, also when resets keep the lock between its two *)
(* looks at the plugin.                                                    *)
(***************************************************************************)
HeartbeatAnswered ==
    \A w \in Workers : heartbeat[w] # "none" ~> heartbeat[w] = "none"
=============================================================================

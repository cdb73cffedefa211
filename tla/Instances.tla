----------------------------- MODULE Instances ------------------------------
(***************************************************************************)
(* The runs of one plugin share one workflow process, which keeps an       *)
(* instance per Workflow object it was sent StartWorkflow for and finds it *)
(* by the rrID stamped on every message.  The SDK makes an object when it  *)
(* has none cached for a run, evicts objects from its cache (when the run  *)
(* ends, its task panics, the cache is full or Reset purges it), and       *)
(* closes an evicted object once its task is over, in a goroutine of its   *)
(* own: by then there may be another object for the same run.  Close tells *)
(* the process to destroy the instance and does not look at what comes of  *)
(* it, so an instance may stay behind.                                     *)
(*                                                                         *)
(* External: the process, the pool that replaces it, the sticky cache.     *)
(***************************************************************************)
EXTENDS Naturals

CONSTANTS
    Runs,        \* the workflow runs
    MaxObjects,  \* bound: Workflow objects made
    MaxProcess   \* bound: workflow processes

ASSUME BoundsAssumption == MaxObjects \in Nat /\ MaxProcess \in Nat

Objects == 1 .. MaxObjects

VARIABLES
    made,        \* how many objects NewWorkflowDefinition has made
    rrID,        \* Workflow.rrID of each object, 0 if it is not made
    runOf,       \* the run of each object
    state,       \* what has become of each object
    process,     \* the current workflow process
    instances,   \* the rrIDs it has an instance for
    purging,     \* Reset: the cache is purged, the process not yet replaced
    livesIn      \* history: the process that started the object's instance

vars == <<made, rrID, runOf, state, process, instances, purging, livesIn>>

Init ==
    /\ made = 0
    /\ rrID = [o \in Objects |-> 0]
    /\ runOf = [o \in Objects |-> "none"]
    /\ state = [o \in Objects |-> "none"]
    /\ process = 1
    /\ instances = {}
    /\ purging = FALSE
    /\ livesIn = [o \in Objects |-> 0]

Cached(r) == {o \in Objects : runOf[o] = r /\ state[o] \in {"new", "started"}}

-----------------------------------------------------------------------------
(* Mutant: the object takes over the identifier of the run's last object. *)
DefinitionReuses(r) ==
    /\ made < MaxObjects
    /\ Cached(r) = {}
    /\ made' = made + 1
    /\ \E id \in {made + 1} \cup {rrID[o] : o \in {q \in Objects : runOf[q] = r}} :
          rrID' = [rrID EXCEPT ![made + 1] = id]
    /\ runOf' = [runOf EXCEPT ![made + 1] = r]
    /\ state' = [state EXCEPT ![made + 1] = "new"]
    /\ UNCHANGED <<process, instances, purging, livesIn>>

(***************************************************************************)
(* The factory: every object gets a fresh rrID.  Execute follows at once.  *)
(***************************************************************************)
NewWorkflowDefinition(r) ==
    /\ made < MaxObjects
    /\ Cached(r) = {}
    /\ made' = made + 1
    /\ rrID' = [rrID EXCEPT ![made + 1] = made + 1]
    /\ runOf' = [runOf EXCEPT ![made + 1] = r]
    /\ state' = [state EXCEPT ![made + 1] = "new"]
    /\ UNCHANGED <<process, instances, purging, livesIn>>

(***************************************************************************)
(* The first task of an object: StartWorkflow is sent.  When the exchange  *)
(* fails the task panics, whether or not the process has acted on it.  The *)
(* object of a task in flight may have left the cache meanwhile.           *)
(***************************************************************************)
FirstTask(o) ==
    /\ state[o] \in {"new", "leaving"}
    /\ \/ /\ instances' = instances \cup {rrID[o]}
          /\ livesIn' = [livesIn EXCEPT ![o] = process]
          /\ state' = [state EXCEPT ![o] = IF @ = "new" THEN "started" ELSE "evicted"]
       \/ /\ instances' \in {instances, instances \cup {rrID[o]}}
          /\ state' = [state EXCEPT ![o] = "evicted"]
          /\ UNCHANGED livesIn
    /\ UNCHANGED <<made, rrID, runOf, process, purging>>

Evicted(s) ==
    CASE s = "new" -> "leaving"
      [] s = "started" -> "evicted"
      [] OTHER -> s

(***************************************************************************)
(* The object leaves the cache: its run has ended, a later task panicked,  *)
(* or room was needed.                                                     *)
(***************************************************************************)
Evict(o) ==
    /\ state[o] \in {"new", "started"}
    /\ state' = [state EXCEPT ![o] = Evicted(@)]
    /\ UNCHANGED <<made, rrID, runOf, process, instances, purging, livesIn>>

(* Mutant: the instance to destroy is named by its run. *)
CloseRun(o) ==
    /\ state[o] = "evicted"
    /\ state' = [state EXCEPT ![o] = "closed"]
    /\ instances' = instances \ {rrID[q] : q \in {p \in Objects : runOf[p] = runOf[o]}}
    /\ UNCHANGED <<made, rrID, runOf, process, purging, livesIn>>

(***************************************************************************)
(* Close: DestroyWorkflow is sent with the object's rrID.  A process that  *)
(* has no such instance answers with an error, and the exchange may fail.  *)
(***************************************************************************)
Close(o) ==
    /\ state[o] = "evicted"
    /\ state' = [state EXCEPT ![o] = "closed"]
    /\ instances' \in {instances, instances \ {rrID[o]}}
    /\ UNCHANGED <<made, rrID, runOf, process, purging, livesIn>>

-----------------------------------------------------------------------------
ProcessReplaced ==
    /\ process < MaxProcess
    /\ process' = process + 1
    /\ instances' = {}

(***************************************************************************)
(* The process exits by itself, with objects still cached.                 *)
(***************************************************************************)
ProcessExits ==
    /\ ProcessReplaced
    /\ UNCHANGED <<made, rrID, runOf, state, purging, livesIn>>

(***************************************************************************)
(* Reset: the cache is purged, then the pool replaces the process; tasks   *)
(* in flight go on meanwhile.                                              *)
(***************************************************************************)
PurgeStickyWorkflowCache ==
    /\ ~purging
    /\ purging' = TRUE
    /\ state' = [o \in Objects |-> Evicted(state[o])]
    /\ UNCHANGED <<made, rrID, runOf, process, instances, livesIn>>

ResetPool ==
    /\ purging
    /\ ProcessReplaced
    /\ purging' = FALSE
    /\ UNCHANGED <<made, rrID, runOf, state, livesIn>>

Next ==
    \/ \E r \in Runs : NewWorkflowDefinition(r)
    \/ \E o \in Objects : FirstTask(o) \/ Evict(o) \/ Close(o)
    \/ ProcessExits \/ PurgeStickyWorkflowCache \/ ResetPool

Spec == Init /\ [][Next]_vars

-----------------------------------------------------------------------------
TypeOK ==
    /\ made \in 0 .. MaxObjects
    /\ rrID \in [Objects -> 0 .. MaxObjects]
    /\ runOf \in [Objects -> Runs \cup {"none"}]
    /\ state \in [Objects -> {"none", "new", "leaving", "started", "evicted", "closed"}]
    /\ process \in Nat
    /\ instances \subseteq Objects
    /\ purging \in BOOLEAN
    /\ livesIn \in [Objects -> Nat]

(***************************************************************************)
(* A run keeps its instance: an object that is not closed and was started  *)
(* in the current process finds its instance there.  The late Close of an  *)
(* older object of the same run destroys that object's instance only.      *)
(***************************************************************************)
InstanceKept ==
    \A o \in Objects :
        livesIn[o] = process /\ state[o] # "closed" => rrID[o] \in instances

(***************************************************************************)
(* An instance that stayed behind, because a Close did not get through, is *)
(* never taken for another's: the process has no instance yet under the    *)
(* rrID of an object whose StartWorkflow is still to be sent, be it the    *)
(* next object of the same run.                                            *)
(***************************************************************************)
LeftoverHarmless ==
    \A o \in Objects : state[o] \in {"new", "leaving"} => rrID[o] \notin instances
=============================================================================

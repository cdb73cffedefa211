-------------------------- MODULE InstancesProofs ---------------------------
(***************************************************************************)
(* The instances of the shared workflow process, for any number of runs,   *)
(* objects and processes.                                                  *)
(*                                                                         *)
(* InstanceKept and LeftoverHarmless are not inductive by themselves: that *)
(* a Close removes no other object's instance, and that a leftover has no  *)
(* new object's rrID, rests on identifiers being fresh; that a replaced    *)
(* process leaves nothing to keep rests on no object living in a process   *)
(* still to come.                                                          *)
(***************************************************************************)
EXTENDS Instances, TLAPS

(***************************************************************************)
(* Objects are made in order and have rrIDs of their own.                  *)
(***************************************************************************)
Fresh ==
    /\ \A o \in Objects : o <= made => rrID[o] = o /\ state[o] # "none"
    /\ \A o \in Objects : o > made => state[o] = "none"

Lives ==
    /\ process > 0
    /\ \A o \in Objects : livesIn[o] <= process
    /\ \A o \in Objects : state[o] \in {"none", "new", "leaving"} => livesIn[o] = 0

(***************************************************************************)
(* Every instance is that of an object past its first task.                *)
(***************************************************************************)
Settled == \A id \in instances : state[id] \notin {"none", "new", "leaving"}

InstancesInv == TypeOK /\ Fresh /\ Lives /\ Settled /\ InstanceKept

(***************************************************************************)
(* Initially there is nothing.                                             *)
(***************************************************************************)
LEMMA InstancesInit == Init => InstancesInv
<1> SUFFICES ASSUME Init PROVE InstancesInv
  OBVIOUS
<1> USE BoundsAssumption DEF Init, Objects
<1>1. TypeOK
  <2>1. purging \in BOOLEAN
    BY ONLY Init, Zenon DEF Init
  <2> QED BY <2>1 DEF TypeOK
<1>2. Fresh /\ Lives /\ Settled
  BY DEF Fresh, Lives, Settled
<1>3. InstanceKept
  BY DEF InstanceKept
<1> QED BY <1>1, <1>2, <1>3 DEF InstancesInv

(***************************************************************************)
(* Every step of the factory, a task, an eviction, Close, an exit and a    *)
(* reset keeps the invariant.                                              *)
(***************************************************************************)
LEMMA InstancesStep == InstancesInv /\ [Next]_vars => InstancesInv'
<1> SUFFICES ASSUME InstancesInv, [Next]_vars PROVE InstancesInv'
  OBVIOUS
<1> USE BoundsAssumption DEF InstancesInv, TypeOK, Fresh, Lives, Settled,
                             InstanceKept, Objects
<1>1. ASSUME NEW r \in Runs, NewWorkflowDefinition(r) PROVE InstancesInv'
  <2>1. TypeOK'
    BY <1>1, SMTT(60) DEF NewWorkflowDefinition
  <2>2. Fresh'
    BY <1>1 DEF NewWorkflowDefinition
  <2>3. Lives' /\ Settled'
    BY <1>1 DEF NewWorkflowDefinition
  <2>4. InstanceKept'
    BY <1>1 DEF NewWorkflowDefinition
  <2> QED BY <2>1, <2>2, <2>3, <2>4, Zenon
<1>2. ASSUME NEW o \in Objects, FirstTask(o) PROVE InstancesInv'
  <2>1. o <= made /\ rrID[o] = o /\ state[o] \in {"new", "leaving"} /\ livesIn[o] = 0
    BY <1>2 DEF FirstTask
  <2>2. UNCHANGED <<made, rrID, runOf, process, purging>>
    BY <1>2 DEF FirstTask
  <2>3. CASE /\ instances' = instances \cup {rrID[o]}
             /\ livesIn' = [livesIn EXCEPT ![o] = process]
             /\ state' = [state EXCEPT ![o] = IF @ = "new" THEN "started" ELSE "evicted"]
    <3>1. TypeOK'
      BY <2>1, <2>2, <2>3
    <3>2. Fresh' /\ Lives' /\ Settled'
      BY <2>1, <2>2, <2>3
    <3>3. InstanceKept'
      BY <2>1, <2>2, <2>3
    <3> QED BY <3>1, <3>2, <3>3, Zenon
  <2>4. CASE /\ instances' \in {instances, instances \cup {rrID[o]}}
             /\ state' = [state EXCEPT ![o] = "evicted"]
             /\ UNCHANGED livesIn
    <3>1. TypeOK'
      BY <2>1, <2>2, <2>4, SMTT(60)
    <3>2. Fresh' /\ Lives' /\ Settled'
      BY <2>1, <2>2, <2>4
    <3>3. InstanceKept'
      BY <2>1, <2>2, <2>4
    <3> QED BY <3>1, <3>2, <3>3
  <2> QED BY <1>2, <2>3, <2>4, Zenon DEF FirstTask
<1>3. ASSUME NEW o \in Objects, Evict(o) PROVE InstancesInv'
  <2>1. state'[o] \in {"leaving", "evicted"} /\ (state[o] = "new" <=> state'[o] = "leaving")
    BY <1>3 DEF Evict, Evicted
  <2>2. /\ state' = [state EXCEPT ![o] = state'[o]] /\ state[o] \in {"new", "started"}
        /\ UNCHANGED <<made, rrID, runOf, process, instances, purging, livesIn>>
    BY <1>3 DEF Evict
  <2>3. TypeOK' /\ Fresh' /\ Lives'
    <3>1. state \in [Objects -> {"none", "new", "leaving", "started", "evicted", "closed"}]
      BY Zenon
    <3>2. state' \in [Objects -> {"none", "new", "leaving", "started", "evicted", "closed"}]
      BY ONLY <1>3, <2>1, <2>2, <3>1
    <3>3. TypeOK'
      BY <2>2, <3>2, Zenon
    <3>4. \A q \in Objects : q # o => state'[q] = state[q]
      BY ONLY <1>3, <2>2, <3>1
    <3>5. Fresh'
      BY <2>1, <2>2, <3>4, SMTT(60)
    <3>6. Lives'
      BY <2>1, <2>2, <3>4, SMTT(60)
    <3> QED BY <3>3, <3>5, <3>6, Zenon
  <2>4. Settled' /\ InstanceKept'
    BY <2>1, <2>2
  <2> QED BY <2>3, <2>4, Zenon
<1>4. ASSUME NEW o \in Objects, Close(o) PROVE InstancesInv'
  <2>1. o <= made /\ rrID[o] = o
    BY <1>4 DEF Close
  <2>2. TypeOK' /\ Fresh' /\ Lives' /\ Settled'
    BY <1>4, <2>1, ZenonT(60) DEF Close
  <2>3. \A q \in Objects : livesIn[q] = process => q <= made
    OBVIOUS
  <2>4. InstanceKept'
    BY <1>4, <2>1, <2>3 DEF Close
  <2> QED BY <2>2, <2>4, Zenon
<1>5. ASSUME ProcessExits \/ ResetPool PROVE InstancesInv'
  <2>1. /\ process' = process + 1 /\ instances' = {}
        /\ UNCHANGED <<made, rrID, runOf, state, livesIn>>
    BY <1>5 DEF ProcessExits, ResetPool, ProcessReplaced
  <2>2. purging' \in BOOLEAN
    BY <1>5, Zenon DEF ProcessExits, ResetPool
  <2> QED BY <2>1, <2>2
<1>6. ASSUME PurgeStickyWorkflowCache PROVE InstancesInv'
  <2>1. purging' \in BOOLEAN
    BY ONLY <1>6 DEF PurgeStickyWorkflowCache
  <2>2. /\ state' = [q \in Objects |-> Evicted(state[q])]
        /\ UNCHANGED <<made, rrID, runOf, process, instances, livesIn>>
    BY <1>6 DEF PurgeStickyWorkflowCache
  <2>3. TypeOK' /\ Fresh' /\ Lives'
    BY <2>1, <2>2 DEF Evicted
  <2>4. Settled' /\ InstanceKept'
    BY <2>2 DEF Evicted
  <2> QED BY <2>3, <2>4, Zenon
<1>7. ASSUME UNCHANGED vars PROVE InstancesInv'
  BY <1>7 DEF vars
<1> QED BY <1>1, <1>2, <1>3, <1>4, <1>5, <1>6, <1>7, Zenon DEF Next

(***************************************************************************)
(* In every run of the plugin an object that was started in the current    *)
(* workflow process keeps its instance until it is closed itself, however  *)
(* late the objects before it are closed.                                  *)
(***************************************************************************)
THEOREM InstancesAreKept == Spec => []InstanceKept
<1>1. InstancesInv => InstanceKept
  BY DEF InstancesInv
<1> QED BY InstancesInit, InstancesStep, <1>1, PTL DEF Spec

(***************************************************************************)
(* In every run of the plugin an instance a Close left behind is never     *)
(* found by an object made later, for its own run or for another.          *)
(***************************************************************************)
THEOREM LeftoversAreHarmless == Spec => []LeftoverHarmless
<1>1. InstancesInv => LeftoverHarmless
  BY DEF InstancesInv, TypeOK, Fresh, Settled, LeftoverHarmless, Objects
<1> QED BY InstancesInit, InstancesStep, <1>1, PTL DEF Spec
=============================================================================

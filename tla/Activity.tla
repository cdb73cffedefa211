------------------------------ MODULE Activity ------------------------------
(***************************************************************************)
(* Activity attempts on the activity pool (aggregatedpool/activity.go),    *)
(* local activities on the workflow pool (local_activity.go), and the      *)
(* heartbeats activities record by RPC (rpc.go).                           *)
(*                                                                         *)
(* The Temporal SDK (external) runs each attempt in a goroutine of its     *)
(* own and recovers its panics.  A pool (external) gives an attempt one of *)
(* its workers for as long as it executes.  Anyone who has the token of an *)
(* attempt may send a heartbeat for it.                                    *)
(***************************************************************************)
EXTENDS Naturals, FiniteSets

CONSTANTS
    Tokens,      \* activity attempts, by task token
    Locals,      \* local activity attempts
    PoolSize,    \* workers of the activity pool
    Detailed,    \* attempts that carry heartbeat details of the one before
    NoInput      \* attempts whose arguments are nil

ASSUME AttemptsAssumption ==
    /\ Tokens \cap Locals = {}
    /\ Detailed \subseteq Tokens
    /\ NoInput \subseteq Tokens \cup Locals
ASSUME PoolAssumption == PoolSize \in Nat \ {0}

VARIABLES
    pc,         \* where each attempt is
    running,    \* Activity.running: the tokens it has a context for
    reply,      \* what Exec gave each attempt
    outcome,    \* what execute returned for each attempt
    heartbeat   \* for each token, where the heartbeat being recorded is

vars == <<pc, running, reply, outcome, heartbeat>>

Attempts == Tokens \cup Locals

(***************************************************************************)
(* What Exec may leave: one message, no frame, or what execute turns into  *)
(* an error (an error or stream frame, a body that does not decode, any    *)
(* other number of messages than one).                                     *)
(***************************************************************************)
Messages == {"result", "failure", "doNotCompleteOnReturn"}
Failures == {"error", "no frame"}

TypeOK ==
    /\ pc \in [Attempts -> {"new", "stored", "exec", "worker", "replied", "returned"}]
    /\ running \subseteq Tokens
    /\ reply \in [Attempts -> Messages \cup Failures \cup {"none"}]
    /\ outcome \in [Attempts -> {"none", "result", "failure", "error", "panic",
                                 "ErrResultPending"}]
    /\ heartbeat \in [Tokens -> {"none", "found"}]

Init ==
    /\ pc = [a \in Attempts |-> "new"]
    /\ running = {}
    /\ reply = [a \in Attempts |-> "none"]
    /\ outcome = [a \in Attempts |-> "none"]
    /\ heartbeat = [t \in Tokens |-> "none"]

-----------------------------------------------------------------------------
Return(a, value) ==
    /\ pc' = [pc EXCEPT ![a] = "returned"]
    /\ outcome' = [outcome EXCEPT ![a] = value]

(***************************************************************************)
(* The heartbeat details of the attempt before are read, which may fail;   *)
(* then the context of the activity is stored under its token.             *)
(***************************************************************************)
execute(a) ==
    /\ a \in Tokens
    /\ pc[a] = "new"
    /\ \/ /\ pc' = [pc EXCEPT ![a] = "stored"]
          /\ running' = running \cup {a}
          /\ UNCHANGED outcome
       \/ /\ a \in Detailed
          /\ Return(a, "error")
          /\ UNCHANGED running
    /\ UNCHANGED <<reply, heartbeat>>

(* Mutant: the token made up for a local activity is stored. *)
StoreLocal(a) ==
    /\ a \in Locals
    /\ pc[a] = "new"
    /\ pc' = [pc EXCEPT ![a] = "stored"]
    /\ running' = running \cup {a}
    /\ UNCHANGED <<reply, outcome, heartbeat>>

(***************************************************************************)
(* A local activity reads no details and stores nothing.                   *)
(***************************************************************************)
executeLocal(a) ==
    /\ a \in Locals
    /\ pc[a] = "new"
    /\ pc' = [pc EXCEPT ![a] = "stored"]
    /\ UNCHANGED <<running, reply, outcome, heartbeat>>

(* Mutant: the context is removed when the message is on its way. *)
EncodeDiscards(a) ==
    /\ pc[a] = "stored"
    /\ pc' = [pc EXCEPT ![a] = "exec"]
    /\ running' = running \ {a}
    /\ UNCHANGED <<reply, outcome, heartbeat>>

(***************************************************************************)
(* The message is built and encoded.  Details are appended to arguments    *)
(* that must not be nil; Encode may fail.  Neither failure removes the     *)
(* stored context.                                                         *)
(***************************************************************************)
Encode(a) ==
    /\ pc[a] = "stored"
    /\ \/ /\ a \notin Detailed \cap NoInput
          /\ pc' = [pc EXCEPT ![a] = "exec"]
          /\ UNCHANGED outcome
       \/ /\ a \notin Detailed \cap NoInput
          /\ Return(a, "error")
       \/ /\ a \in Detailed \cap NoInput
          /\ Return(a, "panic")
    /\ UNCHANGED <<running, reply, heartbeat>>

(***************************************************************************)
(* The pool gives the attempt a free worker.  The workflow pool has one.   *)
(***************************************************************************)
InWorker(attempts) == {a \in attempts : pc[a] = "worker"}

PoolTakes(a) ==
    /\ pc[a] = "exec"
    /\ a \in Tokens => Cardinality(InWorker(Tokens)) < PoolSize
    /\ a \in Locals => InWorker(Locals) = {}
    /\ pc' = [pc EXCEPT ![a] = "worker"]
    /\ UNCHANGED <<running, reply, outcome, heartbeat>>

(***************************************************************************)
(* Exec returns: with what the worker sent, or with an error because the   *)
(* worker died, no worker came free in time or the context is done.        *)
(***************************************************************************)
ExecReturns(a) ==
    /\ \/ pc[a] = "worker" /\ \E r \in Messages \cup Failures : reply' = [reply EXCEPT ![a] = r]
       \/ pc[a] = "exec" /\ reply' = [reply EXCEPT ![a] = "error"]
    /\ pc' = [pc EXCEPT ![a] = "replied"]
    /\ UNCHANGED <<running, outcome, heartbeat>>

Verdict(r) ==
    CASE r = "result" -> "result"
      [] r = "failure" -> "failure"
      [] r = "doNotCompleteOnReturn" -> "ErrResultPending"
      [] OTHER -> "error"

(* Mutant: the context is removed only when Exec gave no error. *)
KeepOnError(a) ==
    /\ pc[a] = "replied"
    /\ running' = IF reply[a] = "error" THEN running ELSE running \ {a}
    /\ Return(a, Verdict(reply[a]))
    /\ UNCHANGED <<reply, heartbeat>>

(* Mutant: the reply is waited for when Exec left none. *)
DeliverBlocks(a) ==
    /\ pc[a] = "replied"
    /\ reply[a] # "no frame"
    /\ running' = running \ {a}
    /\ Return(a, Verdict(reply[a]))
    /\ UNCHANGED <<reply, heartbeat>>

(***************************************************************************)
(* After Exec, whatever it gave, the context is removed before the reply   *)
(* is looked at.                                                           *)
(***************************************************************************)
Deliver(a) ==
    /\ pc[a] = "replied"
    /\ running' = running \ {a}
    /\ Return(a, Verdict(reply[a]))
    /\ UNCHANGED <<reply, heartbeat>>

(***************************************************************************)
(* RecordActivityHeartbeat finds the context under the plugin's read lock, *)
(* or refuses the heartbeat, which changes nothing; it records it, and     *)
(* tells whether the context is done, after the lock is released.          *)
(***************************************************************************)
RecordActivityHeartbeat(t) ==
    /\ heartbeat[t] = "none"
    /\ t \in running
    /\ heartbeat' = [heartbeat EXCEPT ![t] = "found"]
    /\ UNCHANGED <<pc, running, reply, outcome>>

RecordHeartbeat(t) ==
    /\ heartbeat[t] = "found"
    /\ heartbeat' = [heartbeat EXCEPT ![t] = "none"]
    /\ UNCHANGED <<pc, running, reply, outcome>>

-----------------------------------------------------------------------------
AttemptStep(a) == Encode(a) \/ PoolTakes(a) \/ ExecReturns(a) \/ Deliver(a)

AllReturned ==
    /\ \A a \in Attempts : pc[a] = "returned"
    /\ UNCHANGED vars

Next ==
    \/ \E a \in Attempts : execute(a) \/ executeLocal(a) \/ AttemptStep(a)
    \/ \E t \in Tokens : RecordActivityHeartbeat(t) \/ RecordHeartbeat(t)
    \/ AllReturned

Spec == Init /\ [][Next]_vars

(***************************************************************************)
(* The goroutine of an attempt keeps running, and Exec returns: a pool     *)
(* gives up allocating a worker after its allocate timeout, and an attempt *)
(* whose context is done is given an error.                                *)
(***************************************************************************)
FairSpec == Spec /\ \A a \in Attempts : WF_vars(AttemptStep(a))

-----------------------------------------------------------------------------
(***************************************************************************)
(* The heartbeats of an activity a worker may be executing are recorded:   *)
(* its context is there from before Exec until Exec has returned, so that  *)
(* "heartbeat on non running activity" is never its answer.                *)
(***************************************************************************)
HeartbeatServed ==
    \A t \in Tokens : pc[t] \in {"exec", "worker", "replied"} => t \in running

(***************************************************************************)
(* The context of an attempt that has returned stays only when the attempt *)
(* never came to Exec, and the attempt then failed: a message that could   *)
(* not be built or encoded.  Every other way out of execute removes it.    *)
(***************************************************************************)
LeftBehindUnsent ==
    \A t \in running :
        pc[t] = "returned" => reply[t] = "none" /\ outcome[t] \in {"error", "panic"}

(***************************************************************************)
(* A heartbeat is recorded only for an activity that is running, as the    *)
(* answer "heartbeat on non running activity" says: no attempt that has    *)
(* returned has a context to be found.                                     *)
(***************************************************************************)
OnlyRunningFound ==
    \A t \in running : pc[t] # "returned"

(***************************************************************************)
(* Every attempt the SDK starts gets an outcome, also when the attempts    *)
(* outnumber the workers and workers die.                                  *)
(***************************************************************************)
AttemptReturns ==
    \A a \in Attempts : pc[a] # "new" ~> pc[a] = "returned"
=============================================================================

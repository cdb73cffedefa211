--------------------------- MODULE ActivityProofs ---------------------------
(***************************************************************************)
(* Heartbeats reach every activity that is being executed, and a context   *)
(* outlives its attempt only when the attempt was never sent.              *)
(***************************************************************************)
EXTENDS Activity, TLAPS

(***************************************************************************)
(* Encode relies on what execute stored, and a context left behind on the  *)
(* attempt having no reply: the inductive invariant adds both.             *)
(***************************************************************************)
Stored ==
    \A t \in Tokens : pc[t] \in {"stored", "exec", "worker", "replied"} => t \in running

Unsent ==
    \A a \in Attempts : pc[a] \in {"new", "stored", "exec", "worker"} => reply[a] = "none"

RunningInv == TypeOK /\ Stored /\ Unsent /\ LeftBehindUnsent

(***************************************************************************)
(* Every verdict on a reply is an outcome of execute.                      *)
(***************************************************************************)
LEMMA VerdictType ==
    \A r : Verdict(r) \in {"result", "failure", "ErrResultPending", "error"}
BY DEF Verdict

(***************************************************************************)
(* Every step of an attempt and of a heartbeat keeps RunningInv.           *)
(***************************************************************************)
LEMMA RunningInvStep == RunningInv /\ [Next]_vars => RunningInv'
<1> SUFFICES ASSUME RunningInv, [Next]_vars PROVE RunningInv'
  OBVIOUS
<1> USE DEF RunningInv, TypeOK, Stored, Unsent, LeftBehindUnsent, Attempts
<1>1. CASE UNCHANGED vars
  BY <1>1 DEF vars
<1>2. ASSUME NEW a \in Attempts, execute(a) PROVE RunningInv'
  BY <1>2 DEF execute, Return
<1>9. ASSUME NEW a \in Attempts, executeLocal(a) PROVE RunningInv'
  BY <1>9, AttemptsAssumption DEF executeLocal
<1>3. ASSUME NEW a \in Attempts, Encode(a) PROVE RunningInv'
  BY <1>3 DEF Encode, Return
<1>4. ASSUME NEW a \in Attempts, PoolTakes(a) PROVE RunningInv'
  BY <1>4 DEF PoolTakes
<1>5. ASSUME NEW a \in Attempts, ExecReturns(a) PROVE RunningInv'
  <2>1. PICK r \in Messages \cup Failures : reply' = [reply EXCEPT ![a] = r]
    BY <1>5, Zenon DEF ExecReturns, Failures
  <2>2. /\ pc[a] \in {"worker", "exec"}
        /\ pc' = [pc EXCEPT ![a] = "replied"]
        /\ UNCHANGED <<running, outcome, heartbeat>>
    BY <1>5 DEF ExecReturns
  <2> QED BY <2>1, <2>2
<1>6. ASSUME NEW a \in Attempts, Deliver(a) PROVE RunningInv'
  BY <1>6, VerdictType DEF Deliver, Return
<1>7. ASSUME NEW t \in Tokens, RecordActivityHeartbeat(t) \/ RecordHeartbeat(t)
      PROVE  RunningInv'
  BY <1>7 DEF RecordActivityHeartbeat, RecordHeartbeat
<1>8. CASE AllReturned
  BY <1>1, <1>8 DEF AllReturned
<1> QED BY <1>1, <1>2, <1>3, <1>4, <1>5, <1>6, <1>7, <1>8, <1>9
       DEF Next, AttemptStep

(***************************************************************************)
(* RunningInv is an invariant.                                             *)
(***************************************************************************)
LEMMA RunningInvariant == Spec => []RunningInv
<1>1. Init => RunningInv
  BY DEF Init, RunningInv, TypeOK, Stored, Unsent, LeftBehindUnsent, Attempts
<1> QED BY <1>1, RunningInvStep, PTL DEF Spec

(***************************************************************************)
(* The state of the activities stays within its types: only attempts with  *)
(* a task token have a context, and execute returns only what Temporal     *)
(* understands or panics.                                                  *)
(***************************************************************************)
THEOREM ActivityTypes == Spec => []TypeOK
<1>1. RunningInv => TypeOK
  BY DEF RunningInv
<1> QED BY <1>1, RunningInvariant, PTL

(***************************************************************************)
(* Whatever the number of attempts and workers, and however replies and    *)
(* heartbeats interleave, no heartbeat of an activity between Exec and its *)
(* return is refused.                                                      *)
(***************************************************************************)
THEOREM HeartbeatsServed == Spec => []HeartbeatServed
<1>1. RunningInv => HeartbeatServed
  BY DEF RunningInv, Stored, HeartbeatServed
<1> QED BY <1>1, RunningInvariant, PTL

(***************************************************************************)
(* Once Exec was reached, every way out of execute removes the context.    *)
(***************************************************************************)
THEOREM LeftBehindOnlyUnsent == Spec => []LeftBehindUnsent
<1>1. RunningInv => LeftBehindUnsent
  BY DEF RunningInv
<1> QED BY <1>1, RunningInvariant, PTL
=============================================================================

--------------------------- MODULE WorkflowSafety ---------------------------
(***************************************************************************)
(* More theorems about one workflow run, for every repertoire of the       *)
(* worker, set of updates and bound: no answer is lost, a Cancel command   *)
(* finds only operations that can still be cancelled and a task leaves no  *)
(* answer behind but those made in the loop without a flush; every update  *)
(* is settled; StartWorkflow is sent first; the run implements the ledger  *)
(* of the worker's commands, which accounts for all of them and has them   *)
(* handled in order; the listeners of a child that started are answered.   *)
(***************************************************************************)
EXTENDS WorkflowProofs

-----------------------------------------------------------------------------
(***************************************************************************)
(* No answer is lost.                                                      *)
(***************************************************************************)

(***************************************************************************)
(* The loop flag is set, and no callback waits, during a task only.        *)
(***************************************************************************)
Looping ==
    /\ (inLoop = 1) <=> (pc \in TaskSteps)
    /\ pc \in TaskSteps => callbacks = <<>>

(***************************************************************************)
(* Between tasks an operation that has finished keeps its cancellation     *)
(* until its callback is run.                                              *)
(***************************************************************************)
Cancels == canceller \subseteq pending \cup early \cup Waiting

(***************************************************************************)
(* After the first flush of a task, answers that are not early are queued  *)
(* only while a Cancel command is being handled, which ends in a flush.    *)
(***************************************************************************)
Cancelling == pipeline # <<>> /\ msg.cmd = "Cancel"

Leftovers ==
    /\ pc = "new" => mq = <<>>
    /\ pc \in {"idle", "updates"} => Queued \subseteq early
    /\ pc = "pipeline" /\ ~Cancelling => Queued \subseteq early

KeptInv == TypeOK /\ Looping /\ NoAnswerLost /\ Cancels /\ Leftovers

-----------------------------------------------------------------------------
(***************************************************************************)
(* The invariant of this module holds of every run.                        *)
(***************************************************************************)
LEMMA KeptAlways == Spec => []KeptInv
(***************************************************************************)
(* A flush that does not panic delivers all that was queued.               *)
(***************************************************************************)
<1>FlushDelivers.
    ASSUME NEW queue, NEW rest, NEW next, NEW kept,
           flushQueue(queue, rest, next, kept)
    PROVE  \/ pc' = "panicked" /\ inLoop' = 0
           \/ /\ pc' = next /\ inLoop' = inLoop /\ Queued' = {}
              /\ delivered' = delivered \cup AnsweredIn(queue)
  <2> USE <1>FlushDelivers
  <2>1. CASE queue = <<>> /\ mq' = queue /\ pc' = next /\ UNCHANGED <<inLoop, delivered>>
    BY <2>1, AnsweredInEmpty DEF Queued
  <2>2. CASE Receive(queue) /\ mq' = <<>> /\ pc' = next /\ UNCHANGED inLoop
    BY <2>2, AnsweredInEmpty DEF Queued, Receive
  <2>3. CASE Panic
    BY <2>3 DEF Panic
  <2> QED BY <2>1, <2>2, <2>3 DEF flushQueue

(***************************************************************************)
(* A callback made in the loop queues its answer.                          *)
(***************************************************************************)
<1>CallbackInLoop.
    ASSUME TypeOK, NEW id \in Ids, NEW registered, inLoop = 1,
           createCallback(id, registered)
    PROVE  /\ Queued' = Queued \cup {id} /\ Waiting' = Waiting
           /\ callbacks' = callbacks
           /\ canceller' = (canceller \ {id}) \cup registered
  <2> USE <1>CallbackInLoop
  <2>1. mq \in Seq(HostMessage(Ids))
    BY TypeFacts
  <2>2. mq' = Append(mq, Answer(id)) /\ callbacks' = callbacks
        /\ canceller' = (canceller \ {id}) \cup registered
    BY DEF createCallback
  <2> QED BY <2>1, <2>2, AnsweredInAppendAnswer DEF Queued, Waiting

(***************************************************************************)
(* A callback made between tasks waits.                                    *)
(***************************************************************************)
<1>CallbackBetween.
    ASSUME TypeOK, NEW id \in Ids, inLoop # 1, createCallback(id, {})
    PROVE  Queued' = Queued /\ Waiting' = Waiting \cup {id} /\ canceller' = canceller
  <2> USE <1>CallbackBetween
  <2>1. callbacks \in Seq(Ids)
    BY TypeFacts
  <2>2. callbacks' = Append(callbacks, id) /\ canceller' = canceller /\ mq' = mq
    BY DEF createCallback
  <2> QED BY <2>1, <2>2, RangeAppend DEF Queued, Waiting

(***************************************************************************)
(* A message of the loop that is answered and flushed.                     *)
(***************************************************************************)
<1>AnswerFlushed.
    ASSUME KeptInv, TypeOK', pc = "pipeline", pipeline # <<>>, NEW kept,
           flushQueue(Append(mq, Answer(msg.id)), Tail(pipeline), "pipeline", kept),
           owed' = owed \cup {msg.id}, canceller' \subseteq canceller,
           UNCHANGED <<callbacks, pending, early>>
    PROVE  KeptInv'
  <2> USE <1>AnswerFlushed
  <2>1. msg.id \in Ids /\ mq \in Seq(HostMessage(Ids))
    BY HandledMessage, TypeFacts DEF KeptInv
  <2>2. AnsweredIn(Append(mq, Answer(msg.id))) = Queued \cup {msg.id}
    BY <2>1, AnsweredInAppendAnswer DEF Queued
  <2>3. Waiting' = Waiting
    BY DEF Waiting
  <2>4. \/ pc' = "panicked" /\ inLoop' = 0
        \/ /\ pc' = "pipeline" /\ inLoop' = inLoop /\ Queued' = {}
           /\ delivered' = delivered \cup Queued \cup {msg.id}
    BY <2>2, <1>FlushDelivers
  <2> QED BY <2>3, <2>4 DEF KeptInv, Looping, NoAnswerLost, Cancels, Leftovers, Alive,
             TaskSteps

(***************************************************************************)
(* A message that is answered without a flush.                             *)
(***************************************************************************)
<1>AnswerQueued.
    ASSUME KeptInv, TypeOK', pc = "pipeline", ~Cancelling,
           Queued' = Queued \cup {msg.id}, early' = early \cup {msg.id},
           owed' \subseteq owed \cup {msg.id},
           canceller' \subseteq canceller \cup {msg.id},
           UNCHANGED <<pc, inLoop, callbacks, pending, delivered>>
    PROVE  KeptInv'
  <2> USE <1>AnswerQueued
  <2>1. Waiting' = Waiting
    BY DEF Waiting
  <2> QED BY <2>1 DEF KeptInv, Looping, NoAnswerLost, Cancels, Leftovers, Alive, TaskSteps

(***************************************************************************)
(* A message that is left to the SDK, or not to be answered.               *)
(***************************************************************************)
<1>AnswerLeft.
    ASSUME KeptInv, TypeOK', pc = "pipeline", ~Cancelling,
           owed' \subseteq owed \cup pending', pending \subseteq pending',
           canceller' \subseteq canceller \cup pending',
           (pc' = "pipeline" /\ inLoop' = inLoop) \/ (pc' = "panicked" /\ inLoop' = 0),
           UNCHANGED <<mq, callbacks, delivered, early>>
    PROVE  KeptInv'
  <2> USE <1>AnswerLeft
  <2>1. Waiting' = Waiting /\ Queued' = Queued
    BY DEF Waiting, Queued
  <2> QED BY <2>1 DEF KeptInv, Looping, NoAnswerLost, Cancels, Leftovers, Alive, TaskSteps

(***************************************************************************)
(* Every message of the pipeline is handled without losing an answer.      *)
(***************************************************************************)
<1>HandleMessageKept.
    ASSUME KeptInv, TypeOK', HandleMessage
    PROVE  KeptInv'
  <2> USE <1>HandleMessageKept
  <2> USE DEF process, sdk, history
  <2>0. pipeline # <<>> /\ pc = "pipeline"
    BY Zenon DEF HandleMessage, SkipResponse, ExecuteOperation,
       ExecuteChildWorkflow, GetChildWorkflowExecution, GetVersion,
       SideEffect, CompleteWorkflow, UpsertWorkflowSearchAttributes,
       CancelNext, CancelDone, FailMessage, Handling
  <2>1. /\ TypeOK /\ msg.id \in Ids /\ msg.ids \in Seq(Ids) /\ inLoop = 1
        /\ callbacks = <<>> /\ Waiting = {}
    BY <2>0, HandledMessage DEF KeptInv, Looping, TaskSteps, Waiting, Range
  <2>2. mq \in Seq(HostMessage(Ids))
    BY <2>1, TypeFacts
  <2>3. CASE SkipResponse \/ UpsertWorkflowSearchAttributes
    <3>1. ~Cancelling
      BY <2>3 DEF SkipResponse, UpsertWorkflowSearchAttributes, Handling, Cancelling, msg,
         NoCommand
    <3>2. /\ pc' = "pipeline" /\ inLoop' = inLoop
          /\ UNCHANGED <<mq, callbacks, canceller, pending, owed, delivered, early>>
      BY <2>0, <2>3 DEF SkipResponse, UpsertWorkflowSearchAttributes
    <3>3. /\ owed' \subseteq owed \cup pending' /\ pending \subseteq pending'
          /\ canceller' \subseteq canceller \cup pending'
      BY <3>2
    <3> QED BY <2>0, <3>1, <3>2, <3>3, <1>AnswerLeft
  <2>4. ASSUME NEW registered \in SUBSET {msg.id}, OperationTaken(registered), ~Cancelling,
               owed' = owed \cup {msg.id}, UNCHANGED <<pc, inLoop, delivered>>
        PROVE  KeptInv'
    <3>1. /\ pc' = "pipeline" /\ inLoop' = inLoop
          /\ UNCHANGED <<mq, callbacks, delivered, early>>
      BY <2>0, <2>4 DEF OperationTaken
    <3>2. /\ owed' \subseteq owed \cup pending' /\ pending \subseteq pending'
          /\ canceller' \subseteq canceller \cup pending'
      BY <2>4 DEF OperationTaken
    <3> QED BY <2>0, <2>4, <3>1, <3>2, <1>AnswerLeft
  <2>5. ASSUME NEW registered \in SUBSET {msg.id}, OperationCalledBack(registered), ~Cancelling,
               owed' = owed \cup {msg.id}, UNCHANGED <<pc, inLoop, delivered>>
        PROVE  KeptInv'
    <3>1. /\ Queued' = Queued \cup {msg.id} /\ callbacks' = callbacks
          /\ canceller' = (canceller \ {msg.id}) \cup registered
      BY <2>1, <2>5, <1>CallbackInLoop DEF OperationCalledBack
    <3> QED BY <2>0, <2>5, <3>1, <1>AnswerQueued DEF OperationCalledBack
  <2>6. CASE ExecuteOperation
    <3>1. ~Cancelling
      BY <2>6 DEF ExecuteOperation, Handling, Cancelling, msg, Cancellable, External
    <3> QED BY <2>4, <2>5, <2>6, <3>1 DEF ExecuteOperation
  <2>7. CASE ExecuteChildWorkflow
    <3>1. ~Cancelling
      BY <2>7 DEF ExecuteChildWorkflow, Handling, Cancelling, msg
    <3> QED BY <2>4, <2>5, <2>7, <3>1 DEF ExecuteChildWorkflow
  <2>8. CASE GetChildWorkflowExecution
    <3>1. ~Cancelling
      BY <2>8 DEF GetChildWorkflowExecution, Handling, Cancelling, msg
    <3>2. UNCHANGED <<delivered, owed, pending>>
      BY <2>8 DEF GetChildWorkflowExecution
    <3>3. CASE createCallback(msg.id, {}) /\ early' = early \cup {msg.id} /\ UNCHANGED <<pc, inLoop>>
      <4>1. /\ Queued' = Queued \cup {msg.id} /\ callbacks' = callbacks
            /\ canceller' = (canceller \ {msg.id}) \cup {}
        BY <2>1, <3>3, <1>CallbackInLoop
      <4> QED BY <2>0, <3>1, <3>2, <3>3, <4>1, <1>AnswerQueued
    <3>4. CASE UNCHANGED <<mq, callbacks, canceller, early>> /\ (Panic \/ UNCHANGED <<pc, inLoop>>)
      <4>1. (pc' = "pipeline" /\ inLoop' = inLoop) \/ (pc' = "panicked" /\ inLoop' = 0)
        BY <2>0, <3>4 DEF Panic
      <4>2. /\ owed' \subseteq owed \cup pending' /\ pending \subseteq pending'
            /\ canceller' \subseteq canceller \cup pending'
        BY <3>2, <3>4
      <4> QED BY <2>0, <3>1, <3>2, <3>4, <4>1, <4>2, <1>AnswerLeft, Zenon
    <3> QED BY <2>8, <3>3, <3>4 DEF GetChildWorkflowExecution
  <2>9. CASE GetVersion \/ CancelDone
    BY <2>0, <2>9, <1>AnswerFlushed DEF GetVersion, CancelDone
  <2>10. CASE SideEffect
    <3>1. ~Cancelling
      BY <2>10 DEF SideEffect, Handling, Cancelling, msg
    <3>2. /\ owed' = owed \cup {msg.id} /\ canceller' = canceller \ {msg.id}
          /\ UNCHANGED <<callbacks, pending>>
      BY <2>10 DEF SideEffect
    <3>3. CASE /\ mq' = Append(mq, Answer(msg.id)) /\ early' = early \cup {msg.id}
               /\ UNCHANGED <<pc, inLoop, delivered>>
      <4>1. Queued' = Queued \cup {msg.id}
        BY <2>1, <2>2, <3>3, AnsweredInAppendAnswer DEF Queued
      <4> QED BY <2>0, <3>1, <3>2, <3>3, <4>1, <1>AnswerQueued
    <3>4. CASE /\ flushQueue(Append(mq, Answer(msg.id)), Tail(pipeline), "pipeline", Tail(pipeline))
               /\ UNCHANGED early
      BY <2>0, <3>2, <3>4, <1>AnswerFlushed, Zenon
    <3> QED BY <2>10, <3>3, <3>4 DEF SideEffect
  <2>11. CASE CompleteWorkflow
    <3>1. ~Cancelling
      BY <2>11 DEF CompleteWorkflow, Handling, Cancelling, msg, Completing
    <3>2. Queued' = Queued \cup {msg.id}
      BY <2>1, <2>2, <2>11, AnsweredInAppendAnswer, Zenon DEF CompleteWorkflow, Queued
    <3> QED BY <2>0, <2>11, <3>1, <3>2, <1>AnswerQueued, Zenon DEF CompleteWorkflow
  <2>12. CASE CancelNext
    <3> DEFINE id == Head(msg.ids)
    <3>1. /\ UNCHANGED <<pc, inLoop, delivered, owed, early>>
          /\ pipeline' = <<[msg EXCEPT !.ids = Tail(@)]>> \o Tail(pipeline)
          /\ msg.ids # <<>> /\ msg.cmd = "Cancel"
      BY <2>12 DEF CancelNext, Handling, msg
    <3>2. id \in Ids
      BY <2>1, <3>1, SMTT(60)
    <3>3. Cancelling'
      <4>1. /\ msg \in WorkerMessage(Ids) /\ Tail(pipeline) \in Seq(WorkerMessage(Ids))
        BY <2>0, <2>1, HandledMessage
      <4>2. pipeline' # <<>> /\ Head(pipeline') = [msg EXCEPT !.ids = Tail(@)]
        BY <3>1, <4>1
      <4>3. Head(pipeline').cmd = "Cancel"
        BY <3>1, <4>1, <4>2, Zenon DEF WorkerMessage
      <4> QED BY <4>2, <4>3 DEF Cancelling, msg
    <3>4. CASE canceller' = canceller \ {id} /\ UNCHANGED <<mq, callbacks, pending>>
      <4>1. Queued' = Queued /\ Waiting' = Waiting
        BY <3>4 DEF Queued, Waiting
      <4> QED BY <2>0, <3>1, <3>3, <3>4, <4>1
              DEF KeptInv, Looping, NoAnswerLost, Cancels, Leftovers, Alive, TaskSteps
    <3>5. CASE createCallback(id, {}) /\ pending' = pending \ {id}
      <4>1. /\ Queued' = Queued \cup {id} /\ Waiting' = Waiting /\ callbacks' = callbacks
            /\ canceller' = (canceller \ {id}) \cup {}
        BY <2>1, <3>2, <3>5, <1>CallbackInLoop, Zenon
      <4> QED BY <2>0, <3>1, <3>3, <3>5, <4>1, Zenon DEF KeptInv, Looping, NoAnswerLost,
                 Cancels, Leftovers, Alive, TaskSteps
    <3> QED BY <2>12, <3>4, <3>5, Zenon DEF CancelNext
  <2>13. CASE FailMessage
    <3>1. ~Cancelling
      BY <2>13 DEF FailMessage, Handling, Cancelling, msg, HostCommands
    <3> QED BY <2>0, <2>13, <3>1, <1>AnswerLeft DEF FailMessage, Panic
  <2> QED BY <2>3, <2>6, <2>7, <2>8, <2>9, <2>10, <2>11, <2>12, <2>13, ZenonT(60)
             DEF HandleMessage

(***************************************************************************)
(* The other steps keep the invariant: only OnWorkflowTaskStarted moves    *)
(* waiting answers to the queue, and only a flush takes them off it.       *)
(***************************************************************************)
<1>KeptStep. KeptInv /\ [Next]_vars => KeptInv'
  <2> SUFFICES ASSUME KeptInv, [Next]_vars PROVE KeptInv'
    OBVIOUS
  <2>0. TypeOK /\ TypeOK'
    BY TypeOKStep, Zenon DEF KeptInv
  <2>a. mq \in Seq(HostMessage(Ids)) /\ callbacks \in Seq(Ids) /\ inLoop \in {0, 1}
    BY <2>0, TypeFacts, Zenon
  <2> USE DEF process, sdk, history
  <2>1. CASE Execute
    <3>1. <<>> \in Seq(HostMessage(Ids)) /\ "StartWorkflow" \in HostCommands
      BY DEF HostCommands
    <3>2. Queued' = {} /\ Queued = {} /\ Waiting' = Waiting
      BY <2>1, <3>1, AnsweredInAppendCommand, AnsweredInEmpty, Zenon
         DEF Execute, Queued, Waiting, KeptInv, Leftovers
    <3> QED BY <2>0, <2>1, <3>2, Zenon DEF Execute, KeptInv, Looping, NoAnswerLost,
               Cancels, Leftovers, Alive,
            TaskSteps
  <2>2. CASE handleSignal \/ handleCancel
    <3>1. "InvokeSignal" \in HostCommands /\ "CancelWorkflow" \in HostCommands
      BY DEF HostCommands
    <3>2. Queued' = Queued /\ Waiting' = Waiting
      BY <2>a, <2>2, <3>1, AnsweredInAppendCommand, Zenon DEF handleSignal, handleCancel,
         Queued, Waiting
    <3>3. UNCHANGED <<pc, inLoop, callbacks, canceller, pending, owed, delivered, early>> /\ pc = "idle"
      BY <2>2, Zenon DEF handleSignal, handleCancel, Running
    <3> QED BY <2>0, <3>2, <3>3, Zenon DEF KeptInv, Looping, NoAnswerLost, Cancels,
               Leftovers, Alive, TaskSteps
  <2>3. CASE (\E u \in Updates : handleUpdate(u)) \/ handleQuery \/ StackTrace
    <3>1. /\ UNCHANGED <<pc, inLoop, mq, callbacks, canceller, pending, owed, delivered, early>>
          /\ pc = "idle"
      BY <2>3 DEF handleUpdate, handleQuery, StackTrace, Running
    <3>2. Queued' = Queued /\ Waiting' = Waiting
      BY <3>1, Zenon DEF Queued, Waiting
    <3> QED BY <2>0, <3>1, <3>2, ZenonT(60) DEF KeptInv, Looping, NoAnswerLost, Cancels,
               Leftovers, Alive, TaskSteps
  <2>4. ASSUME NEW id \in Ids, OperationDone(id) PROVE KeptInv'
    <3>1. /\ UNCHANGED <<pc, inLoop, owed, delivered, early>> /\ pc = "idle"
          /\ pending' = pending \ {id} /\ createCallback(id, {})
      BY <2>4 DEF OperationDone, Running
    <3>2. inLoop # 1
      BY <3>1 DEF KeptInv, Looping, TaskSteps
    <3>3. Queued' = Queued /\ Waiting' = Waiting \cup {id} /\ canceller' = canceller
      BY <2>0, <3>1, <3>2, <1>CallbackBetween, Zenon
    <3> QED BY <2>0, <3>1, <3>2, <3>3, Zenon DEF KeptInv, Looping, NoAnswerLost,
               Cancels, Leftovers, Alive, TaskSteps
  <2>5. ASSUME NEW child \in Ids, ChildStarted(child) PROVE KeptInv'
    <3>1. UNCHANGED <<owed, pending, delivered, early>> /\ pc = "idle"
      BY <2>5 DEF ChildStarted, Running
    <3>2. inLoop # 1
      BY <3>1, Zenon DEF KeptInv, Looping, TaskSteps
    <3>3. CASE UNCHANGED <<pc, inLoop>> /\ listeners[child] # 0 /\ createCallback(listeners[child], {})
      <4>1. listeners[child] \in Ids
        BY <2>0, <3>3, TypeFacts
      <4>2. /\ Queued' = Queued /\ Waiting' = Waiting \cup {listeners[child]}
            /\ canceller' = canceller
        BY <2>0, <3>2, <3>3, <4>1, <1>CallbackBetween, Zenon
      <4> QED BY <2>0, <3>1, <3>2, <3>3, <4>2, Zenon DEF KeptInv, Looping, NoAnswerLost,
                 Cancels, Leftovers, Alive, TaskSteps
    <3>4. CASE UNCHANGED <<mq, callbacks, canceller>> /\ (UNCHANGED <<pc, inLoop>> \/ Panic)
      <4>1. Queued' = Queued /\ Waiting' = Waiting
        BY <3>4 DEF Queued, Waiting
      <4>2. (pc' = "idle" /\ inLoop' = inLoop) \/ (pc' = "panicked" /\ inLoop' = 0)
        BY <3>1, <3>4 DEF Panic
      <4> QED BY <2>0, <3>1, <3>2, <3>4, <4>1, <4>2, SMTT(60) DEF KeptInv, Looping,
                 NoAnswerLost, Cancels, Leftovers, Alive, TaskSteps
    <3> QED BY <2>5, <3>3, <3>4 DEF ChildStarted
  <2>6. CASE OnWorkflowTaskStarted
    <3>1. mq' = mq \o AnswersOf(callbacks)
      BY <2>6, Zenon DEF OnWorkflowTaskStarted, AnswersOf
    <3>2. Queued' = Queued \cup Waiting
      BY <2>a, <3>1, AnswersOfProperties, Zenon DEF Queued, Waiting
    <3>3. Waiting' = {}
      BY <2>6, SMTT(60) DEF OnWorkflowTaskStarted, Waiting, Range
    <3> QED BY <2>0, <2>6, <3>2, <3>3
            DEF OnWorkflowTaskStarted, Running, KeptInv, Looping, NoAnswerLost, Cancels,
                Leftovers, Alive, TaskSteps, Waiting
  <2>7. CASE FirstFlush
    <3>1. /\ UNCHANGED <<callbacks, canceller, pending, owed, early>> /\ pc = "flush"
          /\ flushQueue(mq, pipeline, "updates", pipeline)
      BY <2>7 DEF FirstFlush
    <3>2. \/ pc' = "panicked" /\ inLoop' = 0
          \/ /\ pc' = "updates" /\ inLoop' = inLoop /\ Queued' = {}
             /\ delivered' = delivered \cup Queued
      BY <3>1, <1>FlushDelivers DEF Queued
    <3>3. Waiting' = Waiting
      BY <3>1 DEF Waiting
    <3> QED BY <2>0, <3>1, <3>2, <3>3, SMTT(60) DEF KeptInv, Looping, NoAnswerLost,
               Cancels, Leftovers, Alive, TaskSteps
  <2>8. CASE HandleQueuedUpdates \/ UpdatesHandled
    <3>1. /\ UNCHANGED <<inLoop, mq, callbacks, canceller, pending, owed, delivered, early>>
          /\ pc = "updates" /\ pc' \in {"updates", "pipeline"}
      BY <2>8 DEF HandleQueuedUpdates, UpdatesHandled
    <3>2. Queued' = Queued /\ Waiting' = Waiting
      BY <3>1 DEF Queued, Waiting
    <3> QED BY <2>0, <3>1, <3>2
            DEF KeptInv, Looping, NoAnswerLost, Cancels, Leftovers, Alive, TaskSteps
  <2>9. CASE TaskDone
    <3>1. /\ UNCHANGED <<mq, callbacks, canceller, pending, owed, delivered, early>>
          /\ pc = "pipeline" /\ pipeline = <<>> /\ pc' = "idle" /\ inLoop' = 0
      BY <2>9 DEF TaskDone
    <3>2. Queued' = Queued /\ Waiting' = Waiting /\ ~Cancelling
      BY <3>1 DEF Queued, Waiting, Cancelling
    <3> QED BY <2>0, <3>1, <3>2, SMTT(60) DEF KeptInv, Looping, NoAnswerLost, Cancels,
               Leftovers, Alive, TaskSteps
  <2>10. CASE Close
    <3>1. /\ UNCHANGED <<inLoop, callbacks, canceller, pending, early>>
          /\ pc \in {"idle", "panicked"} /\ pc' = "closed"
      BY <2>10 DEF Close
    <3>2. Waiting' = Waiting
      BY <3>1, Zenon DEF Waiting
    <3> QED BY <2>0, <3>1, <3>2, Zenon DEF KeptInv, Looping, NoAnswerLost, Cancels,
               Leftovers, Alive, TaskSteps
  <2>11. CASE Closed \/ UNCHANGED vars
    <3>1. UNCHANGED <<pc, inLoop, mq, callbacks, pipeline, canceller, pending, owed, delivered, early>>
      BY <2>11 DEF Closed, vars
    <3>2. Queued' = Queued /\ Waiting' = Waiting /\ Cancelling' = Cancelling
      BY <3>1 DEF Queued, Waiting, Cancelling, msg
    <3> QED BY <2>0, <3>1, <3>2, Zenon DEF KeptInv, Looping, NoAnswerLost, Cancels,
               Leftovers, Alive, TaskSteps
  <2>12. CASE HandleMessage
    BY <2>0, <2>12, <1>HandleMessageKept, Zenon
  <2> QED BY <2>1, <2>2, <2>3, <2>4, <2>5, <2>6, <2>7, <2>8, <2>9, <2>10, <2>11, <2>12,
             ZenonT(60) DEF Next, TaskStep

<1>1. Init => KeptInv
  <2> SUFFICES ASSUME Init PROVE KeptInv
    OBVIOUS
  <2>1. TypeOK /\ Queued = {}
    BY InitTypeOK, AnsweredInEmpty DEF Init, Queued
  <2> QED BY <2>1 DEF Init, KeptInv, Looping, NoAnswerLost, Cancels, Leftovers, TaskSteps
<1> QED BY <1>1, <1>KeptStep, PTL DEF Spec

(***************************************************************************)
(* No answer is lost: while the run is alive, every command that is to be  *)
(* answered is pending in the SDK, or its answer waits in callbacks or mq  *)
(* or was sent, across tasks, early callbacks and cancellation.            *)
(***************************************************************************)
THEOREM NoAnswerIsLost == Spec => []NoAnswerLost
  BY KeptAlways, PTL DEF KeptInv

(***************************************************************************)
(* When commands are handled, the Canceller knows only operations still    *)
(* going on or called back before they were registered.                    *)
(***************************************************************************)
THEOREM CancelsFindLive == Spec => []CancelTargetsLive
<1>1. KeptInv => CancelTargetsLive
  BY DEF KeptInv, Looping, Cancels, CancelTargetsLive, Waiting, Range
<1> QED BY <1>1, KeptAlways, PTL

(***************************************************************************)
(* The answers OnWorkflowTaskStarted leaves in mq are those made in the    *)
(* loop without a flush.                                                   *)
(***************************************************************************)
THEOREM LeftoversAreEarly == Spec => []LeftoversMadeInLoop
<1>1. KeptInv => LeftoversMadeInLoop
  BY DEF KeptInv, Leftovers, LeftoversMadeInLoop
<1> QED BY <1>1, KeptAlways, PTL

-----------------------------------------------------------------------------
(***************************************************************************)
(* Every buffered update has its name in updatesQueue, so that a task      *)
(* which goes through the queue leaves none.                               *)
(***************************************************************************)
Named ==
    /\ pc = "new" => buffered = {}
    /\ pc \in {"idle"} \cup TaskSteps =>
          \A u \in buffered : UpdateName[u] \in Range(updatesQueue)

UpdateInv == TypeOK /\ UpdatesSettled /\ Named

(***************************************************************************)
(* Every update gets at most one verdict, and none is left buffered when   *)
(* OnWorkflowTaskStarted handles commands or when Close has returned.      *)
(***************************************************************************)
THEOREM UpdatesAreSettled == Spec => []UpdatesSettled
(***************************************************************************)
(* Running the callbacks of buffered updates gives each its one verdict.   *)
(***************************************************************************)
<1>RunSettles.
    ASSUME UpdateInv, NEW us \in SUBSET buffered, RunUpdates(us)
    PROVE  /\ buffered' = buffered \ us
           /\ \A u \in Updates : calls'[u] \in {<<>>} \cup UpdateOutcomes
           /\ \A u \in buffered' : calls'[u] = <<>>
  <2> USE <1>RunSettles
  <2>1. PICK outcome \in [us -> UpdateOutcomes] :
            calls' = [u \in Updates |->
                         IF u \in us THEN calls[u] \o outcome[u] ELSE calls[u]]
    BY Zenon DEF RunUpdates
  <2>2. buffered \subseteq Updates /\ buffered' = buffered \ us
    BY TypeFacts DEF UpdateInv, RunUpdates
  <2>3. \A u \in us : outcome[u] \in UpdateOutcomes /\ outcome[u] \in Seq({"Reject", "Accept", "Complete"})
    <3>1. UpdateOutcomes \subseteq Seq({"Reject", "Accept", "Complete"})
      BY DEF UpdateOutcomes
    <3> QED BY <2>1, <3>1
  <2>4. \A u \in us : calls'[u] = outcome[u]
    <3> SUFFICES ASSUME NEW u \in us PROVE calls'[u] = outcome[u]
      OBVIOUS
    <3>1. calls[u] = <<>> /\ u \in Updates
      BY <2>2 DEF UpdateInv, UpdatesSettled
    <3>2. calls'[u] = <<>> \o outcome[u]
      BY <2>1, <3>1, Zenon
    <3> QED BY <2>3, <3>2
  <2>5. \A u \in Updates \ us : calls'[u] = calls[u]
    BY <2>1
  <2> QED BY <2>2, <2>3, <2>4, <2>5 DEF UpdateInv, UpdatesSettled

(***************************************************************************)
(* Every step keeps the updates settled and named.                         *)
(***************************************************************************)
<1>UpdateStep. UpdateInv /\ [Next]_vars => UpdateInv'
  <2> SUFFICES ASSUME UpdateInv, [Next]_vars PROVE UpdateInv'
    OBVIOUS
  <2>0. TypeOK /\ TypeOK'
    BY TypeOKStep DEF UpdateInv
  <2> USE DEF process, sdk, history
  <2>1. CASE Execute
    BY <2>0, <2>1, Zenon DEF Execute, UpdateInv, UpdatesSettled, Named, TaskSteps
  <2>2. ASSUME NEW u \in Updates, handleUpdate(u) PROVE UpdateInv'
    <3>1. updatesQueue \in Seq(Names) /\ UpdateName[u] \in Names
      BY <2>0, TypeFacts DEF Names
    <3>2. Range(updatesQueue') = Range(updatesQueue) \cup {UpdateName[u]}
      <4>1. updatesQueue' = Append(updatesQueue, UpdateName[u])
        BY <2>2, Zenon DEF handleUpdate
      <4> QED BY <3>1, <4>1, RangeAppend, SMTT(60)
    <3> QED BY <2>0, <2>2, <3>2, Zenon DEF handleUpdate, Running, UpdateInv,
               UpdatesSettled,
               Named, TaskSteps
  <2>3. CASE HandleQueuedUpdates
    <3> DEFINE us == {u \in buffered : UpdateName[u] = Head(updatesQueue)}
    <3>1. /\ RunUpdates(us) /\ updatesQueue # <<>> /\ updatesQueue' = Tail(updatesQueue)
          /\ pc = "updates" /\ pc' = pc
      BY <2>3 DEF HandleQueuedUpdates
    <3>2. updatesQueue \in Seq(Names)
      BY <2>0, TypeFacts
    <3>3. \A n \in Range(updatesQueue) : n = Head(updatesQueue) \/ n \in Range(Tail(updatesQueue))
      <4> SUFFICES ASSUME NEW i \in DOMAIN updatesQueue, i # 1
                   PROVE  updatesQueue[i] \in Range(Tail(updatesQueue))
        BY <3>1, <3>2 DEF Range
      <4>1. i - 1 \in DOMAIN Tail(updatesQueue) /\ Tail(updatesQueue)[i - 1] = updatesQueue[i]
        BY <3>1, <3>2
      <4> QED BY <4>1 DEF Range
    <3>4. /\ buffered' = buffered \ us
          /\ \A u \in Updates : calls'[u] \in {<<>>} \cup UpdateOutcomes
          /\ \A u \in buffered' : calls'[u] = <<>>
      BY <3>1, <1>RunSettles
    <3>5. \A u \in buffered' : UpdateName[u] \in Range(updatesQueue')
      BY <3>1, <3>3, <3>4 DEF UpdateInv, Named, TaskSteps
    <3> QED BY <2>0, <3>1, <3>4, <3>5 DEF UpdateInv, UpdatesSettled, Named, TaskSteps
  <2>4. CASE UpdatesHandled
    <3>1. Range(updatesQueue) = {}
      BY <2>4, SMTT(60) DEF UpdatesHandled, Range
    <3> QED BY <2>0, <2>4, <3>1, Zenon DEF UpdatesHandled, UpdateInv, UpdatesSettled,
               Named, TaskSteps
  <2>5. CASE Close
    <3>1. /\ buffered' = {}
          /\ \A u \in Updates : calls'[u] \in {<<>>} \cup UpdateOutcomes
      BY <2>5, <1>RunSettles DEF Close
    <3> QED BY <2>0, <2>5, <3>1, Zenon DEF Close, UpdateInv, UpdatesSettled, Named,
               TaskSteps
  <2>6. ASSUME UNCHANGED <<buffered, calls, updatesQueue>>,
               \/ pc' = pc
               \/ pc = "idle" /\ pc' = "flush"
               \/ pc = "flush" /\ pc' = "updates"
               \/ pc = "pipeline" /\ pc' = "idle"
               \/ pc' = "panicked"
        PROVE  UpdateInv'
    BY <2>0, <2>6, Zenon DEF UpdateInv, UpdatesSettled, Named, TaskSteps
  <2>7. CASE handleSignal \/ handleCancel \/ handleQuery \/ StackTrace \/ Closed \/ UNCHANGED vars
    BY <2>6, <2>7, Zenon DEF handleSignal, handleCancel, handleQuery, StackTrace, Closed,
       vars
  <2>8. CASE (\E id \in Ids : OperationDone(id)) \/ (\E child \in Ids : ChildStarted(child))
    BY <2>6, <2>8, Zenon DEF OperationDone, ChildStarted, Panic
  <2>9. CASE OnWorkflowTaskStarted \/ TaskDone
    BY <2>6, <2>9 DEF OnWorkflowTaskStarted, Running, TaskDone
  <2>10. CASE FirstFlush
    <3>1. pc' \in {"updates", "panicked"}
      BY <2>10 DEF FirstFlush, flushQueue, Panic
    <3> QED BY <2>6, <2>10, <3>1 DEF FirstFlush
  <2>11. CASE HandleMessage
    <3>1. UNCHANGED <<buffered, calls, updatesQueue>>
      BY <2>11, Zenon DEF HandleMessage, SkipResponse, ExecuteOperation,
         ExecuteChildWorkflow,
         GetChildWorkflowExecution, GetVersion, SideEffect, CompleteWorkflow,
         UpsertWorkflowSearchAttributes, CancelNext, CancelDone, FailMessage
    <3>2. pc = "pipeline" /\ pc' \in {"pipeline", "panicked"}
      BY <2>11, Zenon DEF HandleMessage, SkipResponse, ExecuteOperation,
         ExecuteChildWorkflow,
         GetChildWorkflowExecution, GetVersion, SideEffect, CompleteWorkflow,
         UpsertWorkflowSearchAttributes, CancelNext, CancelDone, FailMessage, Handling,
         flushQueue, Panic
    <3> QED BY <2>6, <3>1, <3>2
  <2> QED BY <2>1, <2>2, <2>3, <2>4, <2>5, <2>7, <2>8, <2>9, <2>10, <2>11 DEF Next, TaskStep

<1>1. Init => UpdateInv
  BY InitTypeOK DEF Init, UpdateInv, UpdatesSettled, Named, TaskSteps
<1> QED BY <1>1, <1>UpdateStep, PTL DEF Spec, UpdateInv

-----------------------------------------------------------------------------
(***************************************************************************)
(* The queue is empty before Execute, and afterwards only once the worker  *)
(* has been sent StartWorkflow; the loop handles commands only after that. *)
(***************************************************************************)
StartSent ==
    /\ pc = "new" => mq = <<>> /\ ~started
    /\ Alive /\ pc # "new" /\ mq = <<>> => started
    /\ pc \in {"updates", "pipeline"} => started

StartInv == TypeOK /\ StartWorkflowFirst /\ StartSent

(***************************************************************************)
(* The worker is sent StartWorkflow once and before anything else that is  *)
(* queued for it: Execute queues it, and every other message comes after.  *)
(***************************************************************************)
THEOREM StartWorkflowIsFirst == Spec => []StartWorkflowFirst
(***************************************************************************)
(* Another message may be added to a queue that is not empty, or once the  *)
(* worker has been sent StartWorkflow.                                     *)
(***************************************************************************)
<1>AppendAfterStart.
    ASSUME StartInv, TypeOK', NEW m, m.cmd # "StartWorkflow",
           Alive, pc # "new", mq' = Append(mq, m), UNCHANGED <<pc, started>>
    PROVE  StartInv'
  <2> USE <1>AppendAfterStart
  <2>1. mq \in Seq(HostMessage(Ids)) /\ mq' \in Seq(HostMessage(Ids))
    BY TypeFacts, NextTypeFacts, Zenon DEF StartInv
  <2>2. /\ DOMAIN mq' = 1 .. Len(mq) + 1 /\ DOMAIN mq = 1 .. Len(mq) /\ Len(mq) \in Nat
        /\ \A i \in 1 .. Len(mq) : mq'[i] = mq[i]
        /\ mq'[Len(mq) + 1] = m
        /\ mq' # <<>>
    BY <2>1
  <2>3. started \in BOOLEAN
    BY TypeFacts, Zenon DEF StartInv
  <2>4. CASE mq = <<>>
    <3>1. started /\ Len(mq) = 0
      BY <2>4 DEF StartInv, StartSent
    <3> QED BY <2>2, <3>1 DEF StartInv, StartWorkflowFirst, StartSent, Alive
  <2>5. CASE mq # <<>>
    <3>1. Len(mq) # 0
      BY <2>1, <2>5, SMTT(60)
    <3> QED BY <2>2, <2>3, <2>5, <3>1 DEF StartInv, StartWorkflowFirst, StartSent, Alive
  <2> QED BY <2>4, <2>5, Zenon

(***************************************************************************)
(* A flush sends StartWorkflow if it is still queued.                      *)
(***************************************************************************)
<1>FlushStarts.
    ASSUME StartInv, TypeOK', Alive, pc # "new", NEW queue, NEW rest, NEW kept,
           NEW next \in {"updates", "pipeline"},
           queue = mq \/ started, flushQueue(queue, rest, next, kept)
    PROVE  StartInv'
  <2> USE <1>FlushStarts
  <2>1. CASE pc' = "panicked"
    BY <2>1, Zenon DEF StartInv, StartWorkflowFirst, StartSent, Alive
  <2>2. CASE queue = <<>> /\ mq' = queue /\ pc' = next /\ UNCHANGED started
    BY <2>2 DEF StartInv, StartWorkflowFirst, StartSent, Alive
  <2>3. CASE queue # <<>> /\ Receive(queue) /\ mq' = <<>> /\ pc' = next
    <3>1. mq \in Seq(HostMessage(Ids))
      BY TypeFacts DEF StartInv
    <3>2. started'
      <4>1. CASE started
        BY <2>3, <4>1, Zenon DEF Receive
      <4>2. CASE ~started
        <5>1. queue = mq /\ mq # <<>>
          BY <2>3, <4>2
        <5>2. 1 \in DOMAIN mq
          BY <3>1, <5>1, SMTT(60)
        <5>3. mq[1].cmd = "StartWorkflow"
          BY <4>2, <5>1, <5>2, Zenon DEF StartInv, StartWorkflowFirst
        <5> QED BY <2>3, <5>1, <5>2, <5>3, Zenon DEF Receive
      <4> QED BY <4>1, <4>2
    <3> QED BY <2>3, <3>2 DEF StartInv, StartWorkflowFirst, StartSent, Alive
  <2> QED BY <2>1, <2>2, <2>3, Zenon DEF flushQueue, Panic

(***************************************************************************)
(* Every step keeps StartWorkflow in front of what is queued.              *)
(***************************************************************************)
<1>StartStep. StartInv /\ [Next]_vars => StartInv'
  <2> SUFFICES ASSUME StartInv, [Next]_vars PROVE StartInv'
    OBVIOUS
  <2>0. TypeOK /\ TypeOK'
    BY TypeOKStep DEF StartInv
  <2> USE DEF process, sdk, history
  <2>1. ASSUME UNCHANGED <<mq, started>>, Alive, pc # "new",
               \/ pc' \in {pc, "panicked"}
               \/ pc = "updates" /\ pc' = "pipeline"
               \/ pc = "pipeline" /\ pc' = "idle"
        PROVE  StartInv'
    BY <2>0, <2>1 DEF StartInv, StartWorkflowFirst, StartSent, Alive
  <2>2. \A id : Answer(id).cmd # "StartWorkflow"
    BY DEF Answer, NoCommand
  <2>3. ASSUME NEW id, NEW registered, createCallback(id, registered),
               Alive, pc # "new", UNCHANGED <<pc, started>>
        PROVE  StartInv'
    BY <2>0, <2>1, <2>2, <2>3, <1>AppendAfterStart, Zenon DEF createCallback
  <2>4. CASE Execute
    <3>1. DOMAIN mq' = {1} /\ mq'[1].cmd = "StartWorkflow" /\ mq' # <<>> /\ pc' = "idle"
      BY <2>4 DEF Execute, Command
    <3>2. ~started'
      BY <2>4 DEF Execute, StartInv, StartSent
    <3> QED BY <2>0, <3>1, <3>2, Zenon DEF StartInv, StartWorkflowFirst, StartSent, Alive
  <2>5. CASE handleSignal \/ handleCancel
    <3>1. /\ Command("InvokeSignal").cmd # "StartWorkflow"
          /\ Command("CancelWorkflow").cmd # "StartWorkflow"
      BY DEF Command
    <3>2. Alive /\ pc # "new" /\ UNCHANGED <<pc, started>>
      BY <2>5, ZenonT(60) DEF handleSignal, handleCancel, Running, Alive
    <3> QED BY <2>0, <2>5, <3>1, <3>2, <1>AppendAfterStart, Zenon DEF handleSignal,
               handleCancel
  <2>6. CASE (\E u \in Updates : handleUpdate(u)) \/ handleQuery \/ StackTrace
    BY <2>1, <2>6 DEF handleUpdate, handleQuery, StackTrace, Running, Alive
  <2>7. ASSUME NEW id \in Ids, OperationDone(id) PROVE StartInv'
    BY <2>3, <2>7, Zenon DEF OperationDone, Running, Alive
  <2>8. ASSUME NEW child \in Ids, ChildStarted(child) PROVE StartInv'
    <3>1. Alive /\ pc # "new" /\ UNCHANGED started
      BY <2>8 DEF ChildStarted, Running, Alive
    <3>2. CASE createCallback(listeners[child], {}) /\ UNCHANGED pc
      BY <2>3, <3>1, <3>2
    <3>3. CASE UNCHANGED mq /\ pc' \in {pc, "panicked"}
      BY <2>1, <3>1, <3>3, Zenon
    <3> QED BY <2>8, <3>2, <3>3, Zenon DEF ChildStarted, Panic
  <2>9. CASE OnWorkflowTaskStarted
    <3>1. mq \in Seq(HostMessage(Ids)) /\ callbacks \in Seq(Ids)
      BY <2>0, TypeFacts
    <3>2. mq' = mq \o AnswersOf(callbacks) /\ pc = "idle" /\ pc' = "flush" /\ UNCHANGED started
      BY <2>9 DEF OnWorkflowTaskStarted, AnswersOf, Running
    <3>3. /\ DOMAIN mq' = 1 .. Len(mq) + Len(callbacks) /\ Len(mq) \in Nat /\ Len(callbacks) \in Nat
          /\ DOMAIN mq = 1 .. Len(mq)
          /\ \A i \in 1 .. Len(mq) : mq'[i] = mq[i]
          /\ \A i \in 1 .. Len(callbacks) : mq'[Len(mq) + i] = Answer(callbacks[i])
      BY <3>1, <3>2, AnswersOfProperties
    <3>4. \A i \in DOMAIN mq' : i > Len(mq) => mq'[i].cmd # "StartWorkflow"
      <4> SUFFICES ASSUME NEW i \in DOMAIN mq', i > Len(mq) PROVE mq'[i].cmd # "StartWorkflow"
        OBVIOUS
      <4>1. i - Len(mq) \in 1 .. Len(callbacks) /\ Len(mq) + (i - Len(mq)) = i
        BY <3>3, SMTT(60)
      <4>2. mq'[i] = Answer(callbacks[i - Len(mq)])
        BY <3>3, <4>1
      <4> QED BY <2>2, <4>2
    <3>5. CASE mq = <<>>
      <4>1. started /\ started' /\ Len(mq) = 0
        BY <3>2, <3>5, Zenon DEF StartInv, StartSent, Alive
      <4> QED BY <2>0, <3>2, <3>3, <3>4, <4>1, SMTT(60) DEF StartInv, StartWorkflowFirst,
                 StartSent,
                 Alive
    <3>6. CASE mq # <<>>
      <4>1. Len(mq) # 0 /\ 1 \in DOMAIN mq'
        BY <3>1, <3>3, <3>6
      <4>2. mq' # <<>>
        BY <4>1
      <4>3. \A i \in DOMAIN mq : (mq[i].cmd = "StartWorkflow") <=> (i = 1 /\ ~started)
        BY <3>2, <3>6, Zenon DEF StartInv, StartWorkflowFirst, Alive
      <4>4. \A i \in DOMAIN mq' : (mq'[i].cmd = "StartWorkflow") <=> (i = 1 /\ ~started')
        BY <3>2, <3>3, <3>4, <4>1, <4>3
      <4> QED BY <2>0, <3>2, <4>2, <4>4 DEF StartInv, StartWorkflowFirst, StartSent, Alive
    <3> QED BY <3>5, <3>6
  <2>10. CASE FirstFlush
    BY <2>0, <2>10, <1>FlushStarts, Zenon DEF FirstFlush, Alive
  <2>11. CASE HandleQueuedUpdates \/ UpdatesHandled \/ TaskDone
    BY <2>1, <2>11 DEF HandleQueuedUpdates, UpdatesHandled, TaskDone, Alive
  <2>12. CASE HandleMessage
    <3>1. pc = "pipeline" /\ Alive /\ started
      BY <2>12, Zenon DEF HandleMessage, SkipResponse, ExecuteOperation,
         ExecuteChildWorkflow,
         GetChildWorkflowExecution, GetVersion, SideEffect, CompleteWorkflow,
         UpsertWorkflowSearchAttributes, CancelNext, CancelDone, FailMessage, Handling,
         Alive, StartInv, StartSent
    <3>2. CASE SkipResponse \/ UpsertWorkflowSearchAttributes \/ FailMessage
      BY <2>1, <3>1, <3>2, Zenon DEF SkipResponse, UpsertWorkflowSearchAttributes,
         FailMessage, Panic
    <3>3. CASE ExecuteOperation \/ ExecuteChildWorkflow
      BY <2>1, <2>3, <3>1, <3>3, Zenon
         DEF ExecuteOperation, ExecuteChildWorkflow, OperationTaken, OperationCalledBack
    <3>4. CASE GetChildWorkflowExecution
      BY <2>1, <2>3, <3>1, <3>4, Zenon DEF GetChildWorkflowExecution, Panic
    <3>5. CASE GetVersion \/ CancelDone
      BY <2>0, <3>1, <3>5, <1>FlushStarts, Zenon DEF GetVersion, CancelDone
    <3>6. CASE SideEffect
      <4>1. CASE mq' = Append(mq, Answer(msg.id)) /\ UNCHANGED <<pc, started>>
        BY <2>0, <2>2, <3>1, <4>1, <1>AppendAfterStart
      <4>2. CASE flushQueue(Append(mq, Answer(msg.id)), Tail(pipeline), "pipeline", Tail(pipeline))
        BY <2>0, <3>1, <4>2, <1>FlushStarts
      <4> QED BY <3>6, <4>1, <4>2 DEF SideEffect
    <3>7. CASE CompleteWorkflow
      BY <2>0, <2>2, <3>1, <3>7, <1>AppendAfterStart, ZenonT(60) DEF CompleteWorkflow
    <3>8. CASE CancelNext
      BY <2>1, <2>3, <3>1, <3>8 DEF CancelNext
    <3> QED BY <2>12, <3>2, <3>3, <3>4, <3>5, <3>6, <3>7, <3>8, Zenon DEF HandleMessage
  <2>13. CASE Close
    BY <2>0, <2>13, Zenon DEF Close, StartInv, StartWorkflowFirst, StartSent, Alive
  <2>14. CASE Closed \/ UNCHANGED vars
    BY <2>0, <2>14, SMTT(60) DEF Closed, vars, StartInv, StartWorkflowFirst, StartSent,
       Alive
  <2> QED BY <2>4, <2>5, <2>6, <2>7, <2>8, <2>9, <2>10, <2>11, <2>12, <2>13, <2>14,
             ZenonT(60) DEF Next, TaskStep

<1>1. Init => StartInv
  BY InitTypeOK DEF Init, StartInv, StartWorkflowFirst, StartSent, Alive
<1> QED BY <1>1, <1>StartStep, PTL DEF Spec, StartInv

-----------------------------------------------------------------------------
(***************************************************************************)
(* The ledger.  The pipeline is kept in the order of the identifiers and   *)
(* all of them are above those already handled; while the run is alive,    *)
(* the pipeline, the handled commands and those set aside are all the      *)
(* worker has sent; and whatever is, or may come to be, answered has been  *)
(* handled.                                                                *)
(***************************************************************************)
Ascending(p) == \A i, j \in DOMAIN p : i < j => p[i].id < p[j].id

(***************************************************************************)
(* A pipeline p is in order after the handled commands h, below n.         *)
(***************************************************************************)
InOrder(p, h, n) ==
    /\ Ascending(p)
    /\ \A id \in PipeIds(p) : id < n
    /\ \A id \in PipeIds(p), other \in h : other < id

(***************************************************************************)
(* The pipeline, the handled commands h and the ones set aside are those   *)
(* below n, each in one place.                                             *)
(***************************************************************************)
AllThere(p, h, set, n) ==
    /\ 1 .. n - 1 = PipeIds(p) \cup h \cup set
    /\ PipeIds(p) \cap (h \cup set) = {}
    /\ h \cap set = {}

Answerable ==
    /\ pending \subseteq handled
    /\ Waiting \cup Queued \subseteq handled
    /\ delivered \subseteq handled
    /\ \A child \in Ids : listeners[child] \in handled \cup {0}

LedgerInv ==
    /\ TypeOK
    /\ InOrder(pipeline, handled, nextId)
    /\ Alive => AllThere(pipeline, handled, aside, nextId)
    /\ Answerable

-----------------------------------------------------------------------------
(***************************************************************************)
(* The identifiers of an ascending pipeline are distinct naturals.         *)
(***************************************************************************)
LEMMA AscendingDistinct ==
    ASSUME NEW p \in Seq(WorkerMessage(Ids)), Ascending(p)
    PROVE  DistinctIds(p)
<1>1. DOMAIN p = 1 .. Len(p) /\ Len(p) \in Nat
  OBVIOUS
<1>2. ASSUME NEW i \in 1 .. Len(p) PROVE p[i].id \in Nat
  <2>1. p[i] \in WorkerMessage(Ids)
    BY OfElement
  <2> QED BY <2>1 DEF WorkerMessage, Ids
<1>3. ASSUME NEW i \in 1 .. Len(p), NEW j \in 1 .. Len(p), p[i].id = p[j].id
      PROVE  i = j
  <2>1. ~(i < j) /\ ~(j < i)
    BY <1>1, <1>2, <1>3, SMTT(60) DEF Ascending
  <2> QED BY <2>1, SMTT(60)
<1> QED BY <1>1, <1>3 DEF DistinctIds

(***************************************************************************)
(* The head of an ascending pipeline is its least identifier, and what is  *)
(* left is in order after it.                                              *)
(***************************************************************************)
LEMMA HeadFirst ==
    ASSUME NEW p \in Seq(WorkerMessage(Ids)), p # <<>>, Ascending(p)
    PROVE  /\ Ascending(Tail(p))
           /\ Tail(p) \in Seq(WorkerMessage(Ids))
           /\ PipeIds(p) = PipeIds(Tail(p)) \cup {Head(p).id}
           /\ Head(p).id \notin PipeIds(Tail(p))
           /\ \A id \in PipeIds(Tail(p)) : Head(p).id < id
<1> DEFINE t == Tail(p)
<1>1. /\ Len(p) \in Nat /\ Len(p) >= 1
      /\ DOMAIN p = 1 .. Len(p)
      /\ t \in Seq(WorkerMessage(Ids))
      /\ DOMAIN t = 1 .. Len(p) - 1
      /\ \A i \in 1 .. Len(p) - 1 : t[i] = p[i + 1]
      /\ Head(p) = p[1]
  BY OfHeadTail
<1>2. /\ PipeIds(p) = PipeIds(t) \cup {Head(p).id}
      /\ Head(p).id \notin PipeIds(t)
  BY AscendingDistinct, PipeTail
<1> HIDE DEF t
<1>3. \A i \in 1 .. Len(p) - 1 : i + 1 \in DOMAIN p /\ 1 \in DOMAIN p /\ 1 < i + 1
  BY <1>1
<1>4. Ascending(t)
  <2>1. SUFFICES ASSUME NEW i \in 1 .. Len(p) - 1, NEW j \in 1 .. Len(p) - 1, i < j
                 PROVE  p[i + 1].id < p[j + 1].id
    BY <1>1, Zenon DEF Ascending
  <2>2. i + 1 < j + 1
    BY <2>1, <1>1
  <2> QED BY <1>3, <2>2 DEF Ascending
<1>5. ASSUME NEW id \in PipeIds(t) PROVE Head(p).id < id
  <2>1. PICK i \in 1 .. Len(p) - 1 : id = p[i + 1].id
    BY <1>1 DEF PipeIds
  <2> QED BY <1>1, <1>3, <2>1 DEF Ascending
<1> QED BY <1>1, <1>2, <1>4, <1>5 DEF t

(***************************************************************************)
(* An iteration of Cancel replaces the head by a message with the same     *)
(* identifier and leaves the pipeline ascending.                           *)
(***************************************************************************)
LEMMA HeadReplaced ==
    ASSUME NEW p \in Seq(WorkerMessage(Ids)), p # <<>>, Ascending(p),
           NEW m \in WorkerMessage(Ids), m.id = Head(p).id
    PROVE  /\ Ascending(<<m>> \o Tail(p))
           /\ PipeIds(<<m>> \o Tail(p)) = PipeIds(p)
<1> DEFINE r == <<m>> \o Tail(p)
<1>1. /\ Len(p) \in Nat /\ Len(p) >= 1
      /\ DOMAIN p = 1 .. Len(p)
      /\ Tail(p) \in Seq(WorkerMessage(Ids))
      /\ Len(Tail(p)) = Len(p) - 1
      /\ \A i \in 1 .. Len(p) - 1 : Tail(p)[i] = p[i + 1]
      /\ Head(p) = p[1]
  BY OfHeadTail
<1>2. DOMAIN r = 1 .. Len(p) /\ r[1] = m
  BY <1>1
<1>3. ASSUME NEW i \in 1 .. Len(p), i # 1 PROVE r[i] = p[i]
  <2>1. r[i] = Tail(p)[i - 1]
    BY <1>1, <1>3
  <2>2. i - 1 \in 1 .. Len(p) - 1 /\ (i - 1) + 1 = i
    BY <1>1, <1>3, SMTT(60)
  <2> QED BY <1>1, <2>1, <2>2
<1>4. \A i \in 1 .. Len(p) : r[i].id = p[i].id
  BY <1>1, <1>2, <1>3
<1>5. PipeIds(r) = PipeIds(p)
  BY AscendingDistinct, PipeHead, Zenon
<1> HIDE DEF r
<1>6. Ascending(r)
  BY <1>1, <1>2, <1>4, Zenon DEF Ascending
<1> QED BY <1>5, <1>6, Zenon DEF r

(***************************************************************************)
(* A frame of the worker continues the numbering where it was.             *)
(***************************************************************************)
LEMMA FrameContinues ==
    ASSUME TypeOK, NEW p \in Seq(WorkerMessage(Ids)), Ascending(p),
           \A id \in PipeIds(p) : id < nextId,
           NEW bodies \in UpTo(Bodies, Room)
    PROVE  /\ Ascending(p \o Frame(bodies))
           /\ PipeIds(p \o Frame(bodies)) =
                 PipeIds(p) \cup (nextId .. nextId + Len(bodies) - 1)
<1> DEFINE f == Frame(bodies)
           r == p \o f
<1>1. /\ f \in Seq(WorkerMessage(Ids)) /\ Len(f) = Len(bodies)
      /\ Len(bodies) \in Nat /\ nextId \in Nat
      /\ \A i \in 1 .. Len(bodies) : f[i].id = nextId + i - 1
  BY FrameProperties, BoundsAssumption, TypeFacts, SMTT(60)
<1> HIDE DEF f
<1>2. /\ Len(p) \in Nat /\ DOMAIN p = 1 .. Len(p)
      /\ DOMAIN r = 1 .. Len(p) + Len(bodies)
      /\ \A i \in 1 .. Len(p) : r[i] = p[i]
      /\ \A i \in 1 .. Len(bodies) : r[Len(p) + i] = f[i]
  <2>1. f \in Seq(WorkerMessage(Ids))
    BY <1>1
  <2>2. /\ r \in Seq(WorkerMessage(Ids)) /\ Len(r) = Len(p) + Len(f)
        /\ \A i \in 1 .. Len(p) + Len(f) :
              r[i] = IF i <= Len(p) THEN p[i] ELSE f[i - Len(p)]
    BY ONLY <2>1, p \in Seq(WorkerMessage(Ids)), OfConcat
  <2>3. Len(p) \in Nat /\ DOMAIN p = 1 .. Len(p)
    BY SMTT(60)
  <2>4. DOMAIN r = 1 .. Len(p) + Len(bodies)
    BY <1>1, <2>2
  <2> HIDE DEF r
  <2>5. \A i \in 1 .. Len(p) : r[i] = p[i]
    BY <1>1, <2>2, <2>3, SMTT(60)
  <2>6. ASSUME NEW i \in 1 .. Len(bodies) PROVE r[Len(p) + i] = f[i]
    <3>1. /\ Len(p) + i \in 1 .. Len(p) + Len(f)
          /\ ~(Len(p) + i <= Len(p)) /\ (Len(p) + i) - Len(p) = i
      BY <1>1, <2>3
    <3> QED BY <2>2, <3>1, Zenon
  <2> QED BY <2>3, <2>4, <2>5, <2>6, Zenon
<1> HIDE DEF r
<1>3. \A i \in 1 .. Len(bodies) :
          Len(p) + i \in DOMAIN r /\ r[Len(p) + i].id = nextId + i - 1
  BY <1>1, <1>2, SMTT(60)
<1>4. \A i \in 1 .. Len(p) : p[i].id < nextId /\ p[i].id \in Nat
  <2>1. ASSUME NEW i \in 1 .. Len(p)
        PROVE  p[i].id \in Ids /\ p[i].id \in PipeIds(p)
    <3>1. p[i] \in WorkerMessage(Ids)
      BY <1>2, OfElement, Zenon
    <3> QED BY <1>2, <3>1 DEF PipeIds, WorkerMessage
  <2> QED BY <2>1, SMTT(60) DEF Ids
<1>5. ASSUME NEW i \in DOMAIN r, i \notin 1 .. Len(p)
      PROVE  i - Len(p) \in 1 .. Len(bodies) /\ r[i].id = nextId + (i - Len(p)) - 1
  <2>1. i - Len(p) \in 1 .. Len(bodies) /\ i = Len(p) + (i - Len(p))
    BY <1>1, <1>2, <1>5, SMTT(60)
  <2> QED BY <1>3, <2>1, Zenon
<1>6. ASSUME NEW i \in DOMAIN r, NEW j \in DOMAIN r, i < j
      PROVE  r[i].id < r[j].id
  <2>1. CASE i \in 1 .. Len(p) /\ j \in 1 .. Len(p)
    BY <1>2, <1>6, <2>1, Zenon DEF Ascending
  <2>2. CASE i \in 1 .. Len(p) /\ j \notin 1 .. Len(p)
    <3>1. /\ r[j].id = nextId + (j - Len(p)) - 1
          /\ j - Len(p) \in 1 .. Len(bodies)
          /\ r[i].id < nextId /\ r[i].id \in Nat
      BY <1>2, <1>4, <1>5, <2>2, Zenon
    <3>2. nextId + (j - Len(p)) - 1 >= nextId /\ nextId + (j - Len(p)) - 1 \in Nat
      BY <1>1, <1>2, <3>1, SMTT(60)
    <3> QED BY <1>1, <3>1, <3>2, SMTT(60)
  <2>3. CASE i \notin 1 .. Len(p)
    <3>1. j \notin 1 .. Len(p)
      BY <1>1, <1>2, <1>6, <2>3, SMTT(60)
    <3>2. /\ r[i].id = nextId + (i - Len(p)) - 1
          /\ r[j].id = nextId + (j - Len(p)) - 1
      BY <1>5, <2>3, <3>1, Zenon
    <3>3. i \in Nat /\ j \in Nat /\ Len(p) \in Nat /\ nextId \in Nat
      BY <1>1, <1>2
    <3> QED BY ONLY <1>6, <3>2, <3>3
  <2> QED BY <2>1, <2>2, <2>3, Zenon
<1>7. ASSUME NEW id \in PipeIds(r)
      PROVE  id \in PipeIds(p) \cup (nextId .. nextId + Len(bodies) - 1)
  <2>1. PICK i \in DOMAIN r : id = r[i].id
    BY Zenon DEF PipeIds
  <2>2. CASE i \in 1 .. Len(p)
    BY <1>2, <2>1, <2>2, Zenon DEF PipeIds
  <2>3. CASE i \notin 1 .. Len(p)
    BY <1>1, <1>2, <1>5, <2>1, <2>3, SMTT(60)
  <2> QED BY <2>2, <2>3
<1>8. PipeIds(p) \subseteq PipeIds(r)
  BY <1>1, <1>2 DEF PipeIds
<1>9. ASSUME NEW id \in nextId .. nextId + Len(bodies) - 1 PROVE id \in PipeIds(r)
  <2>1. id - nextId + 1 \in 1 .. Len(bodies) /\ nextId + (id - nextId + 1) - 1 = id
    BY <1>1
  <2> QED BY <1>3, <2>1, Zenon DEF PipeIds
<1> QED BY <1>6, <1>7, <1>8, <1>9, Zenon DEF Ascending, r, f

-----------------------------------------------------------------------------
(***************************************************************************)
(* Taking up the head of the pipeline keeps the order and the account, and *)
(* the head is the first command that is open in the ledger.               *)
(***************************************************************************)
LEMMA HeadTaken ==
    ASSUME TypeOK, pipeline # <<>>,
           InOrder(pipeline, handled, nextId), AllThere(pipeline, handled, aside, nextId)
    PROVE  LET taken == handled \cup {msg.id} IN
           /\ InOrder(Tail(pipeline), taken, nextId)
           /\ AllThere(Tail(pipeline), taken, aside, nextId)
           /\ msg.id \in (1 .. nextId - 1) \ (handled \cup aside)
           /\ \A other \in (1 .. nextId - 1) \ (handled \cup aside) : msg.id <= other
<1> DEFINE t == Tail(pipeline)
<1>1. pipeline \in Seq(WorkerMessage(Ids)) /\ Ascending(pipeline)
  BY TypeFacts DEF InOrder
<1>2. /\ Ascending(t) /\ t \in Seq(WorkerMessage(Ids))
      /\ PipeIds(pipeline) = PipeIds(t) \cup {msg.id}
      /\ msg.id \notin PipeIds(t)
      /\ \A id \in PipeIds(t) : msg.id < id
  BY <1>1, HeadFirst DEF msg
<1>3. PipeIds(pipeline) \subseteq Nat
  BY <1>1, PipeIdsNat
<1> HIDE DEF t
<1>4. InOrder(t, handled \cup {msg.id}, nextId)
  BY <1>2 DEF InOrder
<1>5. AllThere(t, handled \cup {msg.id}, aside, nextId)
  BY <1>2 DEF AllThere
<1>6. (1 .. nextId - 1) \ (handled \cup aside) = PipeIds(pipeline)
  BY DEF AllThere
<1>7. \A other \in PipeIds(pipeline) : msg.id <= other
  BY <1>2, <1>3
<1> QED BY <1>2, <1>4, <1>5, <1>6, <1>7 DEF t

(***************************************************************************)
(* A flush keeps the order, and the account unless the run panics; it only *)
(* adds to what the worker was answered, and only what was queued.         *)
(***************************************************************************)
LEMMA FlushKeepsOrder ==
    ASSUME TypeOK,
           NEW queue \in Seq(HostMessage(Ids)),
           NEW rest \in Seq(WorkerMessage(Ids)),
           NEW kept \in {rest, <<>>}, NEW next \in TaskSteps,
           NEW taken \in SUBSET Ids,
           InOrder(rest, taken, nextId), AllThere(rest, taken, aside, nextId),
           flushQueue(queue, rest, next, kept)
    PROVE  /\ InOrder(pipeline', taken, nextId')
           /\ \/ pc' = "panicked"
              \/ pc' = next /\ AllThere(pipeline', taken, aside, nextId')
           /\ nextId' >= nextId
           /\ delivered \subseteq delivered'
           /\ delivered' \subseteq delivered \cup AnsweredIn(queue)
           /\ AnsweredIn(mq') \subseteq AnsweredIn(queue)
<1>1. nextId \in Nat /\ aside \subseteq Nat /\ taken \subseteq Nat
  BY BoundsAssumption, TypeFacts DEF Ids
<1>2. InOrder(<<>>, taken, nextId)
  BY DEF InOrder, Ascending, PipeIds
<1>3. CASE queue = <<>> /\ mq' = queue /\ pipeline' = rest /\ pc' = next
           /\ UNCHANGED <<inLoop, nextId, delivered, started>>
  <2>1. nextId' >= nextId
    BY <1>1, <1>3
  <2> QED BY <1>3, <2>1
<1>4. CASE /\ \E bodies \in UpTo(Bodies, Room) :
                 /\ RefersBack(bodies)
                 /\ pipeline' = rest \o Frame(bodies)
                 /\ nextId' = nextId + Len(bodies)
           /\ Receive(queue) /\ mq' = <<>> /\ pc' = next /\ UNCHANGED inLoop
  <2>1. PICK bodies \in UpTo(Bodies, Room) :
                 /\ pipeline' = rest \o Frame(bodies)
                 /\ nextId' = nextId + Len(bodies)
    BY <1>4, Zenon
  <2>2. Len(bodies) \in Nat
    BY FrameProperties, Zenon
  <2>3. /\ Ascending(pipeline')
        /\ PipeIds(pipeline') = PipeIds(rest) \cup (nextId .. nextId + Len(bodies) - 1)
    BY <2>1, FrameContinues DEF InOrder
  <2>4. nextId' >= nextId /\ nextId' \in Nat
    BY <1>1, <2>1, <2>2
  <2>5. PipeIds(pipeline') = PipeIds(rest) \cup (nextId .. nextId' - 1)
    <3>1. nextId + Len(bodies) - 1 = nextId' - 1
      BY <1>1, <2>1, <2>2
    <3> QED BY ONLY <2>3, <3>1
  <2>6. PipeIds(rest) \subseteq Nat
    BY PipeIdsNat
  <2>7. \A other \in taken \cup aside : other < nextId
    BY <1>1 DEF AllThere
  <2>8. InOrder(pipeline', taken, nextId')
    BY <1>1, <2>3, <2>4, <2>5, <2>6, <2>7, SMTT(60) DEF InOrder
  <2>9. AllThere(pipeline', taken, aside, nextId')
    <3>1. 1 .. nextId' - 1 = (1 .. nextId - 1) \cup (nextId .. nextId' - 1)
      <4>1. nextId >= 1
        BY TypeFacts
      <4> QED BY <1>1, <2>4, <4>1
    <3>2. (nextId .. nextId' - 1) \cap (taken \cup aside) = {}
      <4>1. \A id \in nextId .. nextId' - 1 : id \in Nat /\ nextId <= id
        BY <1>1, <2>4
      <4>2. \A id \in taken \cup aside : id \in Nat /\ id < nextId
        BY <1>1, <2>7
      <4> QED BY ONLY <1>1, <4>1, <4>2
    <3> QED BY <2>5, <3>1, <3>2 DEF AllThere
  <2>10. AnsweredIn(mq') = {}
    BY <1>4, AnsweredInEmpty
  <2> QED BY <1>4, <2>4, <2>8, <2>9, <2>10, Zenon DEF Receive
<1>5. CASE /\ Receive(queue) \/ UNCHANGED <<delivered, started>>
           /\ mq' = queue /\ pipeline' = kept /\ Panic /\ UNCHANGED nextId
  <2>1. nextId' >= nextId
    BY <1>1, <1>5
  <2>2. InOrder(pipeline', taken, nextId')
    BY <1>2, <1>5
  <2> QED BY <1>5, <2>1, <2>2, Zenon DEF Receive, Panic
<1> QED BY <1>3, <1>4, <1>5, Zenon DEF flushQueue

(***************************************************************************)
(* A result makes its identifier wait, or queues it, and no other.         *)
(***************************************************************************)
LEMMA CallbackAnswers ==
    ASSUME TypeOK, NEW id \in Ids, NEW registered, createCallback(id, registered)
    PROVE  Range(callbacks') \cup AnsweredIn(mq') = Waiting \cup Queued \cup {id}
<1>1. mq \in Seq(HostMessage(Ids)) /\ callbacks \in Seq(Ids)
  BY TypeFacts
<1>2. CASE mq' = Append(mq, Answer(id)) /\ UNCHANGED callbacks
  BY <1>1, <1>2, AnsweredInAppendAnswer DEF Waiting, Queued
<1>3. CASE callbacks' = Append(callbacks, id) /\ UNCHANGED mq
  BY <1>1, <1>3, RangeAppend DEF Waiting, Queued
<1> QED BY <1>2, <1>3 DEF createCallback

-----------------------------------------------------------------------------
(***************************************************************************)
(* A step of the ledger's host, from what a step of the run does.          *)
(***************************************************************************)
LEMMA WorkStep ==
    ASSUME LedgerInv, Alive, TypeOK', Answerable',
           \/ UNCHANGED handled
           \/ pipeline # <<>> /\ handled' = handled \cup {msg.id},
           InOrder(pipeline', handled', nextId'),
           Alive' => AllThere(pipeline', handled', aside, nextId'),
           nextId' >= nextId, delivered \subseteq delivered', UNCHANGED aside
    PROVE  LedgerInv' /\ Promise!Next
<1>1. LedgerInv'
  BY DEF LedgerInv
<1>2. Promise!Take
  <2>1. CASE UNCHANGED handled
    BY <2>1 DEF Promise!Take
  <2>2. CASE pipeline # <<>> /\ handled' = handled \cup {msg.id}
    <3>1. /\ msg.id \in (1 .. nextId - 1) \ (handled \cup aside)
          /\ \A other \in (1 .. nextId - 1) \ (handled \cup aside) : msg.id <= other
      BY <2>2, HeadTaken DEF LedgerInv
    <3> QED BY <2>2, <3>1, ZenonT(60) DEF Promise!Take, Promise!Open
  <2> QED BY <2>1, <2>2
<1>3. Promise!Answer
  BY DEF Promise!Answer, Answerable
<1>4. nextId' - 1 >= nextId - 1
  <2>1. nextId \in Nat /\ nextId' \in Nat
    BY BoundsAssumption, TypeFacts, NextTypeFacts DEF LedgerInv
  <2>2. \A m, n \in Nat : n >= m => n - 1 >= m - 1
    OBVIOUS
  <2> QED BY <2>1, <2>2, Zenon
<1>5. (~Alive)' \in BOOLEAN
  OBVIOUS
<1>6. Promise!Work
  BY <1>2, <1>3, <1>4, <1>5, ZenonT(60) DEF Promise!Work
<1> QED BY <1>1, <1>6 DEF Promise!Next

(***************************************************************************)
(* A step that leaves the pipeline's identifiers, the handled commands and *)
(* the deliveries alone.                                                   *)
(***************************************************************************)
LEMMA QuietStep ==
    ASSUME LedgerInv, Alive, TypeOK', Answerable',
           UNCHANGED <<nextId, handled, aside, delivered>>,
           Ascending(pipeline'), PipeIds(pipeline') = PipeIds(pipeline)
    PROVE  LedgerInv' /\ Promise!Next
<1>1. InOrder(pipeline', handled', nextId')
  BY DEF LedgerInv, InOrder
<1>2. AllThere(pipeline', handled', aside, nextId')
  BY DEF LedgerInv, AllThere
<1>3. nextId' >= nextId
  BY BoundsAssumption, TypeFacts DEF LedgerInv
<1> QED BY <1>1, <1>2, <1>3, WorkStep

(***************************************************************************)
(* A step that takes the head off the pipeline and sends nothing.          *)
(***************************************************************************)
LEMMA TakeOnly ==
    ASSUME LedgerInv, Alive, TypeOK', Answerable', pipeline # <<>>,
           pipeline' = Tail(pipeline), handled' = handled \cup {msg.id},
           UNCHANGED <<nextId, aside, delivered>>
    PROVE  LedgerInv' /\ Promise!Next
<1>1. /\ InOrder(pipeline', handled', nextId')
      /\ AllThere(pipeline', handled', aside, nextId')
  BY HeadTaken DEF LedgerInv
<1>2. nextId' >= nextId
  BY BoundsAssumption, TypeFacts, SMTT(60) DEF LedgerInv
<1> QED BY <1>1, <1>2, WorkStep, ZenonT(60)

(***************************************************************************)
(* A step that takes the head off the pipeline, queues its answer and      *)
(* flushes the queue.                                                      *)
(***************************************************************************)
LEMMA TakeAndFlush ==
    ASSUME LedgerInv, Alive, TypeOK', pipeline # <<>>,
           NEW kept \in {Tail(pipeline), <<>>},
           flushQueue(Append(mq, Answer(msg.id)), Tail(pipeline), "pipeline", kept),
           handled' = handled \cup {msg.id},
           UNCHANGED <<aside, pending, callbacks, listeners>>
    PROVE  LedgerInv' /\ Promise!Next
<1> DEFINE queue == Append(mq, Answer(msg.id))
           taken == handled \cup {msg.id}
<1>1. /\ msg.id \in Ids /\ Tail(pipeline) \in Seq(WorkerMessage(Ids))
      /\ mq \in Seq(HostMessage(Ids)) /\ handled \subseteq Ids
  BY HandledMessage, TypeFacts, Zenon DEF LedgerInv
<1>2. queue \in Seq(HostMessage(Ids)) /\ AnsweredIn(queue) = Queued \cup {msg.id}
  BY <1>1, AnsweredInAppendAnswer, ZenonT(60) DEF Queued
<1>3. /\ InOrder(Tail(pipeline), taken, nextId)
      /\ AllThere(Tail(pipeline), taken, aside, nextId)
  BY HeadTaken DEF LedgerInv
<1> HIDE DEF queue
<1>4. taken \in SUBSET Ids
  BY <1>1
<1> HIDE DEF taken
<1>5. /\ InOrder(pipeline', taken, nextId')
      /\ \/ pc' = "panicked"
         \/ pc' = "pipeline" /\ AllThere(pipeline', taken, aside, nextId')
      /\ nextId' >= nextId
      /\ delivered \subseteq delivered'
      /\ delivered' \subseteq delivered \cup AnsweredIn(queue)
      /\ AnsweredIn(mq') \subseteq AnsweredIn(queue)
  <2>1. "pipeline" \in TaskSteps
    BY DEF TaskSteps
  <2>2. flushQueue(queue, Tail(pipeline), "pipeline", kept)
    BY Zenon DEF queue
  <2>3. TypeOK
    BY Zenon DEF LedgerInv
  <2> QED BY <1>1, <1>2, <1>3, <1>4, <2>1, <2>2, <2>3, FlushKeepsOrder, Zenon
<1>6. Answerable'
  BY <1>2, <1>5, Zenon DEF LedgerInv, Answerable, Waiting, Queued, taken
<1> QED BY <1>5, <1>6, WorkStep DEF Alive, taken

(***************************************************************************)
(* The host asks something of the worker, between commands or at the end.  *)
(***************************************************************************)
LEMMA AskStep ==
    ASSUME LedgerInv, TypeOK', runCommand,
           UNCHANGED <<pipeline, handled, delivered, pending, callbacks, listeners>>,
           mq' \in {mq, <<>>}, Alive' => Alive
    PROVE  LedgerInv' /\ Promise!Next
<1>1. /\ nextId \in Nat /\ nextId >= 1 /\ nextId' \in Nat /\ nextId' >= nextId
      /\ aside' = aside \cup (nextId .. nextId' - 1)
      /\ aside \subseteq Nat /\ handled \subseteq Nat
      /\ PipeIds(pipeline) \subseteq Nat
  <2>1. TypeOK
    BY Zenon DEF LedgerInv
  <2>2. /\ nextId \in 1 .. MaxId + 1 /\ nextId' \in 1 .. MaxId + 1 /\ nextId' >= nextId
        /\ aside' = aside \cup (nextId .. nextId' - 1)
    BY <2>1, RunCommandTypes, TypeFacts, Zenon
  <2>3. aside \subseteq Nat /\ handled \subseteq Nat
    BY <2>1, TypeFacts, SMTT(60) DEF Ids
  <2>4. PipeIds(pipeline) \subseteq Nat
    BY <2>1, PipeIdsNat, TypeFacts, Zenon
  <2> QED BY <2>2, <2>3, <2>4, BoundsAssumption, SMTT(60)
<1>2. Answerable'
  <2>1. AnsweredIn(mq') \subseteq Queued
    BY AnsweredInEmpty DEF Queued
  <2> QED BY <2>1 DEF LedgerInv, Answerable, Waiting, Queued
<1>3. InOrder(pipeline', handled', nextId')
  BY <1>1 DEF LedgerInv, InOrder
<1>4. ASSUME Alive PROVE AllThere(pipeline', handled', aside', nextId')
  <2>1. AllThere(pipeline, handled, aside, nextId)
    BY <1>4 DEF LedgerInv
  <2>2. 1 .. nextId' - 1 = (1 .. nextId - 1) \cup (nextId .. nextId' - 1)
    BY <1>1
  <2>3. (nextId .. nextId' - 1) \cap (1 .. nextId - 1) = {}
    <3>1. \A m, n \in Nat : (m .. n - 1) \cap (1 .. m - 1) = {}
      OBVIOUS
    <3> QED BY <1>1, <3>1, Zenon
  <2> QED BY <1>1, <2>1, <2>2, <2>3, Zenon DEF AllThere
<1>5. Promise!Ask
  <2>1. nextId' - 1 >= nextId - 1 /\ (nextId - 1) + 1 = nextId
    <3>1. \A m, n \in Nat : n >= m => n - 1 >= m - 1 /\ (m - 1) + 1 = m
      OBVIOUS
    <3> QED BY <1>1, <3>1, Zenon
  <2> QED BY <1>1, <2>1, Zenon DEF Promise!Ask
<1> QED BY <1>2, <1>3, <1>4, <1>5 DEF LedgerInv, Promise!Next

-----------------------------------------------------------------------------
(***************************************************************************)
(* Handling one message of the pipeline keeps the invariant and is a step  *)
(* of the ledger.                                                          *)
(***************************************************************************)
LEMMA HandleMessageLedger ==
    ASSUME LedgerInv, TypeOK', HandleMessage
    PROVE  LedgerInv' /\ Promise!Next
<1>1. TypeOK /\ Answerable
  BY DEF LedgerInv
<1>2. pc = "pipeline" /\ pipeline # <<>>
  BY Zenon DEF HandleMessage, SkipResponse, ExecuteOperation, ExecuteChildWorkflow,
         GetChildWorkflowExecution, GetVersion, SideEffect, CompleteWorkflow,
         UpsertWorkflowSearchAttributes, CancelNext, CancelDone, FailMessage,
         Handling
<1>3. Alive
  BY <1>2 DEF Alive
<1>4. /\ msg \in WorkerMessage(Ids) /\ msg.id \in Ids /\ msg.ids \in Seq(Ids)
      /\ pipeline \in Seq(WorkerMessage(Ids)) /\ mq \in Seq(HostMessage(Ids))
  BY <1>1, <1>2, HandledMessage, TypeFacts, Zenon
<1>5. CASE SkipResponse \/ UpsertWorkflowSearchAttributes
  <2>1. Answerable'
    BY <1>1, <1>5 DEF SkipResponse, UpsertWorkflowSearchAttributes, Answerable,
                      Waiting, Queued, sdk
  <2> QED BY <1>2, <1>3, <1>5, <2>1, TakeOnly, ZenonT(60) DEF SkipResponse,
             UpsertWorkflowSearchAttributes
<1>6. ASSUME NEW registered,
             OperationTaken(registered) \/ OperationCalledBack(registered),
             handled' = handled \cup {msg.id}, pipeline' = Tail(pipeline),
             UNCHANGED <<listeners, delivered, nextId, aside>>
      PROVE  LedgerInv' /\ Promise!Next
  <2>1. CASE OperationTaken(registered)
    <3>1. Answerable'
      BY <1>1, <1>6, <2>1, Zenon DEF OperationTaken, Answerable, Waiting, Queued
    <3> QED BY <1>2, <1>3, <1>6, <3>1, TakeOnly, Zenon
  <2>2. CASE OperationCalledBack(registered)
    <3>1. Range(callbacks') \cup AnsweredIn(mq') = Waiting \cup Queued \cup {msg.id}
      BY <1>1, <1>4, <2>2, CallbackAnswers, Zenon DEF OperationCalledBack
    <3>2. Answerable'
      BY <1>1, <1>6, <2>2, <3>1, ZenonT(60) DEF OperationCalledBack, Answerable, Waiting,
         Queued
    <3> QED BY <1>2, <1>3, <1>6, <3>2, TakeOnly
  <2> QED BY <1>6, <2>1, <2>2
<1>7. CASE ExecuteOperation
  <2>1. PICK registered : OperationTaken(registered) \/ OperationCalledBack(registered)
    BY <1>7 DEF ExecuteOperation
  <2> QED BY <1>6, <1>7, <2>1 DEF ExecuteOperation
<1>8. CASE ExecuteChildWorkflow
  <2>1. OperationTaken({msg.id}) \/ OperationCalledBack({msg.id})
    BY <1>8 DEF ExecuteChildWorkflow
  <2> QED BY <1>6, <1>8, <2>1 DEF ExecuteChildWorkflow
<1>9. CASE GetChildWorkflowExecution
  <2>1. /\ handled' = handled \cup {msg.id} /\ pipeline' = Tail(pipeline)
        /\ listeners' = [listeners EXCEPT ![Head(msg.ids)] = msg.id]
        /\ UNCHANGED <<delivered, nextId, aside, pending>>
        /\ \/ UNCHANGED <<mq, callbacks>>
           \/ createCallback(msg.id, {})
    BY <1>9 DEF GetChildWorkflowExecution, sdk
  <2>2. Range(callbacks') \cup AnsweredIn(mq') \subseteq Waiting \cup Queued \cup {msg.id}
    <3>1. CASE UNCHANGED <<mq, callbacks>>
      BY <3>1 DEF Waiting, Queued
    <3>2. CASE createCallback(msg.id, {})
      BY <1>1, <1>4, <3>2, CallbackAnswers, Zenon
    <3> QED BY <2>1, <3>1, <3>2
  <2>3. \A child \in Ids : listeners'[child] \in handled' \cup {0}
    BY <1>1, <2>1, TypeFacts, Zenon DEF Answerable
  <2>4. Answerable'
    BY <1>1, <2>1, <2>2, <2>3 DEF Answerable, Waiting, Queued
  <2> QED BY <1>2, <1>3, <2>1, <2>4, TakeOnly, ZenonT(60)
<1>10. CASE GetVersion \/ CancelDone
  <2>1. /\ flushQueue(Append(mq, Answer(msg.id)), Tail(pipeline), "pipeline", <<>>)
        /\ handled' = handled \cup {msg.id}
        /\ UNCHANGED <<aside, pending, callbacks, listeners>>
    BY <1>10, Zenon DEF GetVersion, CancelDone, sdk
  <2> QED BY <1>2, <1>3, <2>1, TakeAndFlush
<1>11. CASE SideEffect \/ CompleteWorkflow
  <2>1. /\ handled' = handled \cup {msg.id}
        /\ UNCHANGED <<aside, pending, callbacks, listeners>>
    BY <1>11 DEF SideEffect, CompleteWorkflow, sdk
  <2>2. CASE /\ mq' = Append(mq, Answer(msg.id)) /\ pipeline' = Tail(pipeline)
             /\ UNCHANGED <<nextId, delivered>>
    <3>1. AnsweredIn(mq') = Queued \cup {msg.id}
      BY <1>4, <2>2, AnsweredInAppendAnswer, Zenon DEF Queued
    <3>2. Answerable'
      BY <1>1, <2>1, <2>2, <3>1, Zenon DEF Answerable, Waiting, Queued
    <3> QED BY <1>2, <1>3, <2>1, <2>2, <3>2, TakeOnly, Zenon
  <2>3. CASE flushQueue(Append(mq, Answer(msg.id)), Tail(pipeline), "pipeline",
                        Tail(pipeline))
    BY <1>2, <1>3, <2>1, <2>3, TakeAndFlush, ZenonT(60)
  <2> QED BY <1>11, <2>2, <2>3, ZenonT(60) DEF SideEffect, CompleteWorkflow
<1>12. CASE CancelNext
  <2> DEFINE m == [msg EXCEPT !.ids = Tail(@)]
  <2>1. m \in WorkerMessage(Ids) /\ m.id = Head(pipeline).id
    <3>1. Tail(msg.ids) \in Seq(Ids)
      BY <1>4, <1>12, OfHeadTail, Zenon DEF CancelNext
    <3> QED BY <1>4, <3>1, Zenon DEF WorkerMessage, msg
  <2>2. pipeline' = <<m>> \o Tail(pipeline)
        /\ UNCHANGED <<nextId, handled, aside, delivered, listeners>>
    BY <1>12, Zenon DEF CancelNext, history
  <2> HIDE DEF m
  <2>3. Ascending(pipeline') /\ PipeIds(pipeline') = PipeIds(pipeline)
    BY <1>2, <1>4, <2>1, <2>2, HeadReplaced, Zenon DEF LedgerInv, InOrder
  <2>4. Answerable'
    <3>1. CASE UNCHANGED <<mq, callbacks, pending>>
      BY <1>1, <2>2, <3>1, Zenon DEF Answerable, Waiting, Queued
    <3>2. CASE /\ Head(msg.ids) \in canceller \cap pending
               /\ createCallback(Head(msg.ids), {})
               /\ pending' = pending \ {Head(msg.ids)}
      <4>1. Head(msg.ids) \in Ids
        BY <1>1, <3>2, TypeFacts, ZenonT(60)
      <4>2. Range(callbacks') \cup AnsweredIn(mq') =
                Waiting \cup Queued \cup {Head(msg.ids)}
        BY <1>1, <3>2, <4>1, CallbackAnswers, Zenon
      <4> QED BY <1>1, <2>2, <3>2, <4>2, Zenon DEF Answerable, Waiting, Queued
    <3> QED BY <1>12, <3>1, <3>2, Zenon DEF CancelNext
  <2> QED BY <1>3, <2>2, <2>3, <2>4, QuietStep
<1>13. CASE FailMessage
  <2>1. Answerable'
    BY <1>1, <1>13, Zenon DEF FailMessage, Answerable, Waiting, Queued, sdk
  <2>2. /\ InOrder(pipeline', handled', nextId') /\ ~Alive'
        /\ handled' = handled \cup {msg.id} /\ UNCHANGED <<nextId, aside, delivered>>
    BY <1>13, SMTT(60) DEF FailMessage, Panic, Alive, InOrder, Ascending, PipeIds
  <2>3. nextId' >= nextId
    BY <1>1, <2>2, BoundsAssumption, TypeFacts, SMTT(60)
  <2> QED BY <1>2, <1>3, <2>1, <2>2, <2>3, WorkStep, Zenon
<1> QED BY <1>5, <1>7, <1>8, <1>9, <1>10, <1>11, <1>12, <1>13, Zenon DEF HandleMessage

(***************************************************************************)
(* Every step of the run keeps the invariant and is a step of the ledger.  *)
(***************************************************************************)
LEMMA LedgerStep ==
    ASSUME LedgerInv, [Next]_vars
    PROVE  LedgerInv' /\ [Promise!Next]_(Promise!vars)
<1>1. TypeOK /\ Answerable /\ InOrder(pipeline, handled, nextId)
  BY DEF LedgerInv
<1>2. TypeOK'
  BY <1>1, TypeOKStep
<1>3. mq \in Seq(HostMessage(Ids)) /\ callbacks \in Seq(Ids)
  BY <1>1, TypeFacts, Zenon
<1>4. ASSUME Alive, Answerable', UNCHANGED <<nextId, handled, aside, delivered, pipeline>>
      PROVE  LedgerInv' /\ Promise!Next
  <2>1. Ascending(pipeline') /\ PipeIds(pipeline') = PipeIds(pipeline)
    BY <1>1, <1>4 DEF InOrder
  <2> QED BY <1>2, <1>4, <2>1, QuietStep
<1>5. CASE Execute
  <2>1. Alive /\ UNCHANGED <<nextId, handled, aside, delivered, pipeline, pending, callbacks>>
        /\ mq' = Append(<<>>, Command("StartWorkflow"))
        /\ listeners' = [i \in Ids |-> 0]
    BY <1>5 DEF Execute, Alive, history, sdk
  <2>2. AnsweredIn(mq') = {}
    <3>1. <<>> \in Seq(HostMessage(Ids)) /\ "StartWorkflow" \in HostCommands
      BY DEF HostCommands
    <3>2. AnsweredIn(Append(<<>>, Command("StartWorkflow"))) = AnsweredIn(<<>>)
      BY <3>1, AnsweredInAppendCommand, Zenon
    <3> QED BY <2>1, <3>2, AnsweredInEmpty
  <2>3. Answerable'
    BY <1>1, <2>1, <2>2 DEF Answerable, Waiting, Queued
  <2> QED BY <1>4, <2>1, <2>3, Zenon
<1>6. CASE handleSignal \/ handleCancel
  <2>1. /\ Alive
        /\ UNCHANGED <<nextId, handled, aside, delivered, pipeline, pending, callbacks,
                       listeners>>
        /\ \E cmd \in HostCommands : mq' = Append(mq, Command(cmd))
    BY <1>6 DEF handleSignal, handleCancel, Running, Alive, history, sdk, HostCommands
  <2>2. AnsweredIn(mq') = Queued
    BY <1>3, <2>1, AnsweredInAppendCommand, Zenon DEF Queued
  <2>3. Answerable'
    BY <1>1, <2>1, <2>2, ZenonT(60) DEF Answerable, Waiting, Queued
  <2> QED BY <1>4, <2>1, <2>3, ZenonT(60)
<1>7. CASE (\E u \in Updates : handleUpdate(u)) \/ UpdatesHandled \/ TaskDone
  <2>1. /\ Alive
        /\ UNCHANGED <<nextId, handled, aside, delivered, pipeline, pending, callbacks,
                       listeners, mq>>
    BY <1>7, Zenon DEF handleUpdate, UpdatesHandled, TaskDone, Running, Alive, history, sdk,
                process
  <2>2. Answerable'
    BY <1>1, <2>1 DEF Answerable, Waiting, Queued
  <2> QED BY <1>4, <2>1, <2>2
<1>8. CASE \E id \in Ids : OperationDone(id)
  <2>1. PICK id \in Ids : OperationDone(id)
    BY <1>8, Zenon
  <2>2. /\ Alive /\ id \in pending /\ pending' = pending \ {id}
        /\ UNCHANGED <<nextId, handled, aside, delivered, pipeline, listeners>>
    BY <2>1, Zenon DEF OperationDone, Running, Alive, history
  <2>3. Range(callbacks') \cup AnsweredIn(mq') = Waiting \cup Queued \cup {id}
    BY <1>1, <2>1, CallbackAnswers, ZenonT(60) DEF OperationDone
  <2>4. Answerable'
    BY <1>1, <2>2, <2>3 DEF Answerable, Waiting, Queued
  <2> QED BY <1>4, <2>2, <2>4
<1>9. CASE \E child \in Ids : ChildStarted(child)
  <2>1. PICK child \in Ids : ChildStarted(child)
    BY <1>9
  <2>2. /\ Alive
        /\ UNCHANGED <<nextId, handled, aside, delivered, pipeline, pending, listeners>>
    BY <2>1, ZenonT(60) DEF ChildStarted, Running, Alive, history
  <2>3. Range(callbacks') \cup AnsweredIn(mq') \subseteq handled
    <3>1. CASE UNCHANGED <<mq, callbacks>>
      BY <1>1, <3>1, Zenon DEF Answerable, Waiting, Queued
    <3>2. CASE listeners[child] # 0 /\ createCallback(listeners[child], {})
      <4>1. listeners[child] \in handled /\ listeners[child] \in Ids
        BY <1>1, <3>2, TypeFacts, ZenonT(60) DEF Answerable
      <4> QED BY <1>1, <3>2, <4>1, CallbackAnswers, Zenon DEF Answerable
    <3> QED BY <2>1, <3>1, <3>2 DEF ChildStarted
  <2>4. Answerable'
    BY <1>1, <2>2, <2>3 DEF Answerable, Waiting, Queued
  <2> QED BY <1>4, <2>2, <2>4, Zenon
<1>10. CASE OnWorkflowTaskStarted
  <2>1. /\ Alive /\ mq' = mq \o AnswersOf(callbacks) /\ callbacks' = <<>>
        /\ UNCHANGED <<nextId, handled, aside, delivered, pipeline, pending, listeners>>
    BY <1>10, ZenonT(60) DEF OnWorkflowTaskStarted, Running, Alive, history, sdk, AnswersOf
  <2>2. AnsweredIn(mq') = Queued \cup Waiting
    BY <1>3, <2>1, AnswersOfProperties DEF Queued, Waiting
  <2>3. Range(callbacks') = {}
    BY <2>1, SMTT(60) DEF Range
  <2>4. Answerable'
    BY <1>1, <2>1, <2>2, <2>3, Zenon DEF Answerable, Waiting, Queued
  <2> QED BY <1>4, <2>1, <2>4, Zenon
<1>11. CASE FirstFlush
  <2>1. /\ Alive /\ flushQueue(mq, pipeline, "updates", pipeline)
        /\ UNCHANGED <<callbacks, listeners, pending, handled, aside>>
    BY <1>11, Zenon DEF FirstFlush, Alive, sdk
  <2>2. /\ pipeline \in Seq(WorkerMessage(Ids)) /\ handled \in SUBSET Ids
        /\ "updates" \in TaskSteps /\ AllThere(pipeline, handled, aside, nextId)
        /\ pipeline \in {pipeline, <<>>}
    BY <1>1, <2>1, TypeFacts, Zenon DEF TaskSteps, LedgerInv
  <2>3. /\ InOrder(pipeline', handled, nextId')
        /\ \/ pc' = "panicked"
           \/ pc' = "updates" /\ AllThere(pipeline', handled, aside, nextId')
        /\ nextId' >= nextId
        /\ delivered \subseteq delivered'
        /\ delivered' \subseteq delivered \cup Queued
        /\ AnsweredIn(mq') \subseteq Queued
    BY <1>1, <1>3, <2>1, <2>2, FlushKeepsOrder, Zenon DEF Queued
  <2>4. Answerable'
    BY <1>1, <2>1, <2>3, Zenon DEF Answerable, Waiting, Queued
  <2> QED BY <1>2, <2>1, <2>3, <2>4, WorkStep, Zenon DEF Alive
<1>12. CASE handleQuery \/ StackTrace \/ Close
  <2>1. /\ runCommand /\ mq' \in {mq, <<>>} /\ (Alive' => Alive)
        /\ UNCHANGED <<pipeline, handled, delivered, pending, callbacks, listeners>>
    BY <1>12, Zenon DEF handleQuery, StackTrace, Close, Alive, process, sdk
  <2> QED BY <1>2, <2>1, AskStep, Zenon
<1>13. CASE HandleQueuedUpdates
  <2>1. /\ Alive /\ UNCHANGED <<pc, mq, pipeline, handled, delivered, pending,
                                callbacks, listeners>>
    BY <1>13 DEF HandleQueuedUpdates, Alive
  <2>2. CASE runCommand
    BY <1>2, <2>1, <2>2, AskStep, Zenon DEF Alive
  <2>3. CASE UNCHANGED <<nextId, aside>>
    <3>1. Answerable'
      BY <1>1, <2>1 DEF Answerable, Waiting, Queued
    <3> QED BY <1>4, <2>1, <2>3, <3>1, ZenonT(60)
  <2> QED BY <1>13, <2>2, <2>3, ZenonT(60) DEF HandleQueuedUpdates
<1>14. CASE HandleMessage
  BY <1>2, <1>14, HandleMessageLedger
<1>15. CASE UNCHANGED vars
  <2>1. UNCHANGED <<pc, nextId, handled, aside, delivered, pipeline, pending, callbacks,
                    listeners, mq>>
    BY <1>15, ZenonT(60) DEF vars, process, sdk, history
  <2>2. LedgerInv'
    BY <1>2, <2>1 DEF LedgerInv, Answerable, Waiting, Queued, Alive
  <2>3. UNCHANGED Promise!vars
    BY <2>1 DEF Promise!vars, Alive
  <2> QED BY <2>2, <2>3, Zenon
<1> QED BY <1>5, <1>6, <1>7, <1>8, <1>9, <1>10, <1>11, <1>12, <1>13, <1>14, <1>15,
           ZenonT(60) DEF Next, TaskStep, Closed

(***************************************************************************)
(* Initially nothing was sent, and the ledger is in its initial state.     *)
(***************************************************************************)
LEMMA LedgerInit == Init => LedgerInv /\ Promise!Init
<1> SUFFICES ASSUME Init PROVE LedgerInv /\ Promise!Init
  OBVIOUS
<1>1. TypeOK
  BY InitTypeOK
<1>2. /\ nextId = 1 /\ handled = {} /\ aside = {} /\ delivered = {} /\ pc = "new"
      /\ pipeline = <<>> /\ mq = <<>> /\ callbacks = <<>> /\ pending = {}
      /\ listeners = [i \in Ids |-> 0]
  BY DEF Init
<1>3. PipeIds(pipeline) = {} /\ Ascending(pipeline)
  BY <1>2 DEF PipeIds, Ascending
<1>4. InOrder(pipeline, handled, nextId) /\ AllThere(pipeline, handled, aside, nextId)
  BY <1>2, <1>3 DEF InOrder, AllThere
<1>5. Answerable
  BY <1>2, AnsweredInEmpty DEF Answerable, Waiting, Queued, Range
<1>6. Alive
  BY <1>2 DEF Alive
<1>7. Promise!Init
  BY <1>2, <1>6 DEF Promise!Init
<1> QED BY <1>1, <1>4, <1>5, <1>7 DEF LedgerInv

(***************************************************************************)
(* The order, the account and the answers hold in every state of a run.    *)
(***************************************************************************)
LEMMA LedgerInvariant == Spec => []LedgerInv
<1>1. LedgerInv /\ [Next]_vars => LedgerInv'
  BY LedgerStep
<1> QED BY <1>1, LedgerInit, PTL DEF Spec

-----------------------------------------------------------------------------
(***************************************************************************)
(* Every run of the workflow is a run of the ledger: the worker's commands *)
(* are taken up in the order it sent them, none is passed over, only what  *)
(* was taken up is answered, and nothing once the run has ended.           *)
(***************************************************************************)
THEOREM LedgerIsKept == Spec => LedgerKept
<1>1. LedgerInv /\ [Next]_vars => [Promise!Next]_(Promise!vars)
  BY LedgerStep
<1>2. Init => Promise!Init
  BY LedgerInit, Zenon
<1> QED BY <1>1, <1>2, LedgerInvariant, PTL DEF Spec, LedgerKept, Promise!Spec

(***************************************************************************)
(* No command of the worker is dropped or repeated while the run is alive, *)
(* wherever flushes fall among the commands.                               *)
(***************************************************************************)
THEOREM CommandsAreAccounted == Spec => []CommandsAccounted
<1>1. LedgerInv => CommandsAccounted
  BY Zenon DEF LedgerInv, AllThere, PipeIds, CommandsAccounted
<1> QED BY <1>1, LedgerInvariant, PTL

(***************************************************************************)
(* The loop handles the worker's commands in the order it sent them.       *)
(***************************************************************************)
THEOREM CommandsInOrder == Spec => []HandledInOrder
<1>1. LedgerInv => HandledInOrder
  BY Zenon DEF LedgerInv, InOrder, Ascending, PipeIds, HandledInOrder
<1> QED BY <1>1, LedgerInvariant, PTL

-----------------------------------------------------------------------------
(***************************************************************************)
(* The listeners of the child registry.  That a child which starts within  *)
(* its own call has no listener yet follows from the order of the commands:*)
(* a listener was registered by a handled command, for an earlier one.     *)
(***************************************************************************)
(***************************************************************************)
(* The answers on their way to the worker, or with it.                     *)
(***************************************************************************)
Given == Waiting \cup Queued \cup delivered

(***************************************************************************)
(* A child is looked up by a command the worker sent after the one that    *)
(* started it: in the pipeline, and once the listener is registered.       *)
(***************************************************************************)
LookUp(m) == m.cmd = "GetChildWorkflowExecution" => Head(m.ids) < m.id

LookUps(p) == \A i \in DOMAIN p : LookUp(p[i])

ListensBack == \A child \in Ids : listeners[child] # 0 => child < listeners[child]

ListenerInv == LookUps(pipeline) /\ ListensBack /\ ListenerServed

-----------------------------------------------------------------------------
(***************************************************************************)
(* What is left of the pipeline looks up earlier commands only.            *)
(***************************************************************************)
LEMMA LookUpsTail ==
    ASSUME NEW p \in Seq(WorkerMessage(Ids)), p # <<>>, LookUps(p)
    PROVE  LookUps(Tail(p)) /\ LookUp(Head(p))
<1>1. /\ Len(p) \in Nat /\ Len(p) >= 1
      /\ DOMAIN p = 1 .. Len(p)
      /\ DOMAIN Tail(p) = 1 .. Len(p) - 1
      /\ \A i \in 1 .. Len(p) - 1 : Tail(p)[i] = p[i + 1]
      /\ Head(p) = p[1]
  BY OfHeadTail
<1>2. \A i \in 1 .. Len(p) - 1 : i + 1 \in DOMAIN p
  BY <1>1, SMTT(60)
<1> QED BY <1>1, <1>2 DEF LookUps

(***************************************************************************)
(* The message a Cancel leaves at the head looks nothing up.               *)
(***************************************************************************)
LEMMA LookUpsHead ==
    ASSUME NEW p \in Seq(WorkerMessage(Ids)), LookUps(p),
           NEW m \in WorkerMessage(Ids), LookUp(m)
    PROVE  LookUps(<<m>> \o p)
<1> DEFINE r == <<m>> \o p
<1>1. <<m>> \in Seq(WorkerMessage(Ids)) /\ Len(<<m>>) = 1
  BY SMTT(60)
<1>2. /\ Len(r) = 1 + Len(p) /\ r \in Seq(WorkerMessage(Ids))
      /\ \A i \in 1 .. 1 + Len(p) : r[i] = IF i <= 1 THEN <<m>>[i] ELSE p[i - 1]
  BY <1>1, OfConcat, ZenonT(60)
<1>3. DOMAIN r = 1 .. 1 + Len(p) /\ DOMAIN p = 1 .. Len(p) /\ Len(p) \in Nat
  BY <1>2
<1> HIDE DEF r
<1>4. ASSUME NEW i \in 1 .. 1 + Len(p) PROVE LookUp(r[i])
  <2>1. CASE i = 1
    BY <1>2, <2>1, SMTT(60)
  <2>2. CASE i # 1
    <3>1. i - 1 \in DOMAIN p /\ r[i] = p[i - 1]
      BY <1>2, <1>3, <2>2, SMTT(60)
    <3> QED BY <3>1, Zenon DEF LookUps
  <2> QED BY <2>1, <2>2, Zenon
<1> QED BY <1>3, <1>4 DEF LookUps, r

(***************************************************************************)
(* The worker refers to commands it sent before, so its frames look those up.*)
(***************************************************************************)
LEMMA LookUpsFrame ==
    ASSUME TypeOK, NEW bodies \in UpTo(Bodies, Room), RefersBack(bodies)
    PROVE  LookUps(Frame(bodies))
<1>1. DOMAIN Frame(bodies) = DOMAIN bodies
  BY DEF Frame
<1>2. SUFFICES ASSUME NEW i \in DOMAIN bodies,
                      bodies[i].cmd = "GetChildWorkflowExecution"
               PROVE  Head(bodies[i].ids) < nextId + i - 1
  BY <1>1, Zenon DEF LookUps, LookUp, Frame
<1>3. bodies[i] \in Bodies
  BY DEF UpTo
<1>4. PICK c \in Repertoire : \E r \in References(c) : bodies[i] = [cmd |-> c, ids |-> r]
  BY <1>3, Zenon DEF Bodies
<1>5. PICK k \in Ids : bodies[i].ids = <<k>>
  BY <1>2, <1>4, SMTT(60) DEF References
<1>6. k \in Range(bodies[i].ids) /\ Head(bodies[i].ids) = k
  BY <1>5, SMTT(60) DEF Range
<1> QED BY <1>6, Zenon DEF RefersBack

(***************************************************************************)
(* Two stretches of the pipeline that look up earlier commands, joined.    *)
(***************************************************************************)
LEMMA LookUpsJoined ==
    ASSUME NEW p \in Seq(WorkerMessage(Ids)), NEW f \in Seq(WorkerMessage(Ids)),
           LookUps(p), LookUps(f)
    PROVE  LookUps(p \o f)
<1> DEFINE r == p \o f
<1>1. /\ Len(r) = Len(p) + Len(f) /\ r \in Seq(WorkerMessage(Ids))
      /\ \A i \in 1 .. Len(p) + Len(f) : r[i] = IF i <= Len(p) THEN p[i] ELSE f[i - Len(p)]
  BY OfConcat, Zenon
<1>2. /\ DOMAIN r = 1 .. Len(p) + Len(f)
      /\ DOMAIN p = 1 .. Len(p) /\ Len(p) \in Nat
      /\ DOMAIN f = 1 .. Len(f) /\ Len(f) \in Nat
  BY <1>1
<1> HIDE DEF r
<1>3. ASSUME NEW i \in 1 .. Len(p) + Len(f) PROVE LookUp(r[i])
  <2>1. CASE i <= Len(p)
    <3>1. i \in DOMAIN p
      BY <1>2, <2>1, SMTT(60)
    <3>2. r[i] = p[i]
      BY <1>1, <2>1, Zenon
    <3> QED BY <3>1, <3>2 DEF LookUps
  <2>2. CASE ~(i <= Len(p))
    <3>1. i - Len(p) \in DOMAIN f /\ r[i] = f[i - Len(p)]
      BY <1>1, <1>2, <2>2
    <3> QED BY <3>1, Zenon DEF LookUps
  <2> QED BY <2>1, <2>2, Zenon
<1> QED BY <1>2, <1>3, Zenon DEF LookUps, r

(***************************************************************************)
(* A flush brings in commands that look up earlier ones, and loses no      *)
(* answer of the queue unless the run panics.                              *)
(***************************************************************************)
LEMMA FlushListens ==
    ASSUME TypeOK, NEW queue, NEW rest \in Seq(WorkerMessage(Ids)),
           NEW kept \in {rest, <<>>}, NEW next, LookUps(rest),
           flushQueue(queue, rest, next, kept)
    PROVE  /\ LookUps(pipeline')
           /\ \/ pc' = "panicked"
              \/ delivered \cup AnsweredIn(queue) \subseteq delivered' \cup AnsweredIn(mq')
<1>1. LookUps(<<>>)
  BY DEF LookUps
<1>2. CASE queue = <<>> /\ mq' = queue /\ pipeline' = rest /\ UNCHANGED delivered
  BY <1>2
<1>3. CASE /\ \E bodies \in UpTo(Bodies, Room) :
                 RefersBack(bodies) /\ pipeline' = rest \o Frame(bodies)
           /\ Receive(queue)
  <2>1. PICK bodies \in UpTo(Bodies, Room) :
                 RefersBack(bodies) /\ pipeline' = rest \o Frame(bodies)
    BY <1>3
  <2>2. Frame(bodies) \in Seq(WorkerMessage(Ids))
    BY FrameProperties, Zenon
  <2>3. LookUps(pipeline')
    BY <2>1, <2>2, LookUpsFrame, LookUpsJoined, Zenon
  <2> QED BY <1>3, <2>3, Zenon DEF Receive
<1>4. CASE pipeline' = kept /\ Panic
  BY <1>1, <1>4, Zenon DEF Panic
<1> QED BY <1>2, <1>3, <1>4, Zenon DEF flushQueue

(***************************************************************************)
(* A step that moves no child and no listener, and loses no answer.        *)
(***************************************************************************)
LEMMA ListenersStay ==
    ASSUME ListenerInv, LookUps(pipeline'), UNCHANGED <<listeners, childIds>>,
           Alive' => Alive /\ Given \subseteq Given'
    PROVE  ListenerInv'
BY DEF ListenerInv, ListensBack, ListenerServed, Given

-----------------------------------------------------------------------------
(***************************************************************************)
(* Handling one message of the pipeline keeps the invariant of the         *)
(* listeners.                                                              *)
(***************************************************************************)
LEMMA HandleMessageListens ==
    ASSUME LedgerInv, ListenerInv, TypeOK', HandleMessage
    PROVE  ListenerInv'
<1>1. TypeOK /\ Answerable /\ InOrder(pipeline, handled, nextId)
  BY DEF LedgerInv
<1>2. pc = "pipeline" /\ pipeline # <<>>
  BY Zenon DEF HandleMessage, SkipResponse, ExecuteOperation, ExecuteChildWorkflow,
         GetChildWorkflowExecution, GetVersion, SideEffect, CompleteWorkflow,
         UpsertWorkflowSearchAttributes, CancelNext, CancelDone, FailMessage,
         Handling
<1>3. Alive
  BY <1>2 DEF Alive
<1>4. /\ msg \in WorkerMessage(Ids) /\ msg.id \in Ids /\ msg.ids \in Seq(Ids)
      /\ Tail(pipeline) \in Seq(WorkerMessage(Ids))
      /\ pipeline \in Seq(WorkerMessage(Ids)) /\ mq \in Seq(HostMessage(Ids))
  BY <1>1, <1>2, HandledMessage, TypeFacts, Zenon
<1>5. LookUps(Tail(pipeline)) /\ LookUp(msg)
  BY <1>2, <1>4, LookUpsTail, Zenon DEF ListenerInv, msg
<1>6. CASE SkipResponse \/ UpsertWorkflowSearchAttributes
  <2>1. pipeline' = Tail(pipeline)
        /\ UNCHANGED <<mq, callbacks, delivered, listeners, childIds>>
    BY <1>6 DEF SkipResponse, UpsertWorkflowSearchAttributes
  <2>2. Given' = Given
    BY <2>1 DEF Given, Waiting, Queued
  <2> QED BY <1>3, <1>5, <2>1, <2>2, ListenersStay, ZenonT(60)
<1>7. ASSUME NEW registered,
             OperationTaken(registered) \/ OperationCalledBack(registered),
             UNCHANGED delivered
      PROVE  Given \subseteq Given'
  <2>1. CASE OperationTaken(registered)
    BY <1>7, <2>1 DEF OperationTaken, Given, Waiting, Queued
  <2>2. CASE OperationCalledBack(registered)
    <3>1. Range(callbacks') \cup AnsweredIn(mq') = Waiting \cup Queued \cup {msg.id}
      BY <1>1, <1>4, <2>2, CallbackAnswers, Zenon DEF OperationCalledBack
    <3> QED BY <1>7, <3>1, Zenon DEF Given, Waiting, Queued
  <2> QED BY <1>7, <2>1, <2>2, ZenonT(60)
<1>8. CASE ExecuteOperation
  <2>1. PICK registered : OperationTaken(registered) \/ OperationCalledBack(registered)
    BY <1>8, ZenonT(60) DEF ExecuteOperation
  <2>2. pipeline' = Tail(pipeline) /\ UNCHANGED <<delivered, listeners, childIds>>
    BY <1>8 DEF ExecuteOperation
  <2>3. Given \subseteq Given'
    BY <1>7, <2>1, <2>2, Zenon
  <2> QED BY <1>3, <1>5, <2>2, <2>3, ListenersStay, Zenon
<1>9. CASE ExecuteChildWorkflow
  <2>1. /\ OperationTaken({msg.id}) \/ OperationCalledBack({msg.id})
        /\ childIds' \subseteq childIds \cup {msg.id}
        /\ pipeline' = Tail(pipeline) /\ UNCHANGED <<delivered, listeners>>
    BY <1>9 DEF ExecuteChildWorkflow
  <2>2. Given \subseteq Given'
    BY <1>7, <2>1, Zenon
  <2>3. listeners[msg.id] = 0
    <3>1. SUFFICES ASSUME listeners[msg.id] # 0 PROVE FALSE
      BY Zenon
    <3>2. listeners[msg.id] \in handled /\ msg.id < listeners[msg.id]
      BY <1>1, <1>4, <3>1, Zenon DEF Answerable, ListenerInv, ListensBack
    <3>3. msg.id \in PipeIds(pipeline)
      BY <1>1, <1>2, <1>4, HeadFirst, ZenonT(60) DEF InOrder, msg
    <3>4. listeners[msg.id] < msg.id
      BY <1>1, <3>2, <3>3, Zenon DEF InOrder
    <3>5. listeners[msg.id] \in Nat /\ msg.id \in Nat
      BY <1>1, <1>4, <3>2, TypeFacts DEF Ids
    <3> QED BY <3>2, <3>4, <3>5, SMTT(60)
  <2>4. ListenerServed'
    BY <1>3, <2>1, <2>2, <2>3, Zenon DEF ListenerInv, ListenerServed, Given
  <2>5. ListensBack'
    BY <2>1, Zenon DEF ListenerInv, ListensBack
  <2> QED BY <1>5, <2>1, <2>4, <2>5, ZenonT(60) DEF ListenerInv
<1>10. CASE GetChildWorkflowExecution
  <2> DEFINE child == Head(msg.ids)
  <2>1. /\ msg.cmd = "GetChildWorkflowExecution"
        /\ pipeline' = Tail(pipeline)
        /\ listeners' = [listeners EXCEPT ![child] = msg.id]
        /\ UNCHANGED <<delivered, childIds>>
        /\ \/ child \notin childIds /\ UNCHANGED <<mq, callbacks>>
           \/ createCallback(msg.id, {})
           \/ Panic /\ UNCHANGED <<mq, callbacks>>
    BY <1>10, Zenon DEF GetChildWorkflowExecution, Handling, msg
  <2>2. child < msg.id
    BY <1>5, <2>1, Zenon DEF LookUp
  <2> HIDE DEF child
  <2>3. \A other \in Ids : \/ listeners'[other] = listeners[other]
                           \/ other = child /\ listeners'[other] = msg.id
    BY <1>1, <2>1, TypeFacts, ZenonT(60)
  <2>4. ListensBack'
    BY <2>2, <2>3 DEF ListenerInv, ListensBack
  <2>5. Given \subseteq Given'
    <3>1. CASE UNCHANGED <<mq, callbacks>>
      BY <2>1, <3>1, Zenon DEF Given, Waiting, Queued
    <3>2. CASE createCallback(msg.id, {})
      BY <1>1, <1>4, <2>1, <3>2, CallbackAnswers, Zenon DEF Given, Waiting, Queued
    <3> QED BY <2>1, <3>1, <3>2, Zenon
  <2>6. ASSUME Alive', child \in childIds PROVE msg.id \in Given'
    <3>1. createCallback(msg.id, {})
      BY <2>1, <2>6, Zenon DEF Panic, Alive
    <3> QED BY <1>1, <1>4, <3>1, CallbackAnswers, ZenonT(60) DEF Given, Waiting, Queued
  <2>7. ListenerServed'
    <3> SUFFICES ASSUME Alive', NEW other \in childIds', listeners'[other] # 0
                 PROVE  listeners'[other] \in Given'
      BY Zenon DEF ListenerServed, Given
    <3>1. other \in childIds /\ other \in Ids
      BY <1>1, <2>1, TypeFacts, ZenonT(60)
    <3>2. CASE listeners'[other] = listeners[other]
      BY <1>3, <2>5, <3>1, <3>2 DEF ListenerInv, ListenerServed, Given
    <3>3. CASE other = child /\ listeners'[other] = msg.id
      BY <2>6, <3>1, <3>3, Zenon
    <3> QED BY <2>3, <3>1, <3>2, <3>3, Zenon
  <2> QED BY <1>5, <2>1, <2>4, <2>7 DEF ListenerInv
<1>11. ASSUME NEW kept \in {Tail(pipeline), <<>>},
              flushQueue(Append(mq, Answer(msg.id)), Tail(pipeline), "pipeline", kept),
              UNCHANGED <<callbacks, listeners, childIds>>
       PROVE  ListenerInv'
  <2> DEFINE queue == Append(mq, Answer(msg.id))
  <2>1. AnsweredIn(queue) = Queued \cup {msg.id}
    BY <1>4, AnsweredInAppendAnswer DEF Queued
  <2>2. flushQueue(queue, Tail(pipeline), "pipeline", kept)
    BY <1>11
  <2> HIDE DEF queue
  <2>3. /\ LookUps(pipeline')
        /\ \/ pc' = "panicked"
           \/ delivered \cup AnsweredIn(queue) \subseteq delivered' \cup AnsweredIn(mq')
    BY <1>1, <1>4, <1>5, <2>2, FlushListens, Zenon
  <2>4. Alive' => Given \subseteq Given'
    BY <1>11, <2>1, <2>3, Zenon DEF Alive, Given, Waiting, Queued
  <2> QED BY <1>3, <1>11, <2>3, <2>4, ListenersStay, ZenonT(60)
<1>12. CASE GetVersion \/ CancelDone
  BY <1>11, <1>12, Zenon DEF GetVersion, CancelDone
<1>13. CASE SideEffect \/ CompleteWorkflow
  <2>1. UNCHANGED <<callbacks, listeners, childIds>>
    BY <1>13 DEF SideEffect, CompleteWorkflow
  <2>2. CASE /\ mq' = Append(mq, Answer(msg.id)) /\ pipeline' = Tail(pipeline)
             /\ UNCHANGED delivered
    <3>1. AnsweredIn(mq') = Queued \cup {msg.id}
      BY <1>4, <2>2, AnsweredInAppendAnswer, Zenon DEF Queued
    <3>2. Given \subseteq Given'
      BY <2>1, <2>2, <3>1 DEF Given, Waiting, Queued
    <3> QED BY <1>3, <1>5, <2>1, <2>2, <3>2, ListenersStay, Zenon
  <2>3. CASE flushQueue(Append(mq, Answer(msg.id)), Tail(pipeline), "pipeline",
                        Tail(pipeline))
    BY <1>11, <2>1, <2>3, ZenonT(60)
  <2> QED BY <1>13, <2>2, <2>3, ZenonT(60) DEF SideEffect, CompleteWorkflow
<1>14. CASE CancelNext
  <2> DEFINE m == [msg EXCEPT !.ids = Tail(@)]
  <2>1. m \in WorkerMessage(Ids) /\ LookUp(m)
    <3>1. Tail(msg.ids) \in Seq(Ids) /\ msg.cmd = "Cancel"
      BY <1>4, <1>14, OfHeadTail, Zenon DEF CancelNext, Handling, msg
    <3> QED BY <1>4, <3>1, Zenon DEF WorkerMessage, LookUp
  <2>2. pipeline' = <<m>> \o Tail(pipeline) /\ UNCHANGED <<delivered, listeners, childIds>>
    BY <1>14, Zenon DEF CancelNext, history
  <2> HIDE DEF m
  <2>3. LookUps(pipeline')
    BY <1>4, <1>5, <2>1, <2>2, LookUpsHead, Zenon
  <2>4. Given \subseteq Given'
    <3>1. CASE UNCHANGED <<mq, callbacks>>
      BY <2>2, <3>1, Zenon DEF Given, Waiting, Queued
    <3>2. CASE /\ Head(msg.ids) \in canceller \cap pending
               /\ createCallback(Head(msg.ids), {})
      <4>1. Head(msg.ids) \in Ids
        BY <1>1, <3>2, TypeFacts, ZenonT(60)
      <4> QED BY <1>1, <2>2, <3>2, <4>1, CallbackAnswers, Zenon DEF Given, Waiting,
                 Queued
    <3> QED BY <1>14, <3>1, <3>2, Zenon DEF CancelNext
  <2> QED BY <1>3, <2>2, <2>3, <2>4, ListenersStay
<1>15. CASE FailMessage
  <2>1. LookUps(pipeline') /\ ~Alive' /\ UNCHANGED <<listeners, childIds>>
    BY <1>15 DEF FailMessage, Panic, Alive, LookUps
  <2> QED BY <2>1, ListenersStay, ZenonT(60)
<1> QED BY <1>6, <1>8, <1>9, <1>10, <1>12, <1>13, <1>14, <1>15, ZenonT(60) DEF HandleMessage

(***************************************************************************)
(* Every step of the run keeps the invariant of the listeners.             *)
(***************************************************************************)
LEMMA ListenerStep ==
    ASSUME LedgerInv, ListenerInv, [Next]_vars
    PROVE  ListenerInv'
<1>1. TypeOK /\ Answerable
  BY DEF LedgerInv
<1>2. TypeOK'
  BY <1>1, TypeOKStep, Zenon
<1>3. mq \in Seq(HostMessage(Ids)) /\ callbacks \in Seq(Ids)
  BY <1>1, TypeFacts
<1>4. LookUps(pipeline)
  BY Zenon DEF ListenerInv
<1>5. CASE Execute
  <2>1. /\ UNCHANGED pipeline /\ listeners' = [i \in Ids |-> 0] /\ childIds' = {}
    BY <1>5, Zenon DEF Execute
  <2> QED BY <1>4, <2>1, Zenon DEF ListenerInv, ListensBack, ListenerServed
<1>6. CASE handleSignal \/ handleCancel
  <2>1. /\ Alive /\ UNCHANGED <<delivered, pipeline, callbacks, listeners, childIds>>
        /\ \E cmd \in HostCommands : mq' = Append(mq, Command(cmd))
    BY <1>6 DEF handleSignal, handleCancel, Running, Alive, history, HostCommands
  <2>2. AnsweredIn(mq') = Queued
    BY <1>3, <2>1, AnsweredInAppendCommand, Zenon DEF Queued
  <2>3. Given' = Given
    BY <2>1, <2>2 DEF Given, Waiting, Queued
  <2> QED BY <1>4, <2>1, <2>3, ListenersStay, ZenonT(60)
<1>7. CASE \/ \E u \in Updates : handleUpdate(u)
           \/ UpdatesHandled \/ TaskDone \/ HandleQueuedUpdates
           \/ handleQuery \/ StackTrace
  <2>1. Alive /\ UNCHANGED <<delivered, pipeline, callbacks, listeners, childIds, mq>>
    BY <1>7, Zenon DEF handleUpdate, UpdatesHandled, TaskDone, HandleQueuedUpdates,
       handleQuery,
                StackTrace, Running, Alive, history, process
  <2>2. Given' = Given
    BY <2>1 DEF Given, Waiting, Queued
  <2> QED BY <1>4, <2>1, <2>2, ListenersStay
<1>8. ASSUME NEW id \in Ids, OperationDone(id) PROVE ListenerInv'
  <2>1. Alive /\ UNCHANGED <<delivered, pipeline, listeners, childIds>>
    BY <1>8, Zenon DEF OperationDone, Running, Alive, history
  <2>2. Given \subseteq Given'
    BY <1>1, <1>8, <2>1, CallbackAnswers, ZenonT(60) DEF OperationDone, Given, Waiting, Queued
  <2> QED BY <1>4, <2>1, <2>2, ListenersStay, Zenon
<1>9. ASSUME NEW child \in Ids, ChildStarted(child) PROVE ListenerInv'
  <2>1. /\ Alive /\ UNCHANGED <<delivered, pipeline, listeners>>
        /\ childIds' = childIds \cup {child}
    BY <1>9, Zenon DEF ChildStarted, Running, Alive, history
  <2>2. CASE listeners[child] = 0 /\ UNCHANGED <<mq, callbacks>>
    <3>1. Given' = Given
      BY <2>1, <2>2, Zenon DEF Given, Waiting, Queued
    <3>2. ListenerServed'
      BY <2>1, <2>2, <3>1, ZenonT(60) DEF ListenerInv, ListenerServed, Given
    <3> QED BY <1>4, <2>1, <3>2, Zenon DEF ListenerInv, ListensBack
  <2>3. CASE listeners[child] # 0 /\ createCallback(listeners[child], {})
    <3>1. listeners[child] \in Ids
      BY <1>1, <2>3, TypeFacts, Zenon
    <3>2. Given' = Given \cup {listeners[child]}
      BY <1>1, <2>1, <2>3, <3>1, CallbackAnswers, ZenonT(60) DEF Given, Waiting, Queued
    <3>3. ListenerServed'
      BY <2>1, <3>2, ZenonT(60) DEF ListenerInv, ListenerServed, Given
    <3> QED BY <1>4, <2>1, <3>3 DEF ListenerInv, ListensBack
  <2>4. CASE Panic
    BY <1>4, <2>1, <2>4 DEF ListenerInv, ListensBack, ListenerServed, Panic, Alive
  <2> QED BY <1>9, <2>2, <2>3, <2>4, Zenon DEF ChildStarted
<1>10. CASE OnWorkflowTaskStarted
  <2>1. /\ Alive /\ mq' = mq \o AnswersOf(callbacks)
        /\ UNCHANGED <<delivered, pipeline, listeners, childIds>>
    BY <1>10 DEF OnWorkflowTaskStarted, Running, Alive, history, AnswersOf
  <2>2. AnsweredIn(mq') = Queued \cup Waiting
    BY <1>3, <2>1, AnswersOfProperties, Zenon DEF Queued, Waiting
  <2>3. Given \subseteq Given'
    BY <2>1, <2>2 DEF Given, Waiting, Queued
  <2> QED BY <1>4, <2>1, <2>3, ListenersStay, ZenonT(60)
<1>11. CASE FirstFlush
  <2>1. /\ Alive /\ flushQueue(mq, pipeline, "updates", pipeline)
        /\ UNCHANGED <<callbacks, listeners, childIds>>
    BY <1>11, ZenonT(60) DEF FirstFlush, Alive
  <2>2. pipeline \in Seq(WorkerMessage(Ids)) /\ pipeline \in {pipeline, <<>>}
    BY <1>1, TypeFacts
  <2>3. /\ LookUps(pipeline')
        /\ \/ pc' = "panicked"
           \/ delivered \cup Queued \subseteq delivered' \cup AnsweredIn(mq')
    BY <1>1, <1>4, <2>1, <2>2, FlushListens, Zenon DEF Queued
  <2>4. Alive' => Given \subseteq Given'
    BY <2>1, <2>3 DEF Alive, Given, Waiting, Queued
  <2> QED BY <2>1, <2>3, <2>4, ListenersStay, Zenon
<1>12. CASE Close
  <2>1. ~Alive' /\ UNCHANGED <<pipeline, listeners, childIds>>
    BY <1>12 DEF Close, Alive
  <2> QED BY <1>4, <2>1, ListenersStay, ZenonT(60)
<1>13. CASE HandleMessage
  BY <1>2, <1>13, HandleMessageListens
<1>14. CASE UNCHANGED vars
  <2>1. UNCHANGED <<pc, delivered, pipeline, callbacks, listeners, childIds, mq>>
    BY <1>14 DEF vars, process, history
  <2>2. Given' = Given /\ (Alive' <=> Alive)
    BY <2>1 DEF Given, Waiting, Queued, Alive
  <2> QED BY <1>4, <2>1, <2>2, ListenersStay, ZenonT(60)
<1> QED BY <1>5, <1>6, <1>7, <1>8, <1>9, <1>10, <1>11, <1>12, <1>13, <1>14, ZenonT(60)
           DEF Next, TaskStep, Closed

(***************************************************************************)
(* ListenerServed, for every repertoire of the worker and every bound:     *)
(* whichever of Listen and Push of the child registry comes first, the     *)
(* current listener for a child whose start was reported has its answer    *)
(* waiting, queued or sent.                                                *)
(***************************************************************************)
THEOREM ListenersAreServed == Spec => []ListenerServed
<1>1. Init => ListenerInv
  BY DEF Init, ListenerInv, LookUps, ListensBack, ListenerServed
<1>2. LedgerInv /\ ListenerInv /\ [Next]_vars => ListenerInv'
  BY ListenerStep
<1>3. ListenerInv => ListenerServed
  BY DEF ListenerInv
<1> QED BY <1>1, <1>2, <1>3, LedgerInvariant, PTL DEF Spec
=============================================================================

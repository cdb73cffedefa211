--------------------------- MODULE WorkflowProofs ---------------------------
(***************************************************************************)
(* Theorems about one workflow run, for every repertoire of the worker,    *)
(* set of updates and bound: its types, and that no command of the worker  *)
(* is answered twice.  The lemmas here serve WorkflowSafety too.  What is  *)
(* used for one theorem only is a step of its proof, named like a lemma.   *)
(***************************************************************************)
EXTENDS Workflow, TLAPS

(***************************************************************************)
(* An element of a sequence is of the set the sequence is over.            *)
(***************************************************************************)
LEMMA OfElement ==
    ASSUME NEW S, NEW s \in Seq(S), NEW i \in 1 .. Len(s)
    PROVE  s[i] \in S
OBVIOUS

(***************************************************************************)
(* The head and the tail of a sequence.                                    *)
(***************************************************************************)
LEMMA OfHeadTail ==
    ASSUME NEW S, NEW s \in Seq(S), s # <<>>
    PROVE  /\ Head(s) \in S
           /\ Tail(s) \in Seq(S)
           /\ Len(Tail(s)) = Len(s) - 1
           /\ \A i \in 1 .. Len(Tail(s)) : Tail(s)[i] = s[i + 1]
OBVIOUS

(***************************************************************************)
(* A sequence with one more element.                                       *)
(***************************************************************************)
LEMMA OfAppend ==
    ASSUME NEW S, NEW s \in Seq(S), NEW e \in S
    PROVE  /\ Append(s, e) \in Seq(S)
           /\ Append(s, e) # <<>>
           /\ Len(Append(s, e)) = Len(s) + 1
           /\ \A i \in 1 .. Len(s) : Append(s, e)[i] = s[i]
           /\ Append(s, e)[Len(s) + 1] = e
OBVIOUS

(***************************************************************************)
(* One sequence followed by another.                                       *)
(***************************************************************************)
LEMMA OfConcat ==
    ASSUME NEW S, NEW s \in Seq(S), NEW t \in Seq(S)
    PROVE  /\ s \o t \in Seq(S)
           /\ Len(s \o t) = Len(s) + Len(t)
           /\ \A i \in 1 .. Len(s) + Len(t) :
                 (s \o t)[i] = IF i <= Len(s) THEN s[i] ELSE t[i - Len(s)]
OBVIOUS

-----------------------------------------------------------------------------
(***************************************************************************)
(* An empty queue answers nothing.                                         *)
(***************************************************************************)
LEMMA AnsweredInEmpty == AnsweredIn(<<>>) = {}
BY DEF AnsweredIn

(***************************************************************************)
(* A queue of the host answers only identifiers of the worker's commands.  *)
(***************************************************************************)
LEMMA AnsweredInIds ==
    ASSUME NEW q \in Seq(HostMessage(Ids))
    PROVE  AnsweredIn(q) \subseteq Ids
BY DEF AnsweredIn, HostMessage, IsCommand, Command, Answer, HostCommands, NoCommand

(***************************************************************************)
(* PushResponse and PushError add one answered identifier to the queue.    *)
(***************************************************************************)
LEMMA AnsweredInAppendAnswer ==
    ASSUME NEW q \in Seq(HostMessage(Ids)), NEW id \in Ids
    PROVE  /\ Append(q, Answer(id)) \in Seq(HostMessage(Ids))
           /\ Append(q, Answer(id)) # <<>>
           /\ AnsweredIn(Append(q, Answer(id))) = AnsweredIn(q) \cup {id}
<1> DEFINE a == Answer(id)
           r == Append(q, a)
<1>1. a \in HostMessage(Ids) /\ a.id = id /\ ~IsCommand(a)
  BY Zenon DEF HostMessage, Answer, IsCommand
<1>2. /\ r \in Seq(HostMessage(Ids))
      /\ r # <<>>
      /\ DOMAIN r = 1 .. Len(q) + 1
      /\ \A i \in 1 .. Len(q) : r[i] = q[i]
      /\ r[Len(q) + 1] = a
  BY <1>1, OfAppend
<1>3. DOMAIN q = 1 .. Len(q) /\ Len(q) \in Nat
  OBVIOUS
<1> HIDE DEF a, r
<1>4. AnsweredIn(r) = AnsweredIn(q) \cup {id}
  BY <1>1, <1>2, <1>3 DEF AnsweredIn
<1> QED BY <1>2, <1>4 DEF a, r

(***************************************************************************)
(* PushCommand answers nothing.                                            *)
(***************************************************************************)
LEMMA AnsweredInAppendCommand ==
    ASSUME NEW q \in Seq(HostMessage(Ids)), NEW cmd \in HostCommands
    PROVE  /\ Append(q, Command(cmd)) \in Seq(HostMessage(Ids))
           /\ AnsweredIn(Append(q, Command(cmd))) = AnsweredIn(q)
<1> DEFINE c == Command(cmd)
           r == Append(q, c)
<1>1. c \in HostMessage(Ids) /\ IsCommand(c)
  BY DEF HostMessage, Command, IsCommand, HostCommands, NoCommand
<1>2. /\ r \in Seq(HostMessage(Ids))
      /\ DOMAIN r = 1 .. Len(q) + 1
      /\ \A i \in 1 .. Len(q) : r[i] = q[i]
      /\ r[Len(q) + 1] = c
  BY <1>1, OfAppend
<1>3. DOMAIN q = 1 .. Len(q) /\ Len(q) \in Nat
  OBVIOUS
<1> HIDE DEF c, r
<1>4. AnsweredIn(r) = AnsweredIn(q)
  BY <1>1, <1>2, <1>3 DEF AnsweredIn
<1> QED BY <1>2, <1>4 DEF c, r

(***************************************************************************)
(* The queue after the waiting callbacks have run.                         *)
(***************************************************************************)
AnswersOf(s) == [i \in DOMAIN s |-> Answer(s[i])]

(***************************************************************************)
(* When OnWorkflowTaskStarted has run the waiting callbacks, the queue     *)
(* ends with their answers, in their order.                                *)
(***************************************************************************)
LEMMA AnswersOfProperties ==
    ASSUME NEW q \in Seq(HostMessage(Ids)), NEW s \in Seq(Ids)
    PROVE  LET r == q \o AnswersOf(s) IN
           /\ r \in Seq(HostMessage(Ids))
           /\ DOMAIN r = 1 .. Len(q) + Len(s)
           /\ \A i \in 1 .. Len(q) : r[i] = q[i]
           /\ \A i \in 1 .. Len(s) : r[Len(q) + i] = Answer(s[i])
           /\ AnsweredIn(r) = AnsweredIn(q) \cup Range(s)
<1> DEFINE t == AnswersOf(s)
           r == q \o t
<1>1. /\ t \in Seq(HostMessage(Ids))
      /\ Len(t) = Len(s)
      /\ Len(s) \in Nat /\ Len(q) \in Nat
      /\ DOMAIN s = 1 .. Len(s) /\ DOMAIN q = 1 .. Len(q)
      /\ \A i \in 1 .. Len(s) : t[i] = Answer(s[i])
  BY DEF AnswersOf, HostMessage
<1>2. /\ r \in Seq(HostMessage(Ids))
      /\ DOMAIN r = 1 .. Len(q) + Len(s)
      /\ \A i \in 1 .. Len(q) : r[i] = q[i]
      /\ \A i \in 1 .. Len(s) : r[Len(q) + i] = Answer(s[i])
  BY <1>1, OfConcat, SMTT(60)
<1>3. \A id : Answer(id).id = id /\ ~IsCommand(Answer(id))
  BY DEF Answer, IsCommand
<1> HIDE DEF t, r
<1>4. ASSUME NEW i \in 1 .. Len(q) + Len(s)
      PROVE  \/ i \in 1 .. Len(q)
             \/ \E j \in 1 .. Len(s) : i = Len(q) + j
  <2>1. CASE i > Len(q)
    <3>1. i - Len(q) \in 1 .. Len(s) /\ i = Len(q) + (i - Len(q))
      BY <2>1, <1>1
    <3> QED BY <3>1, Zenon
  <2> QED BY <2>1, <1>1
<1>5. ASSUME NEW i \in 1 .. Len(s)
      PROVE  Len(q) + i \in 1 .. Len(q) + Len(s)
  BY <1>1
<1>6. ASSUME NEW id \in AnsweredIn(r)
      PROVE  id \in AnsweredIn(q) \cup Range(s)
  <2>1. PICK i \in DOMAIN r : ~IsCommand(r[i]) /\ id = r[i].id
    BY DEF AnsweredIn
  <2>2. CASE i \in 1 .. Len(q)
    BY <1>1, <1>2, <2>1, <2>2 DEF AnsweredIn
  <2>3. CASE \E j \in 1 .. Len(s) : i = Len(q) + j
    <3>1. PICK j \in 1 .. Len(s) : i = Len(q) + j
      BY <2>3
    <3>2. id = s[j]
      BY <1>2, <1>3, <2>1, <3>1
    <3> QED BY <1>1, <3>2 DEF Range
  <2> QED BY <1>2, <1>4, <2>1, <2>2, <2>3
<1>7. ASSUME NEW id \in AnsweredIn(q) \cup Range(s)
      PROVE  id \in AnsweredIn(r)
  <2>1. CASE id \in AnsweredIn(q)
    <3>1. PICK i \in DOMAIN q : ~IsCommand(q[i]) /\ id = q[i].id
      BY <2>1 DEF AnsweredIn
    <3>2. i \in DOMAIN r /\ r[i] = q[i]
      BY <1>1, <1>2, <3>1
    <3> QED BY <3>1, <3>2 DEF AnsweredIn
  <2>2. CASE id \in Range(s)
    <3>1. PICK i \in 1 .. Len(s) : id = s[i]
      BY <1>1, <2>2 DEF Range
    <3>2. Len(q) + i \in DOMAIN r /\ r[Len(q) + i] = Answer(id)
      BY <1>2, <1>5, <3>1
    <3> QED BY <1>3, <3>2 DEF AnsweredIn
  <2> QED BY <1>7, <2>1, <2>2
<1> QED BY <1>2, <1>6, <1>7 DEF r, t

(***************************************************************************)
(* Appending to the callbacks makes one more identifier wait.              *)
(***************************************************************************)
LEMMA RangeAppend ==
    ASSUME NEW S, NEW s \in Seq(S), NEW e \in S
    PROVE  Range(Append(s, e)) = Range(s) \cup {e}
<1>1. /\ DOMAIN Append(s, e) = 1 .. Len(s) + 1
      /\ \A i \in 1 .. Len(s) : Append(s, e)[i] = s[i]
      /\ Append(s, e)[Len(s) + 1] = e
      /\ DOMAIN s = 1 .. Len(s) /\ Len(s) \in Nat
  BY OfAppend
<1> QED BY <1>1 DEF Range

(***************************************************************************)
(* A frame of the worker consists of well-formed messages with the next    *)
(* identifiers, and stays within the bound.                                *)
(***************************************************************************)
LEMMA FrameProperties ==
    ASSUME TypeOK, NEW bodies \in UpTo(Bodies, Room)
    PROVE  /\ Frame(bodies) \in Seq(WorkerMessage(Ids))
           /\ Len(bodies) \in Nat
           /\ Len(Frame(bodies)) = Len(bodies)
           /\ \A i \in 1 .. Len(bodies) : Frame(bodies)[i].id = nextId + i - 1
           /\ nextId + Len(bodies) \in 1 .. MaxId + 1
<1>1. nextId \in 1 .. MaxId + 1 /\ MaxId \in Nat /\ MaxBatch \in Nat
  BY BoundsAssumption DEF TypeOK
<1>2. Room \in Nat /\ nextId + Room <= MaxId + 1
  BY <1>1 DEF Room
<1>3. PICK m \in 0 .. Room : bodies \in [1 .. m -> Bodies]
  BY DEF UpTo
<1>4. m \in Nat /\ Len(bodies) = m /\ DOMAIN bodies = 1 .. m
  BY <1>2, <1>3
<1>5. \A b \in Bodies : b.cmd \in Decodable \cup {NoCommand} /\ b.ids \in Seq(Ids)
  <2>1. ASSUME NEW c \in Repertoire, NEW r \in References(c)
        PROVE  r \in Seq(Ids)
    <3>1. CASE c = "Cancel"
      BY <2>1, <3>1 DEF References, UpTo
    <3>2. CASE c = "GetChildWorkflowExecution"
      <4>1. References(c) = {<<i>> : i \in Ids}
        BY <3>2 DEF References
      <4>2. PICK i \in Ids : r = <<i>>
        BY <4>1
      <4> QED BY <4>2
    <3>3. CASE c # "Cancel" /\ c # "GetChildWorkflowExecution"
      BY <2>1, <3>3 DEF References
    <3> QED BY <3>1, <3>2, <3>3
  <2> QED BY <2>1, RepertoireAssumption DEF Bodies
<1>6. \A i \in 1 .. m :
          /\ nextId + i - 1 \in Ids
          /\ bodies[i] \in Bodies
  BY <1>1, <1>2, <1>3 DEF Ids
<1>7. Frame(bodies) \in [1 .. m -> WorkerMessage(Ids)]
  BY <1>4, <1>5, <1>6, Zenon DEF Frame, WorkerMessage
<1>8. \A i \in 1 .. m : Frame(bodies)[i].id = nextId + i - 1
  BY <1>4 DEF Frame
<1> QED BY <1>1, <1>2, <1>3, <1>4, <1>7, <1>8

-----------------------------------------------------------------------------
(***************************************************************************)
(* flushQueue keeps the types of what it writes, whether the exchange with *)
(* the worker fails, brings a frame or panics.                             *)
(***************************************************************************)
LEMMA FlushTypes ==
    ASSUME TypeOK,
           NEW queue \in Seq(HostMessage(Ids)),
           NEW rest \in Seq(WorkerMessage(Ids)),
           NEW kept \in Seq(WorkerMessage(Ids)),
           NEW next \in TaskSteps,
           flushQueue(queue, rest, next, kept)
    PROVE  /\ pc' \in {next, "panicked"}
           /\ inLoop' \in {0, 1}
           /\ mq' \in Seq(HostMessage(Ids))
           /\ pipeline' \in Seq(WorkerMessage(Ids))
           /\ nextId' \in 1 .. MaxId + 1
           /\ started' \in BOOLEAN
           /\ delivered' \subseteq Ids
<1>1. AnsweredIn(queue) \subseteq Ids
  BY AnsweredInIds
<1>2. CASE queue = <<>> /\ mq' = queue /\ pipeline' = rest /\ pc' = next
           /\ UNCHANGED <<inLoop, nextId, delivered, started>>
  BY <1>2 DEF TypeOK
<1>3. CASE /\ \E bodies \in UpTo(Bodies, Room) :
                 /\ RefersBack(bodies)
                 /\ pipeline' = rest \o Frame(bodies)
                 /\ nextId' = nextId + Len(bodies)
           /\ Receive(queue) /\ mq' = <<>> /\ pc' = next /\ UNCHANGED inLoop
  <2>1. PICK bodies \in UpTo(Bodies, Room) :
                 /\ pipeline' = rest \o Frame(bodies)
                 /\ nextId' = nextId + Len(bodies)
    BY <1>3, Zenon
  <2>2. pipeline' \in Seq(WorkerMessage(Ids)) /\ nextId' \in 1 .. MaxId + 1
    BY <2>1, FrameProperties, OfConcat
  <2>3. started' \in BOOLEAN
    BY <1>3 DEF Receive
  <2>4. delivered' \subseteq Ids
    BY <1>1, <1>3 DEF Receive, TypeOK
  <2> QED BY <1>3, <2>2, <2>3, <2>4 DEF TypeOK
<1>4. CASE /\ Receive(queue) \/ UNCHANGED <<delivered, started>>
           /\ mq' = queue /\ pipeline' = kept /\ Panic /\ UNCHANGED nextId
  <2>1. started' \in BOOLEAN
    BY <1>4, Zenon DEF Receive, TypeOK
  <2>2. delivered' \subseteq Ids
    BY <1>1, <1>4 DEF Receive, TypeOK
  <2> QED BY <1>4, <2>1, <2>2 DEF TypeOK, Panic
<1> QED BY <1>2, <1>3, <1>4, Zenon DEF flushQueue

(***************************************************************************)
(* The message being handled is one the worker can send, and what follows  *)
(* it in the pipeline is too.                                              *)
(***************************************************************************)
LEMMA HandledMessage ==
    ASSUME TypeOK, pipeline # <<>>
    PROVE  /\ msg \in WorkerMessage(Ids)
           /\ msg.id \in Ids
           /\ msg.ids \in Seq(Ids)
           /\ Tail(pipeline) \in Seq(WorkerMessage(Ids))
<1>1. pipeline \in Seq(WorkerMessage(Ids))
  BY DEF TypeOK
<1>2. Head(pipeline) \in WorkerMessage(Ids) /\ Tail(pipeline) \in Seq(WorkerMessage(Ids))
  BY <1>1, OfHeadTail
<1> QED BY <1>2 DEF msg, WorkerMessage

(***************************************************************************)
(* The handler createCallback returns keeps the types of what it writes,   *)
(* in the loop and out of it.                                              *)
(***************************************************************************)
LEMMA CallbackTypes ==
    ASSUME TypeOK, NEW id \in Ids, NEW registered \in SUBSET Ids,
           createCallback(id, registered)
    PROVE  /\ mq' \in Seq(HostMessage(Ids))
           /\ callbacks' \in Seq(Ids)
           /\ canceller' \subseteq Ids
<1>1. mq \in Seq(HostMessage(Ids)) /\ callbacks \in Seq(Ids) /\ canceller \subseteq Ids
  BY DEF TypeOK
<1>2. CASE inLoop = 1
  BY <1>1, <1>2, AnsweredInAppendAnswer, SMTT(60) DEF createCallback
<1>3. CASE inLoop # 1
  BY <1>1, <1>3, OfAppend DEF createCallback
<1> QED BY <1>2, <1>3

(***************************************************************************)
(* The update callbacks keep the types of what they write.                 *)
(***************************************************************************)
LEMMA UpdateTypes ==
    ASSUME TypeOK, NEW us \in SUBSET buffered, RunUpdates(us)
    PROVE  /\ buffered' \subseteq Updates
           /\ calls' \in [Updates -> Seq({"Reject", "Accept", "Complete"})]
<1> DEFINE Call == {"Reject", "Accept", "Complete"}
<1>1. PICK outcome \in [us -> UpdateOutcomes] :
          calls' = [u \in Updates |->
                       IF u \in us THEN calls[u] \o outcome[u] ELSE calls[u]]
  BY DEF RunUpdates
<1>2. UpdateOutcomes \subseteq Seq(Call)
  BY DEF UpdateOutcomes
<1>3. ASSUME NEW u \in Updates
      PROVE  (IF u \in us THEN calls[u] \o outcome[u] ELSE calls[u]) \in Seq(Call)
  <2>1. calls[u] \in Seq(Call)
    BY DEF TypeOK
  <2>2. CASE u \in us
    <3>1. outcome[u] \in Seq(Call)
      BY <1>1, <1>2, <2>2
    <3> QED BY <2>1, <2>2, <3>1, OfConcat
  <2> QED BY <2>1, <2>2
<1> QED BY <1>1, <1>3, Zenon DEF RunUpdates, TypeOK

(***************************************************************************)
(* The reply to a single command uses up only numbers within the bound.    *)
(***************************************************************************)
LEMMA RunCommandTypes ==
    ASSUME TypeOK, runCommand
    PROVE  /\ nextId' \in 1 .. MaxId + 1
           /\ nextId' >= nextId
           /\ aside' \subseteq Ids
           /\ aside' = aside \cup (nextId .. nextId' - 1)
<1>1. nextId \in 1 .. MaxId + 1 /\ MaxId \in Nat /\ aside \subseteq Ids
  BY BoundsAssumption DEF TypeOK
<1>2. PICK n \in 0 .. MaxId + 1 - nextId :
          /\ nextId' = nextId + n
          /\ aside' = aside \cup (nextId .. nextId + n - 1)
  BY DEF runCommand
<1>3. nextId' \in 1 .. MaxId + 1 /\ nextId' >= nextId
  BY <1>1, <1>2
<1>4. nextId .. nextId + n - 1 \subseteq Ids
  BY <1>1, <1>2 DEF Ids
<1> QED BY <1>1, <1>2, <1>3, <1>4

(***************************************************************************)
(* Every call of the SDK and every step of a task keeps the types.         *)
(***************************************************************************)
LEMMA TypeOKStep == TypeOK /\ [Next]_vars => TypeOK'
<1> SUFFICES ASSUME TypeOK, [Next]_vars PROVE TypeOK'
  OBVIOUS
<1> USE DEF process, sdk, history
<1>1. CASE Execute
  <2>1. mq' \in Seq(HostMessage(Ids))
    <3>1. <<>> \in Seq(HostMessage(Ids)) /\ "StartWorkflow" \in HostCommands
      BY DEF HostCommands
    <3> QED BY <1>1, <3>1, AnsweredInAppendCommand, Zenon DEF Execute
  <2> QED BY <1>1, <2>1 DEF Execute, TypeOK
<1>2. CASE handleSignal
  <2>1. mq' \in Seq(HostMessage(Ids))
    BY <1>2, AnsweredInAppendCommand, Zenon DEF handleSignal, HostCommands, TypeOK
  <2> QED BY <1>2, <2>1, Zenon DEF handleSignal, TypeOK
<1>3. CASE handleCancel
  <2>1. mq' \in Seq(HostMessage(Ids))
    BY <1>3, AnsweredInAppendCommand DEF handleCancel, HostCommands, TypeOK
  <2> QED BY <1>3, <2>1 DEF handleCancel, TypeOK
<1>4. ASSUME NEW u \in Updates, handleUpdate(u) PROVE TypeOK'
  <2>1. updatesQueue' \in Seq(Names)
    BY <1>4, SMTT(60) DEF handleUpdate, TypeOK, Names
  <2> QED BY <1>4, <2>1, Zenon DEF handleUpdate, TypeOK
<1>5. ASSUME NEW id \in Ids, OperationDone(id) PROVE TypeOK'
  <2>1. mq' \in Seq(HostMessage(Ids)) /\ callbacks' \in Seq(Ids) /\ canceller' \subseteq Ids
    BY <1>5, CallbackTypes DEF OperationDone
  <2> QED BY <1>5, <2>1 DEF OperationDone, TypeOK
<1>6. ASSUME NEW child \in Ids, ChildStarted(child) PROVE TypeOK'
  <2>1. mq' \in Seq(HostMessage(Ids)) /\ callbacks' \in Seq(Ids) /\ canceller' \subseteq Ids
    <3>1. CASE createCallback(listeners[child], {}) /\ listeners[child] # 0
      <4>1. listeners[child] \in Ids
        BY <3>1 DEF TypeOK
      <4> QED BY <3>1, <4>1, CallbackTypes
    <3> QED BY <1>6, <3>1 DEF ChildStarted, TypeOK
  <2>2. pc' \in {pc, "panicked"} /\ inLoop' \in {0, 1}
    BY <1>6 DEF ChildStarted, Panic, TypeOK
  <2> QED BY <1>6, <2>1, <2>2 DEF ChildStarted, TypeOK
<1>7. CASE OnWorkflowTaskStarted
  <2>1. mq' \in Seq(HostMessage(Ids))
    BY <1>7, AnswersOfProperties DEF OnWorkflowTaskStarted, AnswersOf, TypeOK
  <2> QED BY <1>7, <2>1 DEF OnWorkflowTaskStarted, TypeOK, TaskSteps
<1>8. CASE FirstFlush
  <2>1. "updates" \in TaskSteps
    BY DEF TaskSteps
  <2>2. /\ mq \in Seq(HostMessage(Ids))
        /\ pipeline \in Seq(WorkerMessage(Ids))
        /\ flushQueue(mq, pipeline, "updates", pipeline)
    BY <1>8, Zenon DEF FirstFlush, TypeOK
  <2> QED BY <1>8, <2>1, <2>2, FlushTypes DEF FirstFlush, TypeOK
<1>9. CASE HandleQueuedUpdates
  <2>1. buffered' \subseteq Updates
        /\ calls' \in [Updates -> Seq({"Reject", "Accept", "Complete"})]
    BY <1>9, UpdateTypes, Zenon DEF HandleQueuedUpdates
  <2>2. updatesQueue' \in Seq(Names)
    BY <1>9, OfHeadTail, Zenon DEF HandleQueuedUpdates, TypeOK
  <2>3. nextId' \in 1 .. MaxId + 1 /\ aside' \subseteq Ids
    BY <1>9, RunCommandTypes, Zenon DEF HandleQueuedUpdates, TypeOK
  <2> QED BY <1>9, <2>1, <2>2, <2>3, Zenon DEF HandleQueuedUpdates, TypeOK
<1>10. CASE UpdatesHandled
  BY <1>10 DEF UpdatesHandled, TypeOK, TaskSteps
<1>11. CASE HandleMessage
  <2> DEFINE rest == Tail(pipeline)
  <2>0. /\ pipeline # <<>> /\ pc = "pipeline"
        /\ msg.id \in Ids /\ msg.ids \in Seq(Ids)
        /\ rest \in Seq(WorkerMessage(Ids))
        /\ <<>> \in Seq(WorkerMessage(Ids))
        /\ "pipeline" \in TaskSteps
        /\ mq \in Seq(HostMessage(Ids))
        /\ Append(mq, Answer(msg.id)) \in Seq(HostMessage(Ids))
    <3>1. pipeline # <<>> /\ pc = "pipeline"
      BY <1>11, Zenon DEF HandleMessage, SkipResponse, ExecuteOperation,
         ExecuteChildWorkflow, GetChildWorkflowExecution, GetVersion,
         SideEffect, CompleteWorkflow, UpsertWorkflowSearchAttributes,
         CancelNext, CancelDone, FailMessage, Handling
    <3>2. mq \in Seq(HostMessage(Ids))
      BY Zenon DEF TypeOK
    <3> QED BY <3>1, <3>2, HandledMessage, AnsweredInAppendAnswer DEF TaskSteps
  <2> HIDE DEF rest
  <2>1. CASE SkipResponse
    BY <2>0, <2>1, Zenon DEF SkipResponse, TypeOK, rest
  <2>2. ASSUME NEW registered \in SUBSET Ids,
               OperationTaken(registered) \/ OperationCalledBack(registered)
        PROVE  /\ mq' \in Seq(HostMessage(Ids))
               /\ callbacks' \in Seq(Ids)
               /\ canceller' \subseteq Ids
               /\ pending' \subseteq Ids
               /\ early' \subseteq Ids
    BY <2>0, <2>2, CallbackTypes, Zenon DEF OperationTaken, OperationCalledBack, TypeOK
  <2>3. CASE ExecuteOperation
    BY <2>0, <2>2, <2>3, SMTT(60) DEF ExecuteOperation, TypeOK, rest
  <2>4. CASE ExecuteChildWorkflow
    BY <2>0, <2>2, <2>4, ZenonT(60) DEF ExecuteChildWorkflow, TypeOK, rest
  <2>5. CASE GetChildWorkflowExecution
    <3>1. listeners' \in [Ids -> Ids \cup {0}]
      BY <2>0, <2>5, Zenon DEF GetChildWorkflowExecution, TypeOK
    <3>2. /\ mq' \in Seq(HostMessage(Ids))
          /\ callbacks' \in Seq(Ids)
          /\ canceller' \subseteq Ids
          /\ early' \subseteq Ids
      BY <2>0, <2>5, CallbackTypes, SMTT(60) DEF GetChildWorkflowExecution, TypeOK
    <3>3. pc' \in {pc, "panicked"} /\ inLoop' \in {0, 1}
      BY <2>5 DEF GetChildWorkflowExecution, Panic, TypeOK
    <3> QED BY <2>0, <2>5, <3>1, <3>2, <3>3, Zenon DEF GetChildWorkflowExecution,
               TypeOK, rest
  <2>6. CASE GetVersion
    <3>1. flushQueue(Append(mq, Answer(msg.id)), rest, "pipeline", <<>>)
      BY <2>6 DEF GetVersion, rest
    <3> QED BY <2>0, <2>6, <3>1, FlushTypes, Zenon DEF GetVersion, TypeOK
  <2>7. CASE SideEffect
    <3>1. /\ pc' \in {"pipeline", "panicked"}
          /\ inLoop' \in {0, 1}
          /\ mq' \in Seq(HostMessage(Ids))
          /\ pipeline' \in Seq(WorkerMessage(Ids))
          /\ nextId' \in 1 .. MaxId + 1
          /\ started' \in BOOLEAN
          /\ delivered' \subseteq Ids
          /\ early' \subseteq Ids
      <4>1. CASE flushQueue(Append(mq, Answer(msg.id)), rest, "pipeline", rest)
                 /\ UNCHANGED early
        BY <2>0, <4>1, FlushTypes, Zenon DEF TypeOK
      <4> QED BY <2>0, <2>7, <4>1, Zenon DEF SideEffect, TypeOK, rest
    <3> QED BY <2>0, <2>7, <3>1 DEF SideEffect, TypeOK
  <2>8. CASE CompleteWorkflow
    BY <2>0, <2>8 DEF CompleteWorkflow, TypeOK, rest
  <2>9. CASE UpsertWorkflowSearchAttributes
    BY <2>0, <2>9, Zenon DEF UpsertWorkflowSearchAttributes, TypeOK, rest
  <2>10. CASE CancelNext
    <3>1. Head(msg.ids) \in Ids /\ Tail(msg.ids) \in Seq(Ids)
      BY <2>0, <2>10, OfHeadTail, Zenon DEF CancelNext
    <3>2. [msg EXCEPT !.ids = Tail(@)] \in WorkerMessage(Ids)
      BY <2>0, <3>1, HandledMessage, Zenon DEF WorkerMessage
    <3>3. pipeline' \in Seq(WorkerMessage(Ids))
      BY <2>0, <2>10, <3>2, OfConcat, SMTT(60) DEF CancelNext, rest
    <3>4. /\ mq' \in Seq(HostMessage(Ids))
          /\ callbacks' \in Seq(Ids)
          /\ canceller' \subseteq Ids
          /\ pending' \subseteq Ids
      BY <2>10, <3>1, CallbackTypes, SMTT(60) DEF CancelNext, TypeOK
    <3> QED BY <2>10, <3>3, <3>4 DEF CancelNext, TypeOK
  <2>11. CASE CancelDone
    <3>1. flushQueue(Append(mq, Answer(msg.id)), rest, "pipeline", <<>>)
      BY <2>11, Zenon DEF CancelDone, rest
    <3> QED BY <2>0, <2>11, <3>1, FlushTypes, Zenon DEF CancelDone, TypeOK
  <2>12. CASE FailMessage
    BY <2>0, <2>12, Zenon DEF FailMessage, Panic, TypeOK
  <2> QED BY <1>11, <2>1, <2>3, <2>4, <2>5, <2>6, <2>7, <2>8, <2>9, <2>10, Zenon,
             <2>11, <2>12 DEF HandleMessage
<1>12. CASE TaskDone
  BY <1>12, Zenon DEF TaskDone, TypeOK
<1>13. CASE Close
  <2>1. buffered' \subseteq Updates
        /\ calls' \in [Updates -> Seq({"Reject", "Accept", "Complete"})]
    BY <1>13, UpdateTypes DEF Close
  <2>2. nextId' \in 1 .. MaxId + 1 /\ aside' \subseteq Ids
    BY <1>13, RunCommandTypes DEF Close
  <2> QED BY <1>13, <2>1, <2>2, SMTT(60) DEF Close, TypeOK
<1>14. CASE UNCHANGED vars
  BY <1>14, Zenon DEF vars, TypeOK
<1>15. CASE handleQuery \/ StackTrace
  <2>1. nextId' \in 1 .. MaxId + 1 /\ aside' \subseteq Ids
    BY <1>15, RunCommandTypes DEF handleQuery, StackTrace
  <2> QED BY <1>15, <2>1, Zenon DEF handleQuery, StackTrace, TypeOK
<1> QED
  BY <1>1, <1>2, <1>3, <1>4, <1>5, <1>6, <1>7, <1>8, <1>9, <1>10, <1>11,
     <1>12, <1>13, <1>14, <1>15 DEF Next, TaskStep, Closed

(***************************************************************************)
(* A run that Execute has not been called for yet is within its types.     *)
(***************************************************************************)
LEMMA InitTypeOK == Init => TypeOK
<1> SUFFICES ASSUME Init PROVE TypeOK
  OBVIOUS
<1>1. 1 \in 1 .. MaxId + 1
  BY BoundsAssumption
<1>2. /\ mq \in Seq(HostMessage(Ids)) /\ pipeline \in Seq(WorkerMessage(Ids))
      /\ callbacks \in Seq(Ids) /\ updatesQueue \in Seq(Names)
  BY DEF Init
<1>3. /\ listeners \in [Ids -> Ids \cup {0}]
      /\ calls \in [Updates -> Seq({"Reject", "Accept", "Complete"})]
  BY DEF Init
<1> QED BY <1>1, <1>2, <1>3, Zenon DEF Init, TypeOK

(***************************************************************************)
(* The state of a run stays within its types: in particular every answer   *)
(* queued or sent is to an identifier the worker used.                     *)
(***************************************************************************)
THEOREM TypeCorrect == Spec => []TypeOK
  BY InitTypeOK, TypeOKStep, PTL DEF Spec

(***************************************************************************)
(* What TypeOK says of each variable, for the proofs that cite it without  *)
(* expanding the definition.                                               *)
(***************************************************************************)
LEMMA TypeFacts ==
  ASSUME TypeOK
  PROVE
    /\ pc \in {"new", "idle", "panicked", "closed"} \cup TaskSteps
    /\ inLoop \in {0, 1}
    /\ mq \in Seq(HostMessage(Ids))
    /\ callbacks \in Seq(Ids)
    /\ pipeline \in Seq(WorkerMessage(Ids))
    /\ canceller \subseteq Ids
    /\ listeners \in [Ids -> Ids \cup {0}]
    /\ childIds \subseteq Ids
    /\ updatesQueue \in Seq(Names)
    /\ pending \subseteq Ids
    /\ starting \subseteq Ids
    /\ buffered \subseteq Updates
    /\ completed \in BOOLEAN
    /\ nextId \in 1 .. MaxId + 1
    /\ started \in BOOLEAN
    /\ delivered \subseteq Ids
    /\ owed \subseteq Ids
    /\ early \subseteq Ids
    /\ calls \in [Updates -> Seq({"Reject", "Accept", "Complete"})]
    /\ handled \subseteq Ids
    /\ aside \subseteq Ids
BY DEF TypeOK

(***************************************************************************)
(* The same for what a step makes of the queue and the pipeline.           *)
(***************************************************************************)
LEMMA NextTypeFacts ==
    ASSUME TypeOK'
    PROVE  /\ nextId' \in Nat
           /\ pipeline' \in Seq(WorkerMessage(Ids))
           /\ mq' \in Seq(HostMessage(Ids))
BY BoundsAssumption, SMTT(60) DEF TypeOK

-----------------------------------------------------------------------------
(***************************************************************************)
(* The queue, the waiting callbacks and the pipeline.                      *)
(***************************************************************************)
Distinct(q) ==
    \A i, j \in DOMAIN q : ~IsCommand(q[i]) /\ q[i] = q[j] => i = j

PipeIds(p) == {p[i].id : i \in DOMAIN p}

DistinctIds(p) == \A i, j \in DOMAIN p : p[i].id = p[j].id => i = j

-----------------------------------------------------------------------------
(***************************************************************************)
(* Taking the message at the head off the pipeline takes its identifier    *)
(* out of it, once and for all.                                            *)
(***************************************************************************)
LEMMA PipeTail ==
    ASSUME NEW p \in Seq(WorkerMessage(Ids)), p # <<>>, DistinctIds(p)
    PROVE  /\ DistinctIds(Tail(p))
           /\ PipeIds(p) = PipeIds(Tail(p)) \cup {Head(p).id}
           /\ Head(p).id \notin PipeIds(Tail(p))
<1> DEFINE t == Tail(p)
<1>1. /\ Len(p) \in Nat /\ Len(p) >= 1
      /\ DOMAIN p = 1 .. Len(p)
      /\ DOMAIN t = 1 .. Len(p) - 1
      /\ \A i \in 1 .. Len(p) - 1 : t[i] = p[i + 1]
      /\ Head(p) = p[1]
  BY OfHeadTail
<1> HIDE DEF t
<1>2. \A i \in 1 .. Len(p) - 1 : i + 1 \in DOMAIN p
  BY <1>1
<1>3. DistinctIds(t)
  <2>1. SUFFICES ASSUME NEW i \in 1 .. Len(p) - 1, NEW j \in 1 .. Len(p) - 1,
                        t[i].id = t[j].id
                 PROVE  i = j
    BY <1>1 DEF DistinctIds
  <2>2. p[i + 1].id = p[j + 1].id
    BY <1>1, <2>1
  <2>3. i + 1 = j + 1
    BY <1>2, <2>2 DEF DistinctIds
  <2> QED BY <1>1, <2>3
<1>4. Head(p).id \notin PipeIds(t)
  <2>1. SUFFICES ASSUME NEW i \in 1 .. Len(p) - 1, Head(p).id = t[i].id PROVE FALSE
    BY <1>1 DEF PipeIds
  <2>2. p[1].id = p[i + 1].id /\ 1 \in DOMAIN p /\ i + 1 \in DOMAIN p
    BY <1>1, <1>2, <2>1
  <2>3. 1 = i + 1
    BY <2>2 DEF DistinctIds
  <2> QED BY <1>1, <2>3
<1>5. \A i \in DOMAIN p : i = 1 \/ (i - 1 \in DOMAIN t /\ t[i - 1] = p[i])
  BY <1>1
<1>6. PipeIds(p) \subseteq PipeIds(t) \cup {Head(p).id}
  BY <1>1, <1>5 DEF PipeIds
<1>7. PipeIds(t) \cup {Head(p).id} \subseteq PipeIds(p)
  BY <1>1, <1>2, SMTT(60) DEF PipeIds
<1> QED BY <1>3, <1>4, <1>6, <1>7 DEF t

(***************************************************************************)
(* The pipeline holds identifiers of the worker's commands only.           *)
(***************************************************************************)
LEMMA PipeIdsNat ==
    ASSUME NEW p \in Seq(WorkerMessage(Ids))
    PROVE  PipeIds(p) \subseteq Ids /\ PipeIds(p) \subseteq Nat
<1>1. ASSUME NEW id \in PipeIds(p) PROVE id \in Ids
  <2>1. PICK i \in 1 .. Len(p) : id = p[i].id
    BY DEF PipeIds
  <2>2. p[i] \in WorkerMessage(Ids)
    BY OfElement
  <2> QED BY <2>1, <2>2 DEF WorkerMessage
<1> QED BY <1>1 DEF Ids

(***************************************************************************)
(* Replacing the head of the pipeline by a message with its identifier,    *)
(* as the iterations of Cancel do, changes no identifier.                  *)
(***************************************************************************)
LEMMA PipeHead ==
    ASSUME NEW p \in Seq(WorkerMessage(Ids)), p # <<>>, DistinctIds(p),
           NEW m \in WorkerMessage(Ids), m.id = Head(p).id
    PROVE  /\ DistinctIds(<<m>> \o Tail(p))
           /\ PipeIds(<<m>> \o Tail(p)) = PipeIds(p)
<1> DEFINE r == <<m>> \o Tail(p)
<1>1. /\ Len(p) \in Nat /\ Len(p) >= 1
      /\ DOMAIN p = 1 .. Len(p)
      /\ Tail(p) \in Seq(WorkerMessage(Ids))
      /\ Len(Tail(p)) = Len(p) - 1
      /\ \A i \in 1 .. Len(p) - 1 : Tail(p)[i] = p[i + 1]
      /\ Head(p) = p[1]
  BY OfHeadTail
<1>2. DOMAIN r = 1 .. Len(p) /\ r[1] = m
  BY <1>1
<1>3. ASSUME NEW i \in 1 .. Len(p), i # 1 PROVE r[i] = p[i]
  <2>1. r[i] = Tail(p)[i - 1]
    BY <1>1, <1>3
  <2>2. i - 1 \in 1 .. Len(p) - 1 /\ (i - 1) + 1 = i
    BY <1>1, <1>3
  <2> QED BY <1>1, <2>1, <2>2
<1>4. \A i \in 1 .. Len(p) : r[i].id = p[i].id
  BY <1>1, <1>2, <1>3
<1> HIDE DEF r
<1>5. DistinctIds(r)
  BY <1>1, <1>2, <1>4 DEF DistinctIds
<1>6. PipeIds(r) \subseteq PipeIds(p)
  BY <1>1, <1>2, <1>4 DEF PipeIds
<1>7. PipeIds(p) \subseteq PipeIds(r)
  BY <1>1, <1>2, <1>4 DEF PipeIds
<1> QED BY <1>5, <1>6, <1>7, Zenon DEF r

-----------------------------------------------------------------------------
(***************************************************************************)
(* AnsweredAtMostOnce is not inductive: that a callback finds its answer   *)
(* nowhere else depends on where every other identifier is.  AnswersInv    *)
(* adds that an identifier is in one place at a time (not yet handled,     *)
(* with the SDK, waiting, queued, sent), that identifiers not handled yet  *)
(* are nowhere else, that nothing is known of numbers the worker has not   *)
(* used, and that a listener of a child that has not started is unanswered *)
(* and listens to that child only.                                         *)
(***************************************************************************)
Phases ==
    /\ (inLoop = 1) <=> (pc \in TaskSteps)
    /\ pc \in TaskSteps => callbacks = <<>>
    /\ pc = "closed" => mq = <<>>

OnePlace ==
    /\ pending \cap (Waiting \cup Queued \cup delivered) = {}
    /\ Waiting \cap (Queued \cup delivered) = {}
    /\ Queued \cap delivered = {}
    /\ starting \cap childIds = {}

Unhandled ==
    /\ PipeIds(pipeline) \cap (pending \cup Waiting \cup Queued \cup delivered
                                  \cup starting \cup childIds) = {}
    /\ \A child \in Ids : listeners[child] \notin PipeIds(pipeline)

Numbered ==
    /\ \A id \in PipeIds(pipeline) \cup pending \cup Waiting \cup Queued \cup
                 delivered \cup starting \cup childIds : id < nextId
    /\ \A child \in Ids : listeners[child] < nextId

Listening ==
    /\ \A child \in Ids \ childIds :
          listeners[child] \notin pending \cup Waiting \cup Queued \cup delivered
    /\ \A child, other \in Ids :
          listeners[child] = listeners[other] /\ listeners[child] # 0
              => child = other

Places ==
    /\ Distinct(mq)
    /\ DistinctIds(pipeline)
    /\ OnePlace
    /\ Unhandled
    /\ Numbered
    /\ Listening

AnswersInv ==
    /\ TypeOK
    /\ Phases
    /\ IsInjective(callbacks)
    /\ Waiting \cap delivered = {}
    /\ Alive => Places

-----------------------------------------------------------------------------
(***************************************************************************)
(* Whatever the worker sends, in whatever order the SDK calls back and     *)
(* whichever exchange fails, no command of the worker is answered twice.   *)
(***************************************************************************)
THEOREM AnsweredOnce == Spec => []AnsweredAtMostOnce
(***************************************************************************)
(* Pushing an answer that is not queued keeps the queued answers distinct. *)
(***************************************************************************)
<1>DistinctAppendAnswer.
    ASSUME NEW q \in Seq(HostMessage(Ids)), NEW id \in Ids,
           Distinct(q), id \notin AnsweredIn(q)
    PROVE  Distinct(Append(q, Answer(id)))
  <2> USE <1>DistinctAppendAnswer
  <2> DEFINE r == Append(q, Answer(id))
  <2>1. /\ DOMAIN r = 1 .. Len(q) + 1
        /\ \A i \in 1 .. Len(q) : r[i] = q[i]
        /\ r[Len(q) + 1] = Answer(id)
        /\ DOMAIN q = 1 .. Len(q) /\ Len(q) \in Nat
    BY OfAppend
  <2>2. \A i \in 1 .. Len(q) : q[i] # Answer(id)
    BY <2>1 DEF AnsweredIn, Answer, IsCommand
  <2> HIDE DEF r
  <2>3. \A i \in DOMAIN r : i \in 1 .. Len(q) \/ i = Len(q) + 1
    BY <2>1, SMTT(60)
  <2>4. ASSUME NEW i \in DOMAIN r, NEW j \in DOMAIN r, ~IsCommand(r[i]), r[i] = r[j]
        PROVE  i = j
    BY <2>1, <2>2, <2>3, <2>4 DEF Distinct
  <2> QED BY <2>4 DEF Distinct, r

(***************************************************************************)
(* Pushing a command keeps the queued answers distinct.                    *)
(***************************************************************************)
<1>DistinctAppendCommand.
    ASSUME NEW q \in Seq(HostMessage(Ids)), NEW cmd \in HostCommands, Distinct(q)
    PROVE  Distinct(Append(q, Command(cmd)))
  <2> USE <1>DistinctAppendCommand
  <2> DEFINE r == Append(q, Command(cmd))
  <2>1. /\ DOMAIN r = 1 .. Len(q) + 1
        /\ \A i \in 1 .. Len(q) : r[i] = q[i]
        /\ r[Len(q) + 1] = Command(cmd)
        /\ DOMAIN q = 1 .. Len(q) /\ Len(q) \in Nat
    BY OfAppend
  <2>2. IsCommand(Command(cmd))
    BY DEF Command, IsCommand, HostCommands, NoCommand
  <2> HIDE DEF r
  <2>3. ASSUME NEW i \in DOMAIN r, NEW j \in DOMAIN r, ~IsCommand(r[i]), r[i] = r[j]
        PROVE  i = j
    BY <2>1, <2>2, <2>3, SMTT(60) DEF Distinct
  <2> QED BY <2>3 DEF Distinct, r

(***************************************************************************)
(* Running the waiting callbacks keeps the queued answers distinct, when   *)
(* none of them is queued already.                                         *)
(***************************************************************************)
<1>DistinctAnswersOf.
    ASSUME NEW q \in Seq(HostMessage(Ids)), NEW s \in Seq(Ids),
           Distinct(q), IsInjective(s), Range(s) \cap AnsweredIn(q) = {}
    PROVE  Distinct(q \o AnswersOf(s))
  <2> USE <1>DistinctAnswersOf
  <2> DEFINE r == q \o AnswersOf(s)
  <2>1. /\ DOMAIN r = 1 .. Len(q) + Len(s)
        /\ \A i \in 1 .. Len(q) : r[i] = q[i]
        /\ \A i \in 1 .. Len(s) : r[Len(q) + i] = Answer(s[i])
        /\ DOMAIN q = 1 .. Len(q) /\ Len(q) \in Nat
        /\ DOMAIN s = 1 .. Len(s) /\ Len(s) \in Nat
    BY AnswersOfProperties
  <2> HIDE DEF r
  <2>2. ASSUME NEW i \in 1 .. Len(q), NEW j \in 1 .. Len(s)
        PROVE  q[i] # Answer(s[j])
    <3>1. s[j] \in Range(s)
      BY <2>1, Zenon DEF Range
    <3>2. ASSUME q[i] = Answer(s[j]) PROVE s[j] \in AnsweredIn(q)
      <4>1. q[i].id = s[j] /\ ~IsCommand(q[i])
        BY <3>2 DEF Answer, IsCommand
      <4> QED BY <2>1, <4>1, Zenon DEF AnsweredIn
    <3> QED BY <3>1, <3>2
  <2>3. ASSUME NEW i \in 1 .. Len(s), NEW j \in 1 .. Len(s), Answer(s[i]) = Answer(s[j])
        PROVE  i = j
    BY <2>1, <2>3, Zenon DEF Answer, IsInjective
  <2>4. ASSUME NEW i \in DOMAIN r, i \notin 1 .. Len(q)
        PROVE  i - Len(q) \in 1 .. Len(s) /\ r[i] = Answer(s[i - Len(q)])
    <3>1. i - Len(q) \in 1 .. Len(s) /\ i = Len(q) + (i - Len(q))
      BY <2>1, <2>4
    <3> QED BY <2>1, <3>1, ZenonT(60)
  <2>5. ASSUME NEW i \in DOMAIN r, NEW j \in DOMAIN r, ~IsCommand(r[i]), r[i] = r[j]
        PROVE  i = j
    <3>1. CASE i \in 1 .. Len(q) /\ j \in 1 .. Len(q)
      BY <2>1, <2>5, <3>1, Zenon DEF Distinct
    <3>2. CASE i \in 1 .. Len(q) /\ j \notin 1 .. Len(q)
      BY <2>1, <2>2, <2>4, <2>5, <3>2, ZenonT(60)
    <3>3. CASE i \notin 1 .. Len(q) /\ j \in 1 .. Len(q)
      BY <2>1, <2>2, <2>4, <2>5, <3>3, ZenonT(60)
    <3>4. CASE i \notin 1 .. Len(q) /\ j \notin 1 .. Len(q)
      <4>1. i - Len(q) = j - Len(q)
        BY <2>3, <2>4, <2>5, <3>4, ZenonT(60)
      <4> QED BY <2>1, <4>1
    <3> QED BY <3>1, <3>2, <3>3, <3>4
  <2> QED BY <2>5, Zenon DEF Distinct, r

(***************************************************************************)
(* An operation that finishes between tasks and does not wait yet keeps    *)
(* the waiting callbacks distinct.                                         *)
(***************************************************************************)
<1>InjectiveAppend.
    ASSUME NEW s \in Seq(Ids), NEW id \in Ids, IsInjective(s), id \notin Range(s)
    PROVE  IsInjective(Append(s, id))
  <2> USE <1>InjectiveAppend
  <2> DEFINE r == Append(s, id)
  <2>1. /\ DOMAIN r = 1 .. Len(s) + 1
        /\ \A i \in 1 .. Len(s) : r[i] = s[i]
        /\ r[Len(s) + 1] = id
        /\ DOMAIN s = 1 .. Len(s) /\ Len(s) \in Nat
    BY OfAppend
  <2>2. \A i \in 1 .. Len(s) : s[i] # id
    BY <2>1 DEF Range
  <2> HIDE DEF r
  <2>3. \A i \in DOMAIN r : i \in 1 .. Len(s) \/ i = Len(s) + 1
    BY <2>1
  <2>4. ASSUME NEW i \in DOMAIN r, NEW j \in DOMAIN r, r[i] = r[j]
        PROVE  i = j
    BY <2>1, <2>2, <2>3, <2>4, Zenon DEF IsInjective
  <2> QED BY <2>4 DEF IsInjective, r

(***************************************************************************)
(* A frame of the worker adds only new identifiers to the pipeline.        *)
(***************************************************************************)
<1>PipeFrame.
    ASSUME TypeOK, NEW p \in Seq(WorkerMessage(Ids)), DistinctIds(p),
           \A id \in PipeIds(p) : id < nextId,
           NEW bodies \in UpTo(Bodies, Room)
    PROVE  /\ DistinctIds(p \o Frame(bodies))
           /\ \A id \in PipeIds(p \o Frame(bodies)) :
                 \/ id \in PipeIds(p)
                 \/ id \in nextId .. nextId + Len(bodies) - 1
  <2> USE <1>PipeFrame
  <2> DEFINE f == Frame(bodies)
             r == p \o f
  <2>1. /\ f \in Seq(WorkerMessage(Ids)) /\ Len(f) = Len(bodies)
        /\ Len(bodies) \in Nat /\ nextId \in Nat
        /\ \A i \in 1 .. Len(bodies) : f[i].id = nextId + i - 1
    BY FrameProperties, BoundsAssumption, TypeFacts, SMTT(60)
  <2> HIDE DEF f
  <2>2. /\ Len(p) \in Nat /\ DOMAIN p = 1 .. Len(p)
        /\ DOMAIN r = 1 .. Len(p) + Len(bodies)
        /\ \A i \in 1 .. Len(p) : r[i] = p[i]
    <3>1. /\ r \in Seq(WorkerMessage(Ids)) /\ Len(r) = Len(p) + Len(f)
          /\ \A i \in 1 .. Len(p) + Len(f) :
                r[i] = IF i <= Len(p) THEN p[i] ELSE f[i - Len(p)]
      <4>1. f \in Seq(WorkerMessage(Ids))
        BY <2>1
      <4> QED BY ONLY <4>1, p \in Seq(WorkerMessage(Ids)), OfConcat, Zenon
    <3>2. Len(p) \in Nat /\ DOMAIN p = 1 .. Len(p)
      BY SMTT(60)
    <3>3. DOMAIN r = 1 .. Len(p) + Len(bodies)
      BY <2>1, <3>1, SMTT(60)
    <3> QED BY <2>1, <3>1, <3>2, <3>3, SMTT(60)
  <2>3. ASSUME NEW i \in DOMAIN r, i \notin 1 .. Len(p)
        PROVE  r[i].id = nextId + (i - Len(p)) - 1 /\ i - Len(p) \in 1 .. Len(bodies)
    <3>1. i - Len(p) \in 1 .. Len(bodies)
      BY <2>2, <2>3, <2>1
    <3>2. r[i] = f[i - Len(p)]
      BY <2>1, <2>2, <2>3, OfConcat
    <3> QED BY <2>1, <3>1, <3>2, Zenon
  <2> HIDE DEF r
  <2>4. \A i \in 1 .. Len(p) : p[i].id < nextId /\ p[i].id \in Nat
    <3>1. ASSUME NEW i \in 1 .. Len(p)
          PROVE  p[i].id \in Ids /\ p[i].id \in PipeIds(p)
      <4>1. p[i] \in WorkerMessage(Ids)
        BY <2>2, OfElement
      <4> QED BY <2>2, <4>1, Zenon DEF PipeIds, WorkerMessage
    <3> QED BY <3>1 DEF Ids
  <2>5. ASSUME NEW i \in DOMAIN r, NEW j \in DOMAIN r, r[i].id = r[j].id
        PROVE  i = j
    <3>1. CASE i \in 1 .. Len(p) /\ j \in 1 .. Len(p)
      BY <2>2, <2>5, <3>1, Zenon DEF DistinctIds
    <3>2. CASE i \in 1 .. Len(p) /\ j \notin 1 .. Len(p)
      BY <2>1, <2>2, <2>3, <2>4, <2>5, <3>2, SMTT(60)
    <3>3. CASE i \notin 1 .. Len(p) /\ j \in 1 .. Len(p)
      BY <2>1, <2>2, <2>3, <2>4, <2>5, <3>3
    <3>4. CASE i \notin 1 .. Len(p) /\ j \notin 1 .. Len(p)
      <4>1. /\ r[i].id = nextId + (i - Len(p)) - 1
            /\ r[j].id = nextId + (j - Len(p)) - 1
        BY <2>3, <3>4
      <4>2. i \in Nat /\ j \in Nat /\ Len(p) \in Nat /\ nextId \in Nat
        BY <2>1, <2>2
      <4>3. nextId + (i - Len(p)) - 1 = nextId + (j - Len(p)) - 1
        BY <2>5, <4>1, Zenon
      <4> QED BY ONLY <4>2, <4>3, SMTT(60)
    <3> QED BY <3>1, <3>2, <3>3, <3>4
  <2>6. ASSUME NEW id \in PipeIds(r)
        PROVE  id \in PipeIds(p) \/ id \in nextId .. nextId + Len(bodies) - 1
    <3>1. PICK i \in DOMAIN r : id = r[i].id
      BY DEF PipeIds
    <3>2. CASE i \in 1 .. Len(p)
      BY <2>2, <3>1, <3>2, Zenon DEF PipeIds
    <3>3. CASE i \notin 1 .. Len(p)
      BY <2>1, <2>2, <2>3, <3>1, <3>3, SMTT(60)
    <3> QED BY <3>2, <3>3
  <2> QED BY <2>5, <2>6, Zenon DEF DistinctIds, r, f

(***************************************************************************)
(* What a flush does to the places: the queue becomes delivered and new    *)
(* identifiers enter the pipeline, or the run panics.                      *)
(***************************************************************************)
<1>FlushEffect.
    ASSUME TypeOK,
           NEW queue \in Seq(HostMessage(Ids)),
           NEW rest \in Seq(WorkerMessage(Ids)),
           NEW kept, NEW next \in TaskSteps,
           DistinctIds(rest), \A id \in PipeIds(rest) : id < nextId,
           flushQueue(queue, rest, next, kept)
    PROVE  \/ /\ pc' = "panicked"
              /\ inLoop' = 0
              /\ delivered' \subseteq delivered \cup AnsweredIn(queue)
           \/ /\ pc' = next
              /\ inLoop' = inLoop
              /\ mq' = <<>>
              /\ delivered' = delivered \cup AnsweredIn(queue)
              /\ nextId' >= nextId
              /\ DistinctIds(pipeline')
              /\ \A id \in PipeIds(pipeline') :
                    \/ id \in PipeIds(rest)
                    \/ nextId <= id /\ id < nextId'
  <2> USE <1>FlushEffect
  <2>1. nextId \in Nat
    BY BoundsAssumption, TypeFacts
  <2>2. CASE queue = <<>> /\ mq' = queue /\ pipeline' = rest /\ pc' = next
             /\ UNCHANGED <<inLoop, nextId, delivered, started>>
    <3>1. AnsweredIn(queue) = {}
      BY <2>2, AnsweredInEmpty
    <3>2. nextId' >= nextId
      BY <2>1, <2>2, SMTT(60)
    <3> QED BY <2>2, <3>1, <3>2
  <2>3. CASE /\ \E bodies \in UpTo(Bodies, Room) :
                   /\ RefersBack(bodies)
                   /\ pipeline' = rest \o Frame(bodies)
                   /\ nextId' = nextId + Len(bodies)
             /\ Receive(queue) /\ mq' = <<>> /\ pc' = next /\ UNCHANGED inLoop
    <3>1. PICK bodies \in UpTo(Bodies, Room) :
                   /\ pipeline' = rest \o Frame(bodies)
                   /\ nextId' = nextId + Len(bodies)
      BY <2>3, Zenon
    <3>2. Len(bodies) \in Nat
      BY FrameProperties, Zenon
    <3>3. /\ DistinctIds(pipeline')
          /\ \A id \in PipeIds(pipeline') :
                \/ id \in PipeIds(rest)
                \/ id \in nextId .. nextId + Len(bodies) - 1
      BY <3>1, <1>PipeFrame
    <3>4. nextId' >= nextId
      BY <2>1, <3>1, <3>2
    <3>5. ASSUME NEW id \in nextId .. nextId + Len(bodies) - 1
          PROVE  nextId <= id /\ id < nextId'
      BY <2>1, <3>1, <3>2, SMTT(60)
    <3> QED BY <2>3, <3>3, <3>4, <3>5, Zenon DEF Receive
  <2>4. CASE /\ Receive(queue) \/ UNCHANGED <<delivered, started>>
             /\ Panic
    BY <2>4 DEF Receive, Panic
  <2> QED BY <2>2, <2>3, <2>4, Zenon DEF flushQueue

(***************************************************************************)
(* The identifier at the head of the pipeline is in no other place.        *)
(***************************************************************************)
<1>HeadIsNew.
    ASSUME AnswersInv, pc = "pipeline", pipeline # <<>>
    PROVE  /\ msg.id \in Ids
           /\ Tail(pipeline) \in Seq(WorkerMessage(Ids))
           /\ DistinctIds(Tail(pipeline))
           /\ PipeIds(pipeline) = PipeIds(Tail(pipeline)) \cup {msg.id}
           /\ msg.id \notin PipeIds(Tail(pipeline)) \cup pending \cup Waiting
                 \cup Queued \cup delivered \cup starting \cup childIds
           /\ \A child \in Ids : listeners[child] # msg.id
           /\ msg.id < nextId
           /\ callbacks = <<>> /\ Waiting = {} /\ inLoop = 1 /\ Places
  <2> USE <1>HeadIsNew
  <2>1. TypeOK /\ Phases /\ Places
    BY DEF AnswersInv, Alive
  <2>2. msg.id \in Ids /\ Tail(pipeline) \in Seq(WorkerMessage(Ids))
        /\ pipeline \in Seq(WorkerMessage(Ids))
    BY <2>1, HandledMessage, TypeFacts
  <2>3. /\ DistinctIds(Tail(pipeline))
        /\ PipeIds(pipeline) = PipeIds(Tail(pipeline)) \cup {msg.id}
        /\ msg.id \notin PipeIds(Tail(pipeline))
    BY <2>1, <2>2, PipeTail DEF Places, msg
  <2>4. callbacks = <<>> /\ inLoop = 1
    BY <2>1 DEF Phases, TaskSteps
  <2>5. Waiting = {}
    BY <2>4 DEF Waiting, Range
  <2>6. msg.id \in PipeIds(pipeline)
    BY <2>3
  <2>7. /\ msg.id \notin pending \cup Waiting \cup Queued \cup delivered
              \cup starting \cup childIds
        /\ \A child \in Ids : listeners[child] # msg.id
    BY <2>1, <2>6 DEF Places, Unhandled
  <2>8. msg.id < nextId
    BY <2>1, <2>6, Zenon DEF Places, Numbered
  <2> QED BY <2>1, <2>2, <2>3, <2>4, <2>5, <2>7, <2>8

(***************************************************************************)
(* The message at the head is answered in the loop.                        *)
(***************************************************************************)
<1>AnswerInLoop.
    ASSUME AnswersInv, TypeOK', pc = "pipeline", pipeline # <<>>,
           mq' = Append(mq, Answer(msg.id)), pipeline' = Tail(pipeline),
           UNCHANGED <<pc, inLoop, callbacks, pending, starting, nextId, delivered>>,
           childIds' \in {childIds, childIds \cup {msg.id}},
           \A child \in Ids : listeners'[child] \in {listeners[child], msg.id},
           \A child \in Ids \ childIds' : listeners'[child] = listeners[child],
           \A child, other \in Ids :
               listeners'[child] = msg.id /\ listeners'[other] = msg.id => child = other
    PROVE  AnswersInv'
  <2> USE <1>AnswerInLoop
  <2>1. /\ msg.id \in Ids
        /\ DistinctIds(Tail(pipeline))
        /\ PipeIds(pipeline) = PipeIds(Tail(pipeline)) \cup {msg.id}
        /\ msg.id \notin PipeIds(Tail(pipeline)) \cup pending \cup Waiting
              \cup Queued \cup delivered \cup starting \cup childIds
        /\ \A child \in Ids : listeners[child] # msg.id
        /\ msg.id < nextId
        /\ Waiting = {} /\ Places
    BY <1>HeadIsNew, ZenonT(60)
  <2>2. mq \in Seq(HostMessage(Ids)) /\ Distinct(mq)
    BY <2>1, TypeFacts DEF AnswersInv, Places
  <2>3. Queued' = Queued \cup {msg.id} /\ Waiting' = Waiting
    BY <2>1, <2>2, AnsweredInAppendAnswer, Zenon DEF Queued, Waiting
  <2>4. Distinct(mq')
    BY <2>1, <2>2, <1>DistinctAppendAnswer, Zenon DEF Queued
  <2>5. OnePlace'
    BY <2>1, <2>3, SMTT(60) DEF Places, OnePlace
  <2>6. Unhandled'
    BY <2>1, <2>3, SMTT(60) DEF Places, Unhandled
  <2>7. Numbered'
    BY <2>1, <2>3, Zenon DEF Places, Numbered
  <2>8. Listening'
    <3>1. \A child \in Ids \ childIds' :
            listeners'[child] \notin pending' \cup Waiting' \cup Queued' \cup delivered'
      BY <2>1, <2>3, ZenonT(60) DEF Places, Listening
    <3>2. \A child, other \in Ids :
            listeners'[child] = listeners'[other] /\ listeners'[child] # 0
                => child = other
      BY <2>1, Zenon DEF Places, Listening
    <3> QED BY <3>1, <3>2, Zenon DEF Listening
  <2>9. Phases' /\ IsInjective(callbacks)' /\ (Waiting \cap delivered = {})'
    BY <2>3, Zenon DEF AnswersInv, Phases
  <2> QED BY <2>1, <2>4, <2>5, <2>6, <2>7, <2>8, <2>9, Zenon DEF AnswersInv, Places

(***************************************************************************)
(* A flush within a task, of the queue and the answers to the identifiers  *)
(* in extra, which are in no other place.                                  *)
(***************************************************************************)
<1>FlushKeepsPlaces.
    ASSUME AnswersInv, TypeOK', pc \in TaskSteps,
           NEW queue \in Seq(HostMessage(Ids)),
           NEW rest \in Seq(WorkerMessage(Ids)),
           NEW next \in TaskSteps, NEW kept, NEW extra \in SUBSET Ids,
           AnsweredIn(queue) = Queued \cup extra,
           DistinctIds(rest), PipeIds(rest) \subseteq PipeIds(pipeline),
           extra \cap (PipeIds(rest) \cup pending \cup Queued \cup delivered
                         \cup starting \cup childIds) = {},
           \A child \in Ids : listeners[child] \notin extra,
           \A id \in extra : id < nextId,
           flushQueue(queue, rest, next, kept),
           UNCHANGED <<callbacks, pending, starting, childIds, listeners>>
    PROVE  AnswersInv'
  <2> USE <1>FlushKeepsPlaces
  <2>1. callbacks = <<>> /\ Waiting = {} /\ inLoop = 1 /\ Places
    BY DEF AnswersInv, Phases, Alive, TaskSteps, Waiting, Range
  <2>2. TypeOK
    BY Zenon DEF AnswersInv
  <2>3. \A id \in PipeIds(rest) : id < nextId
    BY <2>1, Zenon DEF Places, Numbered
  <2>4. Waiting' = {} /\ IsInjective(callbacks)' /\ (Waiting \cap delivered = {})'
    BY <2>1, Zenon DEF AnswersInv, Waiting
  <2>5. \/ /\ pc' = "panicked"
           /\ inLoop' = 0
        \/ /\ pc' = next
           /\ inLoop' = inLoop
           /\ mq' = <<>>
           /\ delivered' = delivered \cup AnsweredIn(queue)
           /\ nextId' >= nextId
           /\ DistinctIds(pipeline')
           /\ \A id \in PipeIds(pipeline') :
                 \/ id \in PipeIds(rest)
                 \/ nextId <= id /\ id < nextId'
    BY <2>2, <2>3, <1>FlushEffect, Zenon
  <2>6. CASE pc' = "panicked" /\ inLoop' = 0
    BY <2>4, <2>6, SMTT(60) DEF AnswersInv, Phases, Alive, TaskSteps
  <2>7. CASE /\ pc' = next
             /\ inLoop' = inLoop
             /\ mq' = <<>>
             /\ delivered' = delivered \cup AnsweredIn(queue)
             /\ nextId' >= nextId
             /\ DistinctIds(pipeline')
             /\ \A id \in PipeIds(pipeline') :
                   \/ id \in PipeIds(rest)
                   \/ nextId <= id /\ id < nextId'
    <3>1. Queued' = {} /\ Distinct(mq')
      BY <2>7, AnsweredInEmpty DEF Queued, Distinct
    <3>2. delivered' = delivered \cup Queued \cup extra
      BY <2>7, Zenon
    <3>3. OnePlace'
      BY <2>1, <2>4, <3>1, <3>2, Zenon DEF Places, OnePlace
    <3>4. /\ nextId \in Nat /\ nextId' \in Nat /\ Ids \subseteq Nat
          /\ pending \subseteq Ids /\ Queued \subseteq Ids /\ delivered \subseteq Ids
          /\ starting \subseteq Ids /\ childIds \subseteq Ids
          /\ listeners \in [Ids -> Ids \cup {0}]
      <4>1. TypeOK
        BY DEF AnswersInv
      <4>2. nextId \in Nat /\ nextId' \in Nat /\ Ids \subseteq Nat
        BY <4>1, BoundsAssumption, TypeFacts, NextTypeFacts, SMTT(60) DEF Ids
      <4>3. Queued \subseteq Ids
        BY <4>1, AnsweredInIds, TypeFacts, Zenon DEF Queued
      <4> QED BY <4>1, <4>2, <4>3, TypeFacts, Zenon
    <3>5. PipeIds(rest) \subseteq Nat /\ PipeIds(pipeline') \subseteq Nat
      BY PipeIdsNat, NextTypeFacts, Zenon
    <3>6. \A id \in pending \cup Queued \cup delivered \cup starting \cup childIds
                   \cup extra : id < nextId /\ id \in Nat
      BY <2>1, <3>4 DEF Places, Numbered
    <3>7. \A child \in Ids : listeners[child] < nextId /\ listeners[child] \in Nat
      <4>1. \A child \in Ids : listeners[child] \in Nat
        BY <3>4
      <4>2. \A child \in Ids : listeners[child] < nextId
        BY <2>1, Zenon DEF Places, Numbered
      <4> QED BY <4>1, <4>2
    <3>8. Numbered'
      <4>1. \A id \in PipeIds(pipeline') : id < nextId'
        BY <2>3, <2>7, <3>4, <3>5, SMTT(60)
      <4>2. \A id \in pending \cup Queued \cup delivered \cup starting \cup childIds
                     \cup extra : id < nextId'
        BY <2>7, <3>4, <3>6, SMTT(60)
      <4>3. \A child \in Ids : listeners[child] < nextId'
        BY <2>7, <3>4, <3>7, SMTT(60)
      <4> QED BY <2>4, <3>1, <3>2, <4>1, <4>2, <4>3, Zenon DEF Numbered
    <3>9. Unhandled'
      <4>1. ASSUME NEW id \in PipeIds(pipeline')
            PROVE  /\ id \notin pending \cup Queued \cup delivered \cup extra
                           \cup starting \cup childIds
                   /\ \A child \in Ids : listeners[child] # id
        <5>1. CASE id \in PipeIds(rest)
          BY <2>1, <5>1, Zenon DEF Places, Unhandled
        <5>2. CASE nextId <= id /\ id < nextId'
          BY <3>4, <3>5, <3>6, <3>7, <5>2, SMTT(60)
        <5> QED BY <2>7, <5>1, <5>2, Zenon
      <4> QED BY <2>4, <3>1, <3>2, <4>1, Zenon DEF Unhandled
    <3>10. Listening'
      BY <2>1, <2>4, <3>1, <3>2, Zenon DEF Places, Listening
    <3>11. Phases'
      BY <2>1, <2>7 DEF Phases, TaskSteps
    <3> QED BY <2>4, <2>7, <3>1, <3>3, <3>8, <3>9, <3>10, <3>11, Zenon
         DEF AnswersInv, Places
  <2> QED BY <2>5, <2>6, <2>7, ZenonT(60)

(***************************************************************************)
(* Answering the message at the head and flushing, as GetVersion,          *)
(* SideEffect and Cancel do, keeps AnswersInv.                             *)
(***************************************************************************)
<1>AnswerAndFlush.
    ASSUME AnswersInv, TypeOK', pc = "pipeline", pipeline # <<>>, NEW kept,
           flushQueue(Append(mq, Answer(msg.id)), Tail(pipeline), "pipeline", kept),
           UNCHANGED <<callbacks, pending, starting, childIds, listeners>>
    PROVE  AnswersInv'
  <2> USE <1>AnswerAndFlush
  <2> DEFINE queue == Append(mq, Answer(msg.id))
  <2>1. /\ msg.id \in Ids
        /\ Tail(pipeline) \in Seq(WorkerMessage(Ids))
        /\ DistinctIds(Tail(pipeline))
        /\ PipeIds(pipeline) = PipeIds(Tail(pipeline)) \cup {msg.id}
        /\ msg.id \notin PipeIds(Tail(pipeline)) \cup pending \cup Waiting
              \cup Queued \cup delivered \cup starting \cup childIds
        /\ \A child \in Ids : listeners[child] # msg.id
        /\ msg.id < nextId
    BY <1>HeadIsNew, ZenonT(60)
  <2>2. queue \in Seq(HostMessage(Ids)) /\ AnsweredIn(queue) = Queued \cup {msg.id}
    BY <2>1, AnsweredInAppendAnswer, TypeFacts DEF AnswersInv, Queued
  <2>3. "pipeline" \in TaskSteps
    BY Zenon DEF TaskSteps
  <2> DEFINE extra == {msg.id}
  <2>4. /\ extra \in SUBSET Ids
        /\ extra \cap (PipeIds(Tail(pipeline)) \cup pending \cup Queued \cup delivered
                           \cup starting \cup childIds) = {}
        /\ \A child \in Ids : listeners[child] \notin extra
        /\ \A id \in extra : id < nextId
        /\ AnsweredIn(queue) = Queued \cup extra
        /\ PipeIds(Tail(pipeline)) \subseteq PipeIds(pipeline)
    BY <2>1, <2>2
  <2> HIDE DEF queue, extra
  <2> QED BY <2>1, <2>2, <2>3, <2>4, <1>FlushKeepsPlaces, Zenon DEF queue

(***************************************************************************)
(* A step that moves no identifier, and may drop some of the pipeline.     *)
(***************************************************************************)
<1>PlacesUnchanged.
    ASSUME AnswersInv, TypeOK', Phases', Alive' => Alive,
           UNCHANGED <<mq, callbacks, pending, starting, childIds, listeners,
                       delivered, nextId>>,
           Alive' => /\ DistinctIds(pipeline')
                     /\ PipeIds(pipeline') \subseteq PipeIds(pipeline)
    PROVE  AnswersInv'
  <2> USE <1>PlacesUnchanged
  <2>1. Queued' = Queued /\ Waiting' = Waiting
    BY DEF Queued, Waiting
  <2>2. ASSUME Alive' PROVE Places'
    <3>1. Places
      BY <2>2 DEF AnswersInv
    <3>2. OnePlace' /\ Distinct(mq)' /\ Listening'
      BY <2>1, <3>1, Zenon DEF Places, OnePlace, Listening
    <3>3. Unhandled'
      BY <2>1, <2>2, <3>1 DEF Places, Unhandled
    <3>4. Numbered'
      BY <2>1, <2>2, <3>1, ZenonT(60) DEF Places, Numbered
    <3> QED BY <2>2, <3>2, <3>3, <3>4 DEF Places
  <2> QED BY <2>1, <2>2 DEF AnswersInv

(***************************************************************************)
(* A single command, whose reply may use up numbers, moves no identifier.  *)
(***************************************************************************)
<1>PlacesAside.
    ASSUME AnswersInv, TypeOK', Alive, Alive', Phases', nextId' >= nextId,
           UNCHANGED <<mq, callbacks, pipeline, pending, starting, childIds,
                       listeners, delivered>>
    PROVE  AnswersInv'
  <2> USE <1>PlacesAside
  <2>1. Queued' = Queued /\ Waiting' = Waiting /\ Places
    BY Zenon DEF Queued, Waiting, AnswersInv
  <2>2. OnePlace' /\ Distinct(mq)' /\ DistinctIds(pipeline)' /\ Listening' /\ Unhandled'
    BY <2>1, Zenon DEF Places, OnePlace, Listening, Unhandled
  <2> DEFINE Known == PipeIds(pipeline) \cup pending \cup Waiting \cup Queued \cup
                      delivered \cup starting \cup childIds
  <2>3. /\ nextId \in Nat /\ nextId' \in Nat /\ Ids \subseteq Nat
        /\ listeners \in [Ids -> Ids \cup {0}]
    BY BoundsAssumption, TypeFacts, NextTypeFacts DEF AnswersInv, Ids
  <2>4. Known \subseteq Nat
    <3>1. PipeIds(pipeline) \subseteq Ids
      BY PipeIdsNat, TypeFacts, ZenonT(60) DEF AnswersInv
    <3>2. Queued \subseteq Ids
      BY AnsweredInIds, TypeFacts DEF AnswersInv, Queued
    <3>3. Waiting \subseteq Ids
      <4>1. \A i \in DOMAIN callbacks : callbacks[i] \in Ids
        BY OfElement, TypeFacts DEF AnswersInv
      <4> QED BY <4>1 DEF Waiting, Range
    <3> QED BY <2>3, <3>1, <3>2, <3>3, TypeFacts, Zenon DEF AnswersInv
  <2>5. Known' = Known
    BY <2>1
  <2>6. \A id \in Known : id < nextId
    BY <2>1 DEF Places, Numbered
  <2> HIDE DEF Known
  <2>7. \A id \in Known' : id < nextId'
    BY <2>3, <2>4, <2>5, <2>6
  <2>8. \A child \in Ids : listeners'[child] < nextId'
    <3>1. \A child \in Ids : listeners[child] \in Nat
      <4>1. \A child \in Ids : listeners[child] \in Ids \cup {0}
        BY ONLY <2>3
      <4>2. Ids \cup {0} \subseteq Nat
        BY <2>3
      <4> QED BY <4>1, <4>2
    <3>2. \A child \in Ids : listeners[child] < nextId
      BY <2>1 DEF Places, Numbered
    <3> QED BY <2>3, <3>1, <3>2
  <2>9. Numbered'
    BY <2>7, <2>8, Zenon DEF Numbered, Known
  <2> QED BY <2>1, <2>2, <2>9 DEF AnswersInv, Places

(***************************************************************************)
(* A message of the host is queued.                                        *)
(***************************************************************************)
<1>CommandQueued.
    ASSUME AnswersInv, TypeOK', pc = "idle", NEW cmd \in HostCommands,
           mq' = Append(mq, Command(cmd)),
           UNCHANGED <<pc, inLoop, callbacks, pipeline, pending, starting,
                       childIds, listeners, delivered, nextId>>
    PROVE  AnswersInv'
  <2> USE <1>CommandQueued
  <2>1. mq \in Seq(HostMessage(Ids)) /\ Places
    BY TypeFacts DEF AnswersInv, Alive
  <2>2. Queued' = Queued /\ Waiting' = Waiting /\ Distinct(mq')
    BY <2>1, AnsweredInAppendCommand, <1>DistinctAppendCommand DEF Queued, Waiting, Places
  <2>3. OnePlace' /\ Unhandled' /\ Numbered' /\ Listening'
    BY <2>1, <2>2, Zenon DEF Places, OnePlace, Unhandled, Numbered, Listening
  <2>4. Phases'
    BY DEF AnswersInv, Phases
  <2> QED BY <2>1, <2>2, <2>3, <2>4, ZenonT(60) DEF AnswersInv, Places

(***************************************************************************)
(* A callback is queued between tasks, for an identifier that is in none   *)
(* of the places of an answer.                                             *)
(***************************************************************************)
<1>CallbackWaits.
    ASSUME AnswersInv, TypeOK', pc = "idle", NEW id \in Ids,
           callbacks' = Append(callbacks, id),
           id \notin Waiting \cup Queued \cup delivered \cup PipeIds(pipeline),
           id < nextId,
           pending' \subseteq pending \ {id},
           starting' \subseteq starting, childIds' \subseteq childIds \cup starting,
           childIds \subseteq childIds', starting' \cap childIds' = {},
           \A child \in Ids \ childIds' : listeners[child] # id,
           UNCHANGED <<pc, inLoop, mq, pipeline, listeners, delivered, nextId>>
    PROVE  AnswersInv'
  <2> USE <1>CallbackWaits
  <2>1. callbacks \in Seq(Ids) /\ Places
    BY TypeFacts, Zenon DEF AnswersInv, Alive
  <2>2. Queued' = Queued /\ Waiting' = Waiting \cup {id}
    <3>1. Range(Append(callbacks, id)) = Range(callbacks) \cup {id}
      BY <2>1, RangeAppend, SMTT(60)
    <3> QED BY <3>1, Zenon DEF Queued, Waiting
  <2>3. IsInjective(callbacks)'
    BY <2>1, <1>InjectiveAppend, Zenon DEF AnswersInv, Waiting
  <2>4. OnePlace'
    BY <2>1, <2>2, ZenonT(60) DEF Places, OnePlace
  <2>5. Unhandled'
    BY <2>1, <2>2, ZenonT(60) DEF Places, Unhandled
  <2>6. Numbered'
    BY <2>1, <2>2, Zenon DEF Places, Numbered
  <2>7. Listening'
    BY <2>1, <2>2, Zenon DEF Places, Listening
  <2>8. Phases' /\ (Waiting \cap delivered = {})'
    BY <2>2 DEF AnswersInv, Phases, TaskSteps
  <2> QED BY <2>1, <2>3, <2>4, <2>5, <2>6, <2>7, <2>8, Zenon DEF AnswersInv, Places

(***************************************************************************)
(* Every case of handleMessage keeps AnswersInv.                           *)
(***************************************************************************)
<1>HandleMessageStep.
    ASSUME AnswersInv, TypeOK', HandleMessage
    PROVE  AnswersInv'
  <2> USE <1>HandleMessageStep
  <2> USE DEF process, sdk, history
  <2>0. pipeline # <<>> /\ pc = "pipeline"
    BY Zenon DEF HandleMessage, SkipResponse, ExecuteOperation,
       ExecuteChildWorkflow, GetChildWorkflowExecution, GetVersion,
       SideEffect, CompleteWorkflow, UpsertWorkflowSearchAttributes,
       CancelNext, CancelDone, FailMessage, Handling
  <2>1. /\ msg.id \in Ids
        /\ Tail(pipeline) \in Seq(WorkerMessage(Ids))
        /\ DistinctIds(Tail(pipeline))
        /\ PipeIds(pipeline) = PipeIds(Tail(pipeline)) \cup {msg.id}
        /\ msg.id \notin PipeIds(Tail(pipeline)) \cup pending \cup Waiting
              \cup Queued \cup delivered \cup starting \cup childIds
        /\ \A child \in Ids : listeners[child] # msg.id
        /\ msg.id < nextId
        /\ callbacks = <<>> /\ Waiting = {} /\ inLoop = 1 /\ Places
    BY <2>0, <1>HeadIsNew, Zenon
  <2>2. PipeIds(Tail(pipeline)) \subseteq PipeIds(pipeline) /\ Alive /\ Phases
    BY <2>0, <2>1 DEF Alive, AnswersInv
  <2>3. CASE SkipResponse \/ UpsertWorkflowSearchAttributes
    <3>1. Phases'
      BY <2>2, <2>3, Zenon DEF SkipResponse, UpsertWorkflowSearchAttributes, Phases
    <3> QED BY <2>1, <2>2, <2>3, <3>1, <1>PlacesUnchanged, Zenon
            DEF SkipResponse, UpsertWorkflowSearchAttributes
  <2>4. ASSUME NEW registered, OperationTaken(registered), pipeline' = Tail(pipeline),
               starting' \in {starting, starting \cup {msg.id}},
               UNCHANGED <<pc, inLoop, childIds, listeners, delivered, nextId>>
        PROVE  AnswersInv'
    <3>1. pending' = pending \cup {msg.id} /\ UNCHANGED <<mq, callbacks>>
      BY <2>4, Zenon DEF OperationTaken
    <3>2. Queued' = Queued /\ Waiting' = Waiting /\ Distinct(mq)'
      BY <2>1, <3>1, Zenon DEF Queued, Waiting, Places
    <3>3. OnePlace'
      <4>1. OnePlace
        BY <2>1, Zenon DEF Places
      <4>2. (pending \cup {msg.id}) \cap (Waiting \cup Queued \cup delivered) = {}
        BY <2>1, <4>1, ZenonT(60) DEF OnePlace
      <4>3. starting' \cap childIds = {}
        BY <2>1, <2>4, <4>1 DEF OnePlace
      <4>4. delivered' = delivered /\ childIds' = childIds
        BY <2>4, Zenon
      <4> QED BY <3>1, <3>2, <4>1, <4>2, <4>3, <4>4, Zenon DEF OnePlace
    <3>4. Unhandled'
      BY <2>1, <2>4, <3>1, <3>2, SMTT(60) DEF Places, Unhandled
    <3>5. Numbered'
      BY <2>1, <2>4, <3>1, <3>2, Zenon DEF Places, Numbered
    <3>6. Listening'
      BY <2>1, <2>4, <3>1, <3>2, Zenon DEF Places, Listening
    <3>7. Phases' /\ IsInjective(callbacks)' /\ (Waiting \cap delivered = {})'
      BY <2>2, <2>4, <3>1, <3>2, Zenon DEF AnswersInv, Phases
    <3> QED BY <2>1, <2>4, <3>2, <3>3, <3>4, <3>5, <3>6, <3>7, Zenon DEF AnswersInv,
               Places
  <2>5. ASSUME NEW registered, OperationCalledBack(registered), pipeline' = Tail(pipeline),
               childIds' \in {childIds, childIds \cup {msg.id}},
               UNCHANGED <<pc, inLoop, starting, listeners, delivered, nextId>>
        PROVE  AnswersInv'
    <3>1. /\ mq' = Append(mq, Answer(msg.id))
          /\ UNCHANGED <<callbacks, pending>>
      BY <2>1, <2>5, SMTT(60) DEF OperationCalledBack, createCallback
    <3>2. /\ \A child \in Ids : listeners'[child] \in {listeners[child], msg.id}
          /\ \A child \in Ids \ childIds' : listeners'[child] = listeners[child]
          /\ \A child, other \in Ids :
                 listeners'[child] = msg.id /\ listeners'[other] = msg.id => child = other
      BY <2>1, <2>5, Zenon
    <3> QED BY <2>0, <2>5, <3>1, <3>2, <1>AnswerInLoop, Zenon
  <2>6. CASE ExecuteOperation
    BY <2>4, <2>5, <2>6, Zenon DEF ExecuteOperation
  <2>7. CASE ExecuteChildWorkflow
    BY <2>4, <2>5, <2>7, Zenon DEF ExecuteChildWorkflow
  <2>8. CASE GetChildWorkflowExecution
    <3> DEFINE child == Head(msg.ids)
    <3>1. /\ listeners' = [listeners EXCEPT ![child] = msg.id]
          /\ pipeline' = Tail(pipeline)
          /\ UNCHANGED <<childIds, pending, starting, nextId, delivered>>
      BY <2>8, Zenon DEF GetChildWorkflowExecution
    <3>2. /\ \A c \in Ids : listeners'[c] \in {listeners[c], msg.id}
          /\ \A c \in Ids : c # child => listeners'[c] = listeners[c]
          /\ \A c, other \in Ids :
                 listeners'[c] = msg.id /\ listeners'[other] = msg.id => c = other
      BY <2>1, <3>1, TypeFacts, Zenon DEF AnswersInv
    <3>3. CASE child \notin childIds /\ UNCHANGED <<pc, inLoop, mq, callbacks>>
      <4>1. Queued' = Queued /\ Waiting' = Waiting /\ Distinct(mq)'
        BY <2>1, <3>3, Zenon DEF Queued, Waiting, Places
      <4>2. OnePlace'
        BY <2>1, <3>1, <3>3, <4>1, Zenon DEF Places, OnePlace
      <4>3. Unhandled'
        BY <2>1, <3>1, <3>2, <4>1, Zenon DEF Places, Unhandled
      <4>4. Numbered'
        BY <2>1, <3>1, <3>2, <4>1, ZenonT(60) DEF Places, Numbered
      <4>5. Listening'
        <5>1. \A c \in Ids \ childIds' :
                listeners'[c] \notin pending' \cup Waiting' \cup Queued' \cup delivered'
          BY <2>1, <3>1, <3>2, <4>1, SMTT(60) DEF Places, Listening
        <5>2. \A c, other \in Ids :
                listeners'[c] = listeners'[other] /\ listeners'[c] # 0 => c = other
          BY <2>1, <3>2, Zenon DEF Places, Listening
        <5> QED BY <5>1, <5>2, Zenon DEF Listening
      <4>6. Phases' /\ IsInjective(callbacks)' /\ (Waiting \cap delivered = {})'
        BY <2>2, <3>1, <3>3, <4>1, Zenon DEF AnswersInv, Phases
      <4> QED BY <2>1, <3>1, <4>1, <4>2, <4>3, <4>4, <4>5, <4>6, Zenon DEF AnswersInv,
                 Places
    <3>4. CASE /\ child \in childIds
               /\ createCallback(msg.id, {})
               /\ UNCHANGED <<pc, inLoop>>
      <4>1. mq' = Append(mq, Answer(msg.id)) /\ UNCHANGED callbacks
        BY <2>1, <3>4, SMTT(60) DEF createCallback
      <4>2. \A c \in Ids \ childIds' : listeners'[c] = listeners[c]
        BY <3>1, <3>2, <3>4
      <4> QED BY <2>0, <3>1, <3>2, <3>4, <4>1, <4>2, <1>AnswerInLoop, Zenon
    <3>5. CASE child \in childIds /\ Panic /\ UNCHANGED <<mq, callbacks>>
      <4>1. Waiting' = Waiting /\ Phases' /\ ~Alive'
        BY <2>2, <3>5, SMTT(60) DEF Waiting, Phases, Panic, Alive, TaskSteps
      <4> QED BY <3>1, <3>5, <4>1, Zenon DEF AnswersInv
    <3> QED BY <2>8, <3>3, <3>4, <3>5, Zenon DEF GetChildWorkflowExecution
  <2>9. CASE GetVersion
    BY <2>0, <2>9, <1>AnswerAndFlush, Zenon DEF GetVersion
  <2>10. CASE SideEffect
    <3>1. CASE flushQueue(Append(mq, Answer(msg.id)), Tail(pipeline), "pipeline", Tail(pipeline))
      BY <2>0, <2>10, <3>1, <1>AnswerAndFlush, Zenon DEF SideEffect
    <3>2. CASE /\ mq' = Append(mq, Answer(msg.id)) /\ pipeline' = Tail(pipeline)
               /\ UNCHANGED <<pc, inLoop, nextId, started, delivered>>
      <4>1. UNCHANGED <<callbacks, listeners, childIds, pending, starting>>
        BY <2>10, Zenon DEF SideEffect
      <4>2. /\ \A child \in Ids : listeners'[child] \in {listeners[child], msg.id}
            /\ \A child \in Ids \ childIds' : listeners'[child] = listeners[child]
            /\ \A child, other \in Ids :
                   listeners'[child] = msg.id /\ listeners'[other] = msg.id => child = other
        BY <2>1, <4>1, Zenon
      <4> QED BY <2>0, <3>2, <4>1, <4>2, <1>AnswerInLoop, ZenonT(60)
    <3> QED BY <2>10, <3>1, <3>2, Zenon DEF SideEffect
  <2>11. CASE CompleteWorkflow
    <3>1. /\ mq' = Append(mq, Answer(msg.id)) /\ pipeline' = Tail(pipeline)
          /\ UNCHANGED <<pc, inLoop, callbacks, pending, starting, nextId, delivered,
                         childIds, listeners>>
      BY <2>11, Zenon DEF CompleteWorkflow
    <3>2. /\ \A child \in Ids : listeners'[child] \in {listeners[child], msg.id}
          /\ \A child \in Ids \ childIds' : listeners'[child] = listeners[child]
          /\ \A child, other \in Ids :
                 listeners'[child] = msg.id /\ listeners'[other] = msg.id => child = other
      BY <2>1, <3>1, Zenon
    <3> QED BY <2>0, <3>1, <3>2, <1>AnswerInLoop, Zenon
  <2>12. CASE CancelNext
    <3> DEFINE id == Head(msg.ids)
               m == [msg EXCEPT !.ids = Tail(@)]
    <3>1. /\ pipeline' = <<m>> \o Tail(pipeline)
          /\ UNCHANGED <<pc, inLoop, listeners, childIds, starting, delivered, nextId>>
          /\ msg.ids # <<>>
      BY <2>12, Zenon DEF CancelNext
    <3>2. TypeOK /\ msg \in WorkerMessage(Ids) /\ msg.ids \in Seq(Ids)
          /\ pipeline \in Seq(WorkerMessage(Ids))
      BY <2>0, HandledMessage, TypeFacts, ZenonT(60) DEF AnswersInv
    <3>3. id \in Ids /\ Tail(msg.ids) \in Seq(Ids)
      BY <3>1, <3>2, OfHeadTail
    <3>4. m \in WorkerMessage(Ids) /\ m.id = Head(pipeline).id
      BY <3>2, <3>3, Zenon DEF WorkerMessage, msg
    <3> HIDE DEF id, m
    <3>5. DistinctIds(pipeline') /\ PipeIds(pipeline') = PipeIds(pipeline)
      BY <2>0, <2>1, <3>1, <3>2, <3>4, PipeHead, Zenon DEF Places
    <3>6. CASE UNCHANGED <<mq, callbacks, pending>>
      <4>1. Phases'
        BY <2>2, <3>1, <3>6, Zenon DEF Phases
      <4> QED BY <2>2, <3>1, <3>5, <3>6, <4>1, <1>PlacesUnchanged, Zenon
    <3>7. CASE /\ id \in canceller \cap pending
               /\ createCallback(id, {})
               /\ pending' = pending \ {id}
      <4>1. mq' = Append(mq, Answer(id)) /\ UNCHANGED callbacks
        BY <2>1, <3>7 DEF createCallback
      <4>2. mq \in Seq(HostMessage(Ids)) /\ id \notin Queued
        BY <2>1, <3>2, <3>7, TypeFacts, Zenon DEF Places, OnePlace
      <4>3. Queued' = Queued \cup {id} /\ Waiting' = Waiting /\ Distinct(mq')
        BY <2>1, <3>3, <4>1, <4>2, AnsweredInAppendAnswer, <1>DistinctAppendAnswer,
           ZenonT(60) DEF Queued, Waiting, Places
      <4> DEFINE Known == pending \cup Waiting \cup Queued \cup delivered
      <4>9. Known' = Known /\ pending' = pending \ {id} /\ id \in pending
        BY <3>1, <3>7, <4>3, ZenonT(60)
      <4>10. UNCHANGED <<listeners, childIds, starting, delivered, nextId>>
        BY <3>1
      <4>11. OnePlace /\ Unhandled /\ Numbered /\ Listening
        BY <2>1, ZenonT(60) DEF Places
      <4>4. OnePlace'
        BY <4>3, <4>9, <4>10, <4>11 DEF OnePlace
      <4>5. Unhandled'
        <5>1. PipeIds(pipeline) \cap (Known \cup starting \cup childIds) = {}
          BY <4>11, Zenon DEF Unhandled
        <5>2. (PipeIds(pipeline) \cap (Known \cup starting \cup childIds) = {})'
          BY <3>5, <4>9, <4>10, <5>1, Zenon
        <5>3. \A child \in Ids : listeners'[child] \notin PipeIds(pipeline')
          BY <3>5, <4>10, <4>11, Zenon DEF Unhandled
        <5> QED BY <5>2, <5>3 DEF Unhandled
      <4>6. Numbered'
        <5>1. \A i \in PipeIds(pipeline) \cup Known \cup starting \cup childIds : i < nextId
          BY <4>11, Zenon DEF Numbered
        <5>2. (\A i \in PipeIds(pipeline) \cup Known \cup starting \cup childIds : i < nextId)'
          BY <3>5, <4>9, <4>10, <5>1
        <5>3. \A child \in Ids : listeners'[child] < nextId'
          BY <4>10, <4>11 DEF Numbered
        <5> QED BY <5>2, <5>3 DEF Numbered
      <4>7. Listening'
        <5>1. \A child \in Ids \ childIds : listeners[child] \notin Known
          BY <4>11, Zenon DEF Listening
        <5>2. (\A child \in Ids \ childIds : listeners[child] \notin Known)'
          BY <4>9, <4>10, <5>1, Zenon
        <5>3. \A child, other \in Ids :
                 listeners'[child] = listeners'[other] /\ listeners'[child] # 0 => child = other
          BY <4>10, <4>11, Zenon DEF Listening
        <5> QED BY <5>2, <5>3, Zenon DEF Listening
      <4>8. Phases' /\ IsInjective(callbacks)' /\ (Waiting \cap delivered = {})'
        BY <2>0, <2>2, <3>1, <4>1, <4>3, Zenon DEF AnswersInv, Phases
      <4> QED BY <3>5, <4>3, <4>4, <4>5, <4>6, <4>7, <4>8, ZenonT(60) DEF AnswersInv, Places
    <3> QED BY <2>12, <3>6, <3>7, Zenon DEF CancelNext, id
  <2>13. CASE CancelDone
    BY <2>0, <2>13, <1>AnswerAndFlush, Zenon DEF CancelDone
  <2>14. CASE FailMessage
    <3>1. Phases' /\ ~Alive' /\ Waiting' = Waiting
      BY <2>2, <2>14, SMTT(60) DEF FailMessage, Panic, Phases, Alive, TaskSteps, Waiting
    <3> QED BY <2>14, <3>1, Zenon DEF FailMessage, AnswersInv
  <2> QED BY <2>3, <2>6, <2>7, <2>8, <2>9, <2>10, <2>11, <2>12, <2>13, <2>14, ZenonT(60)
       DEF HandleMessage

(***************************************************************************)
(* Every step keeps AnswersInv.                                            *)
(***************************************************************************)
<1>AnswersInvStep. AnswersInv /\ [Next]_vars => AnswersInv'
  <2> SUFFICES ASSUME AnswersInv, [Next]_vars PROVE AnswersInv'
    OBVIOUS
  <2> USE DEF process, sdk, history
  <2>0. TypeOK /\ TypeOK' /\ Phases
    BY TypeOKStep DEF AnswersInv
  <2>1. CASE UNCHANGED vars
    <3>1. Phases' /\ (Alive' => Alive)
      BY <2>0, <2>1, Zenon DEF vars, Phases, Alive
    <3> QED BY <2>0, <2>1, <3>1, <1>PlacesUnchanged, Zenon DEF vars, AnswersInv, Places
  <2>2. CASE Execute
    <3> USE <2>2 DEF Execute
    <3>1. Places
      BY DEF AnswersInv, Alive
    <3>2. Queued' = {} /\ Distinct(mq)' /\ Waiting' = Waiting
      <4>1. /\ <<>> \in Seq(HostMessage(Ids)) /\ Distinct(<<>>)
            /\ "StartWorkflow" \in HostCommands
        BY SMTT(60) DEF Distinct, HostCommands
      <4> QED BY <4>1, AnsweredInEmpty, AnsweredInAppendCommand, <1>DistinctAppendCommand,
                 Zenon
              DEF Queued, Waiting
    <3>3. \A child \in Ids : listeners'[child] = 0
      BY Zenon
    <3>4. 0 \notin Ids /\ PipeIds(pipeline) \subseteq Ids /\ nextId > 0
      <4>1. pipeline \in Seq(WorkerMessage(Ids)) /\ nextId \in 1 .. MaxId + 1
        BY <2>0, TypeFacts, Zenon
      <4>2. PipeIds(pipeline) \subseteq Ids
        BY <4>1, PipeIdsNat, Zenon
      <4>3. 0 \notin Ids /\ nextId > 0
        BY <4>1, BoundsAssumption, SMTT(60) DEF Ids
      <4> QED BY <4>2, <4>3, Zenon
    <3>5. OnePlace'
      BY <3>1, <3>2, Zenon DEF Places, OnePlace
    <3>6. Unhandled'
      BY <3>1, <3>2, <3>3, <3>4, Zenon DEF Places, Unhandled
    <3>7. Numbered'
      BY <3>1, <3>2, <3>3, <3>4, Zenon DEF Places, Numbered
    <3>8. \A id \in pending \cup Waiting \cup delivered : id # 0
      <4>1. \A i \in DOMAIN callbacks : callbacks[i] \in Ids
        BY <2>0, OfElement, TypeFacts
      <4>2. \A id \in Waiting : id \in Ids
        BY <4>1, Zenon DEF Waiting, Range
      <4> QED BY <2>0, <3>4, <4>2, TypeFacts, ZenonT(60)
    <3>9. Listening'
      BY <3>2, <3>3, <3>4, <3>8, Zenon DEF Listening
    <3>10. Phases' /\ IsInjective(callbacks)' /\ (Waiting \cap delivered = {})'
      BY <2>0, <3>2, Zenon DEF AnswersInv, Phases, TaskSteps
    <3> QED BY <2>0, <3>1, <3>2, <3>5, <3>6, <3>7, <3>9, <3>10, ZenonT(60) DEF AnswersInv,
               Places
  <2>3. CASE handleSignal
    BY <2>0, <2>3, <1>CommandQueued, ZenonT(60) DEF handleSignal, Running, HostCommands
  <2>4. CASE handleCancel
    BY <2>0, <2>4, <1>CommandQueued DEF handleCancel, Running, HostCommands
  <2>5. CASE \E u \in Updates : handleUpdate(u)
    <3>1. Phases' /\ (Alive' => Alive)
      BY <2>0, <2>5 DEF handleUpdate, Phases, Alive
    <3> QED BY <2>0, <2>5, <3>1, <1>PlacesUnchanged, Zenon DEF handleUpdate, AnswersInv,
               Places
  <2>6. ASSUME NEW id \in Ids, OperationDone(id) PROVE AnswersInv'
    <3> USE <2>6 DEF OperationDone, Running
    <3>1. inLoop = 0 /\ Places
      BY <2>0, TypeFacts, Zenon DEF Phases, TaskSteps, AnswersInv, Alive
    <3>2. callbacks' = Append(callbacks, id) /\ UNCHANGED mq
      BY <3>1, SMTT(60) DEF createCallback
    <3>3. /\ id \notin Waiting \cup Queued \cup delivered \cup PipeIds(pipeline)
          /\ id < nextId
      BY <3>1, Zenon DEF Places, OnePlace, Unhandled, Numbered
    <3>4. \A child \in Ids \ childIds' : listeners[child] # id
      BY <3>1, Zenon DEF Places, Listening
    <3>5. starting' \cap childIds' = {}
      BY <3>1, Zenon DEF Places, OnePlace
    <3> QED BY <2>0, <3>2, <3>3, <3>4, <3>5, <1>CallbackWaits, Zenon
  <2>7. ASSUME NEW child \in Ids, ChildStarted(child) PROVE AnswersInv'
    <3> USE <2>7 DEF ChildStarted, Running
    <3>1. inLoop = 0 /\ Places
      BY <2>0, TypeFacts, Zenon DEF Phases, TaskSteps, AnswersInv, Alive
    <3>2. /\ child \notin childIds
          /\ starting' \cap childIds' = {}
      BY <3>1, Zenon DEF Places, OnePlace
    <3>3. CASE listeners[child] = 0 /\ UNCHANGED <<pc, inLoop, mq, callbacks, canceller>>
      <4>1. Queued' = Queued /\ Waiting' = Waiting /\ Distinct(mq)'
        BY <3>1, <3>3 DEF Queued, Waiting, Places
      <4>2. OnePlace' /\ Listening'
        BY <3>1, <3>2, <4>1, Zenon DEF Places, OnePlace, Listening
      <4>3. Unhandled' /\ Numbered'
        BY <3>1, <4>1, ZenonT(60) DEF Places, Unhandled, Numbered
      <4>4. Phases' /\ IsInjective(callbacks)' /\ (Waiting \cap delivered = {})'
        BY <2>0, <3>3, <4>1, Zenon DEF AnswersInv, Phases
      <4> QED BY <2>0, <3>1, <4>1, <4>2, <4>3, <4>4, ZenonT(60) DEF AnswersInv, Places
    <3>4. CASE /\ listeners[child] # 0
               /\ createCallback(listeners[child], {})
               /\ UNCHANGED <<pc, inLoop>>
      <4> DEFINE id == listeners[child]
      <4>1. id \in Ids
        BY <2>0, <3>4, TypeFacts, Zenon
      <4>2. callbacks' = Append(callbacks, id) /\ UNCHANGED mq
        BY <3>1, <3>4, SMTT(60) DEF createCallback
      <4>3. id \notin pending \cup Waiting \cup Queued \cup delivered \cup PipeIds(pipeline)
        BY <3>1, <3>2, Zenon DEF Places, Listening, Unhandled
      <4>4. id < nextId
        BY <3>1, Zenon DEF Places, Numbered
      <4>5. \A c \in Ids \ childIds' : listeners[c] # id
        BY <3>1, <3>4, Zenon DEF Places, Listening
      <4> HIDE DEF id
      <4> QED BY <2>0, <3>2, <3>4, <4>1, <4>2, <4>3, <4>4, <4>5, <1>CallbackWaits,
                 ZenonT(60)
    <3>5. CASE Panic /\ UNCHANGED <<mq, callbacks, canceller>>
      <4>1. Phases' /\ ~Alive' /\ Waiting' = Waiting
        BY <2>0, <3>5, SMTT(60) DEF Panic, Phases, Alive, TaskSteps, Waiting
      <4> QED BY <2>0, <3>5, <4>1, Zenon DEF AnswersInv
    <3> QED BY <3>3, <3>4, <3>5, Zenon
  <2>8. CASE OnWorkflowTaskStarted
    <3> USE <2>8 DEF OnWorkflowTaskStarted, Running
    <3>1. mq \in Seq(HostMessage(Ids)) /\ callbacks \in Seq(Ids) /\ Places
      BY <2>0, TypeFacts, Zenon DEF AnswersInv, Alive
    <3>2. mq' = mq \o AnswersOf(callbacks)
      BY DEF AnswersOf
    <3>3. Queued' = Queued \cup Waiting
      BY <3>1, <3>2, AnswersOfProperties, Zenon DEF Queued, Waiting
    <3>8. Distinct(mq')
      <4>1. Range(callbacks) \cap AnsweredIn(mq) = {} /\ Distinct(mq) /\ IsInjective(callbacks)
        BY <3>1, Zenon DEF Queued, Waiting, Places, OnePlace, AnswersInv
      <4> QED BY <3>1, <3>2, <4>1, <1>DistinctAnswersOf, Zenon
    <3>4. Waiting' = {} /\ IsInjective(callbacks)'
      <4>1. callbacks' = <<>>
        BY ZenonT(60)
      <4>2. Range(<<>>) = {} /\ IsInjective(<<>>)
        BY DEF Range, IsInjective
      <4> QED BY <4>1, <4>2, Zenon DEF Waiting
    <3>5. OnePlace' /\ Listening'
      BY <3>1, <3>3, <3>4, Zenon DEF Places, OnePlace, Listening
    <3>6. Unhandled' /\ Numbered'
      BY <3>1, <3>3, <3>4, ZenonT(60) DEF Places, Unhandled, Numbered
    <3>7. Phases'
      BY DEF Phases, TaskSteps
    <3> QED BY <2>0, <3>1, <3>3, <3>4, <3>5, <3>6, <3>7, <3>8, ZenonT(60) DEF AnswersInv,
               Places
  <2>9. CASE FirstFlush
    <3> USE <2>9 DEF FirstFlush
    <3>1. Places /\ pc \in TaskSteps /\ "updates" \in TaskSteps
      BY Zenon DEF AnswersInv, Alive, TaskSteps
    <3>2. mq \in Seq(HostMessage(Ids)) /\ pipeline \in Seq(WorkerMessage(Ids))
      BY <2>0, TypeFacts
    <3>3. AnsweredIn(mq) = Queued \cup {} /\ DistinctIds(pipeline)
      BY <3>1, Zenon DEF Queued, Places
    <3>4. {} \in SUBSET Ids
      BY Zenon
    <3> QED BY <2>0, <3>1, <3>2, <3>3, <3>4, <1>FlushKeepsPlaces, Zenon
  <2>10. CASE HandleQueuedUpdates \/ handleQuery \/ StackTrace
    <3>1. /\ pc \in {"idle", "updates"}
          /\ UNCHANGED <<pc, inLoop, mq, callbacks, pipeline, pending, starting,
                         childIds, listeners, delivered>>
      BY <2>10 DEF HandleQueuedUpdates, handleQuery, StackTrace
    <3>2. Phases' /\ Alive /\ Alive'
      BY <2>0, <3>1, ZenonT(60) DEF Phases, Alive
    <3>3. nextId' >= nextId
      <4>1. CASE runCommand
        BY <2>0, <4>1, RunCommandTypes, Zenon
      <4>2. CASE nextId' = nextId
        BY <2>0, <4>2, BoundsAssumption, TypeFacts, SMTT(60)
      <4> QED BY <2>10, <4>1, <4>2 DEF HandleQueuedUpdates, handleQuery, StackTrace
    <3> QED BY <2>0, <3>1, <3>2, <3>3, <1>PlacesAside, ZenonT(60)
  <2>15. CASE UpdatesHandled
    <3>1. Phases' /\ (Alive' => Alive)
      BY <2>0, <2>15 DEF UpdatesHandled, Phases, Alive, TaskSteps
    <3> QED BY <2>0, <2>15, <3>1, <1>PlacesUnchanged, ZenonT(60) DEF UpdatesHandled,
               AnswersInv, Places
  <2>11. CASE HandleMessage
    BY <2>0, <2>11, <1>HandleMessageStep, Zenon
  <2>12. CASE TaskDone
    <3>1. Phases' /\ (Alive' => Alive)
      BY <2>0, <2>12, SMTT(60) DEF TaskDone, Phases, Alive, TaskSteps
    <3> QED BY <2>0, <2>12, <3>1, <1>PlacesUnchanged, Zenon DEF TaskDone, AnswersInv,
               Places
  <2>13. CASE Close
    <3>1. Phases' /\ ~Alive' /\ Waiting' = Waiting
      BY <2>0, <2>13 DEF Close, Phases, Alive, TaskSteps, Waiting
    <3> QED BY <2>0, <2>13, <3>1, ZenonT(60) DEF Close, AnswersInv
  <2>14. CASE Closed
    BY <2>1, <2>14 DEF Closed
  <2> QED BY <2>1, <2>2, <2>3, <2>4, <2>5, <2>6, <2>7, <2>8, <2>9, <2>10, <2>11, ZenonT(60),
             <2>12, <2>13, <2>14, <2>15 DEF Next, TaskStep

<1>1. Init => AnswersInv
  <2> SUFFICES ASSUME Init PROVE AnswersInv
    OBVIOUS
  <2>1. TypeOK
    BY InitTypeOK, Zenon
  <2>2. Queued = {} /\ Waiting = {} /\ PipeIds(pipeline) = {}
    BY AnsweredInEmpty, SMTT(60) DEF Init, Queued, Waiting, Range, PipeIds
  <2>3. Distinct(mq) /\ DistinctIds(pipeline) /\ IsInjective(callbacks)
    BY SMTT(60) DEF Init, Distinct, DistinctIds, IsInjective
  <2>4. OnePlace /\ Unhandled /\ Numbered /\ Listening
    BY <2>2, SMTT(60) DEF Init, OnePlace, Unhandled, Numbered, Listening
  <2>5. Phases
    BY DEF Init, Phases, TaskSteps
  <2> QED BY <2>1, <2>2, <2>3, <2>4, <2>5 DEF AnswersInv, Places
<1>2. AnswersInv => AnsweredAtMostOnce
  <2> SUFFICES ASSUME AnswersInv PROVE AnsweredAtMostOnce
    OBVIOUS
  <2>1. CASE Alive
    BY <2>1 DEF AnswersInv, Places, Distinct, OnePlace, AnsweredAtMostOnce
  <2>2. CASE pc = "closed"
    BY <2>2, AnsweredInEmpty DEF AnswersInv, Phases, Queued, AnsweredAtMostOnce
  <2>3. CASE pc = "panicked"
    BY <2>3 DEF AnswersInv, AnsweredAtMostOnce
  <2> QED BY <2>1, <2>2, <2>3, Zenon DEF Alive
<1> QED BY <1>1, <1>2, <1>AnswersInvStep, PTL DEF Spec
=============================================================================

------------------------------ MODULE Workflow ------------------------------
(***************************************************************************)
(* One workflow run: the Workflow object of aggregatedpool/workflow.go and *)
(* handler.go with its message queue (queue/queue.go), canceller           *)
(* (canceller/canceller.go) and child registry (registry/registry.go).     *)
(*                                                                         *)
(* The Temporal SDK (external) owns the run: it calls Execute once, then   *)
(* the signal, cancel and update handlers and the result callbacks as      *)
(* history events arrive, OnWorkflowTaskStarted once per workflow task,    *)
(* and Close when it evicts the run.  It makes these calls one at a time,  *)
(* but may call a result callback from inside a call the loop makes to it. *)
(* The PHP worker (external) answers every flushed queue with any sequence *)
(* of commands.                                                            *)
(*                                                                         *)
(* A workflow task is a sequence of steps told apart by pc: the callbacks  *)
(* of the finished operations, the flush, the updates, then one step per   *)
(* message of the pipeline.  A Go panic ends the task and the run; the SDK *)
(* then evicts it.                                                         *)
(***************************************************************************)
EXTENDS Protocol, FiniteSets

CONSTANTS
    Repertoire,   \* the messages the worker may send
    Updates,      \* the update requests that may arrive
    UpdateName,   \* the name of the handler each of them is for
    MaxId,        \* bound: commands the worker sends in its life
    MaxBatch,     \* bound: messages in one frame of the worker
    MaxCancel,    \* bound: commands one Cancel names
    MaxAside,     \* bound: commands in the replies to single commands
    MaxQueue      \* bound: signals and cancels queued for a task

ASSUME RepertoireAssumption == Repertoire \subseteq Decodable \cup {NoCommand}
ASSUME BoundsAssumption ==
    /\ MaxId \in Nat
    /\ MaxBatch \in Nat
    /\ MaxCancel \in Nat
    /\ MaxAside \in Nat
    /\ MaxQueue \in Nat
ASSUME UpdatesAssumption == UpdateName \in [Updates -> STRING]

VARIABLES
    pc,            \* where the run is
    inLoop,        \* Workflow.inLoop
    mq,            \* Workflow.mq
    callbacks,     \* Workflow.callbacks: the ids they answer
    pipeline,      \* Workflow.pipeline
    canceller,     \* Workflow.canceller: the registered ids
    listeners,     \* IDRegistry.listeners: child id -> listening id, 0 if none
    childIds,      \* IDRegistry.ids: the children whose start was reported
    updatesQueue,  \* Workflow.updatesQueue
    pending,       \* SDK: operations whose callback has not been called
    starting,      \* SDK: children whose start has not been reported
    buffered,      \* SDK: update callbacks queued with QueueUpdate
    completed,     \* SDK: env.Complete was called
    nextId,        \* worker: identifier of its next command
    started,       \* history: the worker was sent StartWorkflow
    delivered,     \* history: ids whose answer was sent to the worker
    owed,          \* history: ids handled by a case that is to answer them
    early,         \* history: ids answered in the loop and left unflushed
    calls,         \* history: UpdateCallbacks made for each update
    handled,       \* history: ids taken off the pipeline by the loop
    aside          \* history: ids that came in a reply to a single command

process == <<inLoop, mq, callbacks, pipeline, canceller, listeners,
             childIds, updatesQueue>>
sdk     == <<pending, starting, buffered, completed>>
history == <<started, delivered, owed, early, calls, handled, aside>>
vars    == <<pc, process, sdk, nextId, history>>

Ids == 1 .. MaxId
Names == {UpdateName[u] : u \in Updates}
TaskSteps == {"flush", "updates", "pipeline"}

TypeOK ==
    /\ pc \in {"new", "idle", "panicked", "closed"} \cup TaskSteps
    /\ inLoop \in {0, 1}
    /\ mq \in Seq(HostMessage(Ids))
    /\ callbacks \in Seq(Ids)
    /\ pipeline \in Seq(WorkerMessage(Ids))
    /\ canceller \subseteq Ids
    /\ listeners \in [Ids -> Ids \cup {0}]
    /\ childIds \subseteq Ids
    /\ updatesQueue \in Seq(Names)
    /\ pending \subseteq Ids
    /\ starting \subseteq Ids
    /\ buffered \subseteq Updates
    /\ completed \in BOOLEAN
    /\ nextId \in 1 .. MaxId + 1
    /\ started \in BOOLEAN
    /\ delivered \subseteq Ids
    /\ owed \subseteq Ids
    /\ early \subseteq Ids
    /\ calls \in [Updates -> Seq({"Reject", "Accept", "Complete"})]
    /\ handled \subseteq Ids
    /\ aside \subseteq Ids

Init ==
    /\ pc = "new"
    /\ inLoop = 0
    /\ mq = <<>>
    /\ callbacks = <<>>
    /\ pipeline = <<>>
    /\ canceller = {}
    /\ listeners = [i \in Ids |-> 0]
    /\ childIds = {}
    /\ updatesQueue = <<>>
    /\ pending = {}
    /\ starting = {}
    /\ buffered = {}
    /\ completed = FALSE
    /\ nextId = 1
    /\ started = FALSE
    /\ delivered = {}
    /\ owed = {}
    /\ early = {}
    /\ calls = [u \in Updates |-> <<>>]
    /\ handled = {}
    /\ aside = {}

-----------------------------------------------------------------------------
(***************************************************************************)
(* Helpers shared by the actions.                                          *)
(***************************************************************************)

(* Mutant: answers the identifier after the one it was made for. *)
CallbackOffByOne(id, registered) ==
    /\ callbacks' = Append(callbacks, id + 1)
    /\ canceller' = canceller \cup registered
    /\ UNCHANGED mq

(* Mutant: having answered in the loop, it does not return. *)
CallbackTwice(id, registered) ==
    /\ mq' = IF inLoop = 1 THEN Append(mq, Answer(id)) ELSE mq
    /\ callbacks' = Append(callbacks, id)
    /\ canceller' = (canceller \ {id}) \cup registered

(***************************************************************************)
(* The handler createCallback returns, called by the SDK with a result: in *)
(* the loop it answers at once, otherwise it waits for the next task.      *)
(* registered is what the canceller registers after the call returns.      *)
(***************************************************************************)
createCallback(id, registered) ==
    \/ /\ inLoop = 1
       /\ mq' = Append(mq, Answer(id))
       /\ canceller' = (canceller \ {id}) \cup registered
       /\ UNCHANGED callbacks
    \/ /\ inLoop = 0
       /\ callbacks' = Append(callbacks, id)
       /\ canceller' = canceller \cup registered
       /\ UNCHANGED mq

(***************************************************************************)
(* A Go panic: the deferred reset of inLoop, and no further step.          *)
(***************************************************************************)
Panic ==
    /\ pc' = "panicked"
    /\ inLoop' = 0

(***************************************************************************)
(* On sequences: the elements of one, that none occurs twice in it, and    *)
(* the sequences of at most n elements of a set.                           *)
(***************************************************************************)
Range(s) == {s[i] : i \in DOMAIN s}

IsInjective(s) == \A i, j \in DOMAIN s : s[i] = s[j] => i = j

UpTo(S, n) == UNION {[1 .. m -> S] : m \in 0 .. n}

(***************************************************************************)
(* The frames the worker may reply with: it numbers its messages in the    *)
(* order it sends them and refers only to commands it sent before.  The    *)
(* empty frame stands also for an empty body, which Decode accepts.        *)
(***************************************************************************)
References(cmd) ==
    CASE cmd = "Cancel" -> UpTo(Ids, MaxCancel)
      [] cmd = "GetChildWorkflowExecution" -> {<<i>> : i \in Ids}
      [] OTHER -> {<<>>}

Bodies ==
    UNION {{[cmd |-> c, ids |-> r] : r \in References(c)} : c \in Repertoire}

RefersBack(bodies) ==
    \A i \in DOMAIN bodies :
        \A id \in Range(bodies[i].ids) : id < nextId + i - 1

Room ==
    IF MaxId + 1 - nextId < MaxBatch THEN MaxId + 1 - nextId ELSE MaxBatch

Frame(bodies) ==
    [i \in DOMAIN bodies |->
        [id |-> nextId + i - 1, cmd |-> bodies[i].cmd, ids |-> bodies[i].ids]]

(***************************************************************************)
(* The worker has received a queue.                                        *)
(***************************************************************************)
Receive(queue) ==
    /\ delivered' = delivered \cup AnsweredIn(queue)
    /\ started' = (started \/ \E i \in DOMAIN queue : queue[i].cmd = "StartWorkflow")

(* Mutant: the reply replaces what the pipeline still holds. *)
FlushReplaces(queue, rest, next, kept) ==
    /\ IF queue = <<>>
       THEN pipeline' = rest /\ UNCHANGED <<nextId, delivered, started>>
       ELSE /\ \E bodies \in UpTo(Bodies, Room) :
                  /\ RefersBack(bodies)
                  /\ pipeline' = Frame(bodies)
                  /\ nextId' = nextId + Len(bodies)
            /\ Receive(queue)
    /\ mq' = <<>>
    /\ pc' = next
    /\ UNCHANGED inLoop

(* Mutant: the reply is put in front of what the pipeline still holds. *)
FlushInFront(queue, rest, next, kept) ==
    /\ IF queue = <<>>
       THEN pipeline' = rest /\ UNCHANGED <<nextId, delivered, started>>
       ELSE /\ \E bodies \in UpTo(Bodies, Room) :
                  /\ RefersBack(bodies)
                  /\ pipeline' = Frame(bodies) \o rest
                  /\ nextId' = nextId + Len(bodies)
            /\ Receive(queue)
    /\ mq' = <<>>
    /\ pc' = next
    /\ UNCHANGED inLoop

(***************************************************************************)
(* flushQueue, called with this queue while rest is what the pipeline      *)
(* still holds.  An empty queue is not sent.  A failed exchange (encoding, *)
(* execution, an error or stream frame, no frame, or a frame that does not *)
(* decode) leaves the queue as it is, whether or not the worker got it,    *)
(* and makes the caller panic with the pipeline cut down to kept.          *)
(***************************************************************************)
flushQueue(queue, rest, next, kept) ==
    \/ /\ queue = <<>>
       /\ mq' = queue
       /\ pipeline' = rest
       /\ pc' = next
       /\ UNCHANGED <<inLoop, nextId, delivered, started>>
    \/ /\ queue # <<>>
       /\ \E bodies \in UpTo(Bodies, Room) :
             /\ RefersBack(bodies)
             /\ pipeline' = rest \o Frame(bodies)
             /\ nextId' = nextId + Len(bodies)
       /\ Receive(queue)
       /\ mq' = <<>>
       /\ pc' = next
       /\ UNCHANGED inLoop
    \/ /\ queue # <<>>
       /\ Receive(queue) \/ UNCHANGED <<delivered, started>>
       /\ mq' = queue
       /\ pipeline' = kept
       /\ Panic
       /\ UNCHANGED nextId

(***************************************************************************)
(* runCommand: one command is sent past the queue and its reply is         *)
(* awaited.  The reply never joins the pipeline: a frame of other than one *)
(* message is an error, and a single message is taken for the answer       *)
(* whatever it is.  Commands in it are numbered by the worker all the same.*)
(***************************************************************************)
runCommand ==
    \E n \in 0 .. MaxId + 1 - nextId :
        /\ Cardinality(aside) + n <= MaxAside
        /\ nextId' = nextId + n
        /\ aside' = aside \cup (nextId .. nextId + n - 1)

(***************************************************************************)
(* The callback handleUpdate queues: validation, unless replaying, may     *)
(* reject the update; otherwise it is accepted and its execution, whatever *)
(* becomes of it, completes it.                                            *)
(***************************************************************************)
UpdateOutcomes == {<<"Reject">>, <<"Accept", "Complete">>}

RunUpdates(us) ==
    /\ buffered' = buffered \ us
    /\ \E outcome \in [us -> UpdateOutcomes] :
          calls' = [u \in Updates |->
                       IF u \in us THEN calls[u] \o outcome[u] ELSE calls[u]]

-----------------------------------------------------------------------------

(***************************************************************************)
(* Calls of the SDK between workflow tasks.                                *)
(***************************************************************************)
Execute ==
    /\ pc = "new"
    /\ pc' = "idle"
    /\ mq' = Append(<<>>, Command("StartWorkflow"))
    /\ canceller' = {}
    /\ listeners' = [i \in Ids |-> 0]
    /\ childIds' = {}
    /\ updatesQueue' = <<>>
    /\ UNCHANGED <<inLoop, callbacks, pipeline, sdk, nextId, history>>

Running == pc = "idle" /\ ~completed

(* Mutant: a signal overtakes what is queued. *)
SignalInFront ==
    /\ Running
    /\ Len(mq) < MaxQueue
    /\ mq' = <<Command("InvokeSignal")>> \o mq
    /\ UNCHANGED <<pc, inLoop, callbacks, pipeline, canceller, listeners,
                   childIds, updatesQueue, sdk, nextId, history>>

handleSignal ==
    /\ Running
    /\ Len(mq) < MaxQueue
    /\ mq' = Append(mq, Command("InvokeSignal"))
    /\ UNCHANGED <<pc, inLoop, callbacks, pipeline, canceller, listeners,
                   childIds, updatesQueue, sdk, nextId, history>>

handleCancel ==
    /\ Running
    /\ Len(mq) < MaxQueue
    /\ mq' = Append(mq, Command("CancelWorkflow"))
    /\ UNCHANGED <<pc, inLoop, callbacks, pipeline, canceller, listeners,
                   childIds, updatesQueue, sdk, nextId, history>>

(* Mutant: a name is queued only when the queue is empty. *)
UpdateNameOnce(u) ==
    /\ Running
    /\ u \notin buffered
    /\ calls[u] = <<>>
    /\ updatesQueue' = IF updatesQueue = <<>> THEN <<UpdateName[u]>> ELSE updatesQueue
    /\ buffered' = buffered \cup {u}
    /\ UNCHANGED <<pc, inLoop, mq, callbacks, pipeline, canceller, listeners,
                   childIds, pending, starting, completed, nextId, history>>

handleUpdate(u) ==
    /\ Running
    /\ u \notin buffered
    /\ calls[u] = <<>>
    /\ updatesQueue' = Append(updatesQueue, UpdateName[u])
    /\ buffered' = buffered \cup {u}
    /\ UNCHANGED <<pc, inLoop, mq, callbacks, pipeline, canceller, listeners,
                   childIds, pending, starting, completed, nextId, history>>

(***************************************************************************)
(* An activity, local activity, timer, child workflow or external request  *)
(* has a result: the SDK calls the callback it was given.                  *)
(***************************************************************************)
OperationDone(id) ==
    /\ Running
    /\ id \in pending
    /\ pending' = pending \ {id}
    /\ createCallback(id, {})
    /\ UNCHANGED <<pc, inLoop, pipeline, listeners, childIds, updatesQueue,
                   starting, buffered, completed, nextId, history>>

(***************************************************************************)
(* A child workflow started, or failed to: IDRegistry.Push, which calls    *)
(* the listener if there is one.  Its conversion of the execution to a     *)
(* payload may panic.                                                      *)
(***************************************************************************)
ChildStarted(child) ==
    /\ Running
    /\ child \in starting
    /\ starting' = starting \ {child}
    /\ childIds' = childIds \cup {child}
    /\ \/ /\ listeners[child] = 0
          /\ UNCHANGED <<pc, inLoop, mq, callbacks, canceller>>
       \/ /\ listeners[child] # 0
          /\ createCallback(listeners[child], {})
          /\ UNCHANGED <<pc, inLoop>>
       \/ /\ listeners[child] # 0
          /\ Panic
          /\ UNCHANGED <<mq, callbacks, canceller>>
    /\ UNCHANGED <<pipeline, listeners, updatesQueue, pending, buffered,
                   completed, nextId, history>>

(* Mutant: updates still buffered are not drained. *)
CloseWithoutDrain ==
    /\ pc \in {"idle", "panicked"}
    /\ pc' = "closed"
    /\ mq' = <<>>
    /\ UNCHANGED <<inLoop, callbacks, pipeline, canceller, listeners, childIds,
                   updatesQueue, sdk, nextId, history>>

(***************************************************************************)
(* The SDK evicts a run that is between tasks, completed or panicked: the  *)
(* buffered updates are run and the worker is told to destroy the run,     *)
(* whatever comes of it.                                                   *)
(***************************************************************************)
Close ==
    /\ pc \in {"idle", "panicked"}
    /\ pc' = "closed"
    /\ RunUpdates(buffered)
    /\ runCommand
    /\ mq' = <<>>
    /\ UNCHANGED <<inLoop, callbacks, pipeline, canceller, listeners, childIds,
                   updatesQueue, pending, starting, completed,
                   started, delivered, owed, early, handled>>

(***************************************************************************)
(* A query, or a request for the stack trace, of a run that has had its    *)
(* first task, between two tasks.                                          *)
(***************************************************************************)
handleQuery ==
    /\ pc = "idle"
    /\ started
    /\ runCommand
    /\ UNCHANGED <<pc, process, sdk, started, delivered, owed, early, calls,
                   handled>>

StackTrace ==
    /\ pc = "idle"
    /\ started
    /\ runCommand
    /\ UNCHANGED <<pc, process, sdk, started, delivered, owed, early, calls,
                   handled>>

-----------------------------------------------------------------------------
(***************************************************************************)
(* The steps of OnWorkflowTaskStarted.                                     *)
(***************************************************************************)

(* Mutant: the callbacks do not discard their cancellation. *)
CallbacksKeepCancellation ==
    /\ Running
    /\ pc' = "flush"
    /\ inLoop' = 1
    /\ mq' = mq \o [i \in DOMAIN callbacks |-> Answer(callbacks[i])]
    /\ callbacks' = <<>>
    /\ UNCHANGED <<pipeline, canceller, listeners, childIds, updatesQueue, sdk,
                   nextId, history>>

(* Mutant: the callbacks are cleared before they have run. *)
CallbacksCleared ==
    /\ Running
    /\ pc' = "flush"
    /\ inLoop' = 1
    /\ callbacks' = <<>>
    /\ UNCHANGED <<mq, pipeline, canceller, listeners, childIds, updatesQueue,
                   sdk, nextId, history>>

(***************************************************************************)
(* The loop flag is set and the waiting callbacks answer, in order.        *)
(***************************************************************************)
OnWorkflowTaskStarted ==
    /\ Running
    /\ pc' = "flush"
    /\ inLoop' = 1
    /\ mq' = mq \o [i \in DOMAIN callbacks |-> Answer(callbacks[i])]
    /\ canceller' = canceller \ Range(callbacks)
    /\ callbacks' = <<>>
    /\ UNCHANGED <<pipeline, listeners, childIds, updatesQueue, sdk, nextId,
                   history>>

FirstFlush ==
    /\ pc = "flush"
    /\ flushQueue(mq, pipeline, "updates", pipeline)
    /\ UNCHANGED <<callbacks, canceller, listeners, childIds, updatesQueue,
                   sdk, owed, early, calls, handled, aside>>

(* Mutant: the index over updatesQueue is not advanced. *)
UpdatesNotAdvanced ==
    /\ pc = "updates"
    /\ updatesQueue # <<>>
    /\ RunUpdates({u \in buffered : UpdateName[u] = Head(updatesQueue)})
    /\ UNCHANGED <<pc, process, pending, starting, completed, nextId,
                   started, delivered, owed, early, handled, aside>>

(***************************************************************************)
(* One iteration over updatesQueue: the SDK runs every update callback     *)
(* buffered under the name.                                                *)
(***************************************************************************)
HandleQueuedUpdates ==
    /\ pc = "updates"
    /\ updatesQueue # <<>>
    /\ LET us == {u \in buffered : UpdateName[u] = Head(updatesQueue)} IN
       /\ RunUpdates(us)
       /\ \/ us # {} /\ runCommand
          \/ us = {} /\ UNCHANGED <<nextId, aside>>
    /\ updatesQueue' = Tail(updatesQueue)
    /\ UNCHANGED <<pc, inLoop, mq, callbacks, pipeline, canceller, listeners,
                   childIds, pending, starting, completed,
                   started, delivered, owed, early, handled>>

(* Mutant: the pipeline is cleared before its messages are handled. *)
PipelineCleared ==
    /\ pc = "updates"
    /\ updatesQueue = <<>>
    /\ pc' = "pipeline"
    /\ pipeline' = <<>>
    /\ UNCHANGED <<inLoop, mq, callbacks, canceller, listeners, childIds,
                   updatesQueue, sdk, nextId, history>>

UpdatesHandled ==
    /\ pc = "updates"
    /\ updatesQueue = <<>>
    /\ pc' = "pipeline"
    /\ UNCHANGED <<process, sdk, nextId, history>>

TaskDone ==
    /\ pc = "pipeline"
    /\ pipeline = <<>>
    /\ pc' = "idle"
    /\ inLoop' = 0
    /\ UNCHANGED <<mq, callbacks, pipeline, canceller, listeners, childIds,
                   updatesQueue, sdk, nextId, history>>

-----------------------------------------------------------------------------
(***************************************************************************)
(* The message at the head of the pipeline: one action per group of cases  *)
(* of handleMessage.                                                       *)
(***************************************************************************)
Handling(cmds) ==
    /\ pc = "pipeline"
    /\ pipeline # <<>>
    /\ Head(pipeline).cmd \in cmds

msg == Head(pipeline)

(***************************************************************************)
(* A response of the worker to a command of the host is not looked at, and *)
(* a Panic that carries no failure is converted to no error.               *)
(***************************************************************************)
SkipResponse ==
    /\ Handling({NoCommand, "Panic"})
    /\ pipeline' = Tail(pipeline)
    /\ handled' = handled \cup {msg.id}
    /\ UNCHANGED <<pc, inLoop, mq, callbacks, canceller, listeners, childIds,
                   updatesQueue, sdk, nextId, started, delivered, owed, early,
                   calls, aside>>

(***************************************************************************)
(* The SDK takes the operation, or calls its callback before the call that *)
(* starts it returns (a timer that is already due, a request it refuses).  *)
(* Cancellation is registered after the call in both cases.                *)
(***************************************************************************)
OperationTaken(registered) ==
    /\ pending' = pending \cup {msg.id}
    /\ canceller' = canceller \cup registered
    /\ UNCHANGED <<mq, callbacks, early>>

OperationCalledBack(registered) ==
    /\ createCallback(msg.id, registered)
    /\ early' = early \cup {msg.id}
    /\ UNCHANGED pending

ExecuteOperation ==
    /\ Handling(Cancellable \cup External)
    /\ LET registered == IF msg.cmd \in Cancellable THEN {msg.id} ELSE {} IN
       OperationTaken(registered) \/ OperationCalledBack(registered)
    /\ owed' = owed \cup {msg.id}
    /\ pipeline' = Tail(pipeline)
    /\ handled' = handled \cup {msg.id}
    /\ UNCHANGED <<pc, inLoop, listeners, childIds, updatesQueue, starting,
                   buffered, completed, nextId, started, delivered, calls, aside>>

(***************************************************************************)
(* A child that is taken reports its start later; one that is refused may  *)
(* report it within the call.                                              *)
(***************************************************************************)
ExecuteChildWorkflow ==
    /\ Handling({"ExecuteChildWorkflow"})
    /\ \/ /\ OperationTaken({msg.id})
          /\ starting' = starting \cup {msg.id}
          /\ UNCHANGED childIds
       \/ /\ OperationCalledBack({msg.id})
          /\ childIds' \in {childIds, childIds \cup {msg.id}}
          /\ UNCHANGED starting
    /\ owed' = owed \cup {msg.id}
    /\ pipeline' = Tail(pipeline)
    /\ handled' = handled \cup {msg.id}
    /\ UNCHANGED <<pc, inLoop, listeners, updatesQueue, buffered, completed,
                   nextId, started, delivered, calls, aside>>

(* Mutant: Listen stores the listener and does not look for the child. *)
ListenOnlyStores ==
    /\ Handling({"GetChildWorkflowExecution"})
    /\ listeners' = [listeners EXCEPT ![Head(msg.ids)] = msg.id]
    /\ pipeline' = Tail(pipeline)
    /\ handled' = handled \cup {msg.id}
    /\ UNCHANGED <<pc, inLoop, mq, callbacks, canceller, childIds,
                   updatesQueue, sdk, nextId, started, delivered, owed, early,
                   calls, aside>>

(***************************************************************************)
(* IDRegistry.Listen: the listener is stored, replacing any other, and     *)
(* called at once when the start was already reported.                     *)
(***************************************************************************)
GetChildWorkflowExecution ==
    /\ Handling({"GetChildWorkflowExecution"})
    /\ LET child == Head(msg.ids) IN
       /\ listeners' = [listeners EXCEPT ![child] = msg.id]
       /\ \/ /\ child \notin childIds
             /\ UNCHANGED <<pc, inLoop, mq, callbacks, canceller, early>>
          \/ /\ child \in childIds
             /\ createCallback(msg.id, {})
             /\ early' = early \cup {msg.id}
             /\ UNCHANGED <<pc, inLoop>>
          \/ /\ child \in childIds
             /\ Panic
             /\ UNCHANGED <<mq, callbacks, canceller, early>>
    /\ pipeline' = Tail(pipeline)
    /\ handled' = handled \cup {msg.id}
    /\ UNCHANGED <<childIds, updatesQueue, sdk, nextId, started, delivered,
                   owed, calls, aside>>

GetVersion ==
    /\ Handling({"GetVersion"})
    /\ flushQueue(Append(mq, Answer(msg.id)), Tail(pipeline), "pipeline", <<>>)
    /\ owed' = owed \cup {msg.id}
    /\ handled' = handled \cup {msg.id}
    /\ UNCHANGED <<callbacks, canceller, listeners, childIds, updatesQueue,
                   sdk, early, calls, aside>>

(***************************************************************************)
(* createContinuableCallback: an error is queued, a result is flushed.     *)
(***************************************************************************)
SideEffect ==
    /\ Handling({"SideEffect"})
    /\ \/ /\ mq' = Append(mq, Answer(msg.id))
          /\ pipeline' = Tail(pipeline)
          /\ early' = early \cup {msg.id}
          /\ UNCHANGED <<pc, inLoop, nextId, started, delivered>>
       \/ /\ flushQueue(Append(mq, Answer(msg.id)), Tail(pipeline),
                        "pipeline", Tail(pipeline))
          /\ UNCHANGED early
    /\ canceller' = canceller \ {msg.id}
    /\ owed' = owed \cup {msg.id}
    /\ handled' = handled \cup {msg.id}
    /\ UNCHANGED <<callbacks, listeners, childIds, updatesQueue, sdk, calls,
                   aside>>

CompleteWorkflow ==
    /\ Handling(Completing)
    /\ mq' = Append(mq, Answer(msg.id))
    /\ completed' = TRUE
    /\ owed' = owed \cup {msg.id}
    /\ early' = early \cup {msg.id}
    /\ pipeline' = Tail(pipeline)
    /\ handled' = handled \cup {msg.id}
    /\ UNCHANGED <<pc, inLoop, callbacks, canceller, listeners, childIds,
                   updatesQueue, pending, starting, buffered, nextId,
                   started, delivered, calls, aside>>

(***************************************************************************)
(* Sent without expecting an answer.                                       *)
(***************************************************************************)
UpsertWorkflowSearchAttributes ==
    /\ Handling({"UpsertWorkflowSearchAttributes"})
    /\ pipeline' = Tail(pipeline)
    /\ handled' = handled \cup {msg.id}
    /\ UNCHANGED <<pc, inLoop, mq, callbacks, canceller, listeners, childIds,
                   updatesQueue, sdk, nextId, started, delivered, owed, early,
                   calls, aside>>

(***************************************************************************)
(* Canceller.Cancel, one iteration: an id that is not registered is        *)
(* skipped; otherwise it is removed and the SDK is asked to cancel the     *)
(* operation, which may call its callback within the request.              *)
(***************************************************************************)
CancelNext ==
    /\ Handling({"Cancel"})
    /\ msg.ids # <<>>
    /\ LET id == Head(msg.ids) IN
       \/ /\ canceller' = canceller \ {id}
          /\ UNCHANGED <<mq, callbacks, pending>>
       \/ /\ id \in canceller \cap pending
          /\ createCallback(id, {})
          /\ pending' = pending \ {id}
    /\ pipeline' = <<[msg EXCEPT !.ids = Tail(@)]>> \o Tail(pipeline)
    /\ UNCHANGED <<pc, inLoop, listeners, childIds, updatesQueue, starting,
                   buffered, completed, nextId, history>>

(* Mutant: the answer to Cancel is queued and not flushed. *)
CancelUnflushed ==
    /\ Handling({"Cancel"})
    /\ msg.ids = <<>>
    /\ mq' = Append(mq, Answer(msg.id))
    /\ pipeline' = Tail(pipeline)
    /\ owed' = owed \cup {msg.id}
    /\ handled' = handled \cup {msg.id}
    /\ UNCHANGED <<pc, inLoop, callbacks, canceller, listeners, childIds,
                   updatesQueue, sdk, nextId, started, delivered, early, calls,
                   aside>>

CancelDone ==
    /\ Handling({"Cancel"})
    /\ msg.ids = <<>>
    /\ flushQueue(Append(mq, Answer(msg.id)), Tail(pipeline), "pipeline", <<>>)
    /\ owed' = owed \cup {msg.id}
    /\ handled' = handled \cup {msg.id}
    /\ UNCHANGED <<callbacks, canceller, listeners, childIds, updatesQueue,
                   sdk, early, calls, aside>>

(***************************************************************************)
(* Messages whose handling fails, always or because the SDK refuses: the   *)
(* pipeline is dropped and the loop panics.                                *)
(***************************************************************************)
FailMessage ==
    /\ Handling({"UndefinedResponse", "Panic", "GetVersion",
                 "UpsertWorkflowSearchAttributes"} \cup HostCommands)
    /\ Panic
    /\ pipeline' = <<>>
    /\ handled' = handled \cup {msg.id}
    /\ UNCHANGED <<mq, callbacks, canceller, listeners, childIds, updatesQueue,
                   sdk, nextId, started, delivered, owed, early, calls, aside>>

HandleMessage ==
    \/ SkipResponse \/ ExecuteOperation \/ ExecuteChildWorkflow
    \/ GetChildWorkflowExecution \/ GetVersion \/ SideEffect
    \/ CompleteWorkflow \/ UpsertWorkflowSearchAttributes
    \/ CancelNext \/ CancelDone \/ FailMessage

TaskStep ==
    \/ FirstFlush \/ HandleQueuedUpdates \/ UpdatesHandled
    \/ HandleMessage \/ TaskDone

Closed == pc = "closed" /\ UNCHANGED vars

Next ==
    \/ Execute
    \/ handleSignal
    \/ handleCancel
    \/ \E u \in Updates : handleUpdate(u)
    \/ \E id \in Ids : OperationDone(id)
    \/ \E child \in Ids : ChildStarted(child)
    \/ handleQuery
    \/ StackTrace
    \/ OnWorkflowTaskStarted
    \/ TaskStep
    \/ Close
    \/ Closed

Spec == Init /\ [][Next]_vars

(***************************************************************************)
(* The goroutine running a task keeps running it.  The SDK starts a        *)
(* workflow task for every event it has applied (a finished operation, an  *)
(* update, a start, signal or cancel request), and evicts a run whose task *)
(* panicked.  Nothing starts a task for an answer left in the queue.       *)
(***************************************************************************)
EventApplied ==
    \/ callbacks # <<>>
    \/ updatesQueue # <<>>
    \/ \E i \in DOMAIN mq : IsCommand(mq[i])

FairSpec ==
    /\ Spec
    /\ WF_vars(TaskStep)
    /\ WF_vars(EventApplied /\ OnWorkflowTaskStarted)
    /\ WF_vars(pc = "panicked" /\ Close)

-----------------------------------------------------------------------------
Waiting == Range(callbacks)
Queued  == AnsweredIn(mq)
Alive   == pc \notin {"panicked", "closed"}

(***************************************************************************)
(* The worker never gets two answers to one of its commands: an id is      *)
(* answered by at most one waiting callback, queued message or delivery.   *)
(* Callbacks run in the loop and out of it, cancellation, the registry and *)
(* a flush that keeps its queue on failure could each answer twice.  A     *)
(* failed exchange may leave delivered answers queued, but that run sends  *)
(* no queue again.                                                         *)
(***************************************************************************)
AnsweredAtMostOnce ==
    /\ IsInjective(callbacks)
    /\ Waiting \cap delivered = {}
    /\ pc # "panicked" =>
          /\ \A i, j \in DOMAIN mq :
                ~IsCommand(mq[i]) /\ mq[i] = mq[j] => i = j
          /\ Queued \cap (Waiting \cup delivered) = {}

(***************************************************************************)
(* No answer is lost: while the run is alive, a command handled by a case  *)
(* that is to answer it is still an operation of the SDK, or its answer is *)
(* a waiting callback, a queued message, or was sent to the worker.        *)
(***************************************************************************)
NoAnswerLost ==
    Alive => owed \subseteq pending \cup Waiting \cup Queued \cup delivered

(***************************************************************************)
(* When the worker's commands are handled, the canceller knows only        *)
(* operations that are still going on, or that were called back before     *)
(* they were registered: the callbacks of operations finished between      *)
(* tasks have removed theirs before a Cancel command is looked at.         *)
(***************************************************************************)
CancelTargetsLive ==
    inLoop = 1 => canceller \subseteq pending \cup early

(***************************************************************************)
(* An answer that a finished task leaves in the queue, to wait for some    *)
(* other event, is one made in the loop without a flush: of a completed    *)
(* workflow, a failed side effect, or an operation or child lookup called  *)
(* back within its own call.  All others were sent within the task.        *)
(***************************************************************************)
LeftoversMadeInLoop ==
    pc = "idle" => Queued \subseteq early

(***************************************************************************)
(* Once a child's start is reported, the current listener for it has its   *)
(* answer on the way, whichever of Listen and Push came first.             *)
(***************************************************************************)
ListenerServed ==
    Alive => \A child \in childIds :
                listeners[child] # 0 =>
                    listeners[child] \in Waiting \cup Queued \cup delivered

(***************************************************************************)
(* Every update gets at most one verdict, a rejection or an acceptance     *)
(* followed by one completion; none is left when the commands of the task  *)
(* are handled, nor when the run is closed.                                *)
(***************************************************************************)
UpdatesSettled ==
    /\ \A u \in Updates : calls[u] \in {<<>>} \cup UpdateOutcomes
    /\ \A u \in buffered : calls[u] = <<>>
    /\ pc \in {"pipeline", "closed"} => buffered = {}

(***************************************************************************)
(* The worker is sent StartWorkflow once and before any other queued       *)
(* message, also when signals arrive before the first task.                *)
(***************************************************************************)
StartWorkflowFirst ==
    Alive /\ mq # <<>> =>
        \A i \in DOMAIN mq :
            (mq[i].cmd = "StartWorkflow") <=> (i = 1 /\ ~started)

(***************************************************************************)
(* No command of the worker is dropped: while the run is alive, each one   *)
(* it numbered is in the pipeline, was taken off it by the loop, or came   *)
(* in the reply to a query, a stack trace or an update, which the loop     *)
(* never sees; and it is in one of these places only.  A flush in the      *)
(* middle of the pipeline could lose or repeat commands.                   *)
(***************************************************************************)
CommandsAccounted ==
    LET waiting == {pipeline[i].id : i \in DOMAIN pipeline} IN
    Alive => /\ 1 .. nextId - 1 = waiting \cup handled \cup aside
             /\ waiting \cap (handled \cup aside) = {}
             /\ handled \cap aside = {}

(***************************************************************************)
(* The worker's commands are handled in the order it sent them, also when  *)
(* handling one of them flushes the queue and brings in more.              *)
(***************************************************************************)
HandledInOrder ==
    /\ \A i, j \in DOMAIN pipeline : i < j => pipeline[i].id < pipeline[j].id
    /\ \A i \in DOMAIN pipeline, id \in handled : id < pipeline[i].id

(***************************************************************************)
(* The run implements the ledger of its worker's commands: the loop takes  *)
(* them up in order and skips none, sends answers only to those it has     *)
(* taken up, and does neither after a panic or Close.                      *)
(***************************************************************************)
Promise ==
    INSTANCE Ledger WITH
        sent <- nextId - 1, taken <- handled, passed <- aside,
        answered <- delivered, over <- ~Alive

LedgerKept == Promise!Spec

(***************************************************************************)
(* A task that starts comes to an end.                                     *)
(***************************************************************************)
TaskEnds == pc \in TaskSteps ~> pc \in {"idle", "panicked"}

(***************************************************************************)
(* The answer of an operation that finished between tasks reaches the      *)
(* worker, unless the run ends first.                                      *)
(***************************************************************************)
ResultDelivered ==
    \A id \in Ids : id \in Waiting ~> (id \in delivered \/ ~Alive)

(***************************************************************************)
(* Every update that arrives is rejected or completed, by the next task or *)
(* by Close.                                                               *)
(***************************************************************************)
UpdateSettledEventually ==
    \A u \in Updates : u \in buffered ~> calls[u] # <<>>
=============================================================================

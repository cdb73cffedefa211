# Verification of the RoadRunner Temporal plugin

The plugin stands between the Temporal Go SDK and PHP worker processes. The SDK
calls it with the events of workflow runs and with activity tasks; it sends
them as frames of messages to the PHP workers and gives the SDK the commands
the workers answer with. This directory holds TLA+ models of the plugin, TLC
configurations for them, and theorems with TLAPS proofs. `PROJECT.json` maps
every definition to the lines it models and lists runs, mutants, findings,
hazards and theorems.

## The system

| Part | Code | State it keeps | Operations | Talks to |
|---|---|---|---|---|
| workflow run | `aggregatedpool/workflow.go`, `handler.go` | loop flag, queue, waiting callbacks, pipeline, updates queue | `Execute`, signal/cancel/update/query handlers, `OnWorkflowTaskStarted`, `handleMessage`, callbacks, `flushQueue`, `Close` | SDK, workflow worker, the three below |
| message queue | `queue/queue.go` | messages waiting for the worker | push a command, response or error; flush | workflow run |
| canceller | `canceller/canceller.go` | operations that can be cancelled | `Register`, `Discard`, `Cancel` | workflow run |
| child registry | `registry/registry.go` | children started, lookups waiting | `Listen`, `Push` | workflow run |
| protocol, codec | `internal/protocol.go`, `internal/codec/proto` | pool of frames | encode, decode, command names | everything that exchanges frames |
| activities | `aggregatedpool/activity.go`, `local_activity.go` | contexts of running activities | `execute`, `GetActivityContext` | SDK, pools, RPC |
| plugin | `plugin.go`, `internal.go`, `info.go`, `workers.go` | pools, Temporal workers, client, `wwPID`, channels | `Serve`, `Reset`, `ResetAP`, `Stop` | pools, event bus, SDK |
| RPC | `rpc.go` | none of its own | heartbeat, replay, history files, names | plugin, activities, SDK |
| worker manager | `workers_manager.go` | none of its own | `AddWorker`, `RemoveWorker` | the activity pool, under the plugin's lock |
| configuration | `config.go`, `tls.go`, `metrics.go`, `Init` of `plugin.go` | configuration, TLS, metrics handler | `InitDefault`, `initTLS`, `initMetrics` | files, libraries |
| rest | `data_converter`, `interceptor.go`, `common`, `internal/logger` | none | conversion, delegation | libraries |

What makes it hard:

* A result callback may come between tasks or inside the loop, from within a
  call the loop itself makes, and is handled differently in each case.
* A frame may be answered with more commands in the middle of a batch. An
  exchange may fail after the worker has acted on it.
* Child lookups and child starts come in either order.
* Updates are queued by name in the plugin and by callback in the SDK.
* All runs share one workflow process; an evicted object is closed late.
* Heartbeats race the return of the activity they are for, and wait for a lock that
  is held by a reset which waits for their activity.
* Worker exits, RPC resets and `Stop` contend for one lock while processes are
  replaced under them.

What makes each part correct is stated in the properties below; the hazards
in `PROJECT.json` say at which line each can go wrong.

## The modules

| Module | Models | Checked by |
|---|---|---|
| `Protocol` | messages of both directions | through `Workflow` and `Wire` |
| `Workflow` | one run with its queue, canceller and registry | `MCWorkflow`, two configurations |
| `Ledger` | what a run promises its worker, the abstract specification of `Workflow` | as a property of a run, and proved |
| `WorkflowProofs`, `WorkflowSafety` | theorems about `Workflow` | tlapm |
| `Instances` | the `Workflow` objects of all runs and the one workflow process they share | `MCInstances` |
| `InstancesProofs` | theorems about `Instances` | tlapm |
| `Wire` | the codec and its pool of frames | `MCWire` |
| `WireProofs` | theorems about `Wire` | tlapm |
| `Activity` | activity and local activity attempts, heartbeats | `MCActivity`, two configurations |
| `ActivityProofs` | theorems about `Activity` | tlapm |
| `Plugin` | `Serve`, the goroutine, `Reset`, `ResetAP`, `Stop` | `MCPlugin`, two configurations |
| `PluginProofs` | theorems about `Plugin` | tlapm |
| `ResetLock` | the plugin's lock between resets, heartbeats and the worker manager | `MCResetLock` |
| `History` | the four RPC calls that save and replay histories | `MCHistory`, two configurations |
| `HistoryProofs` | theorems about `History` | tlapm |
| `Settings` | `Init`: configuration, defaults, TLS files, metrics reporter | `MCSettings` |
| `SettingsProofs` | theorems about `Settings` | tlapm |

**Workflow.** A workflow task is a sequence of steps told apart by `pc`: the
waiting callbacks (`OnWorkflowTaskStarted`), the first flush, one step per
queued update name, one step per message of the pipeline. Each group of cases
of `handleMessage` is an action; `Cancel` takes one step per identifier.
`flushQueue` is a helper with the three outcomes of the code: nothing to send,
an exchange that appends the worker's frame to the pipeline, and a failure that
keeps the queue and panics. `runCommand` is the other kind of exchange, used by
queries, stack traces, updates and `Close`: one command, one message
back, whatever that message is. The SDK (external) may call back an operation
at once, later, or under a cancel request. The worker (external) answers with any
frame of its repertoire whose references go back to commands it sent. Payloads,
options and the numbers of the host's own commands are left out. The variables
`started`, `delivered`, `owed`, `early`, `calls`, `handled` and `aside` only
record history.

**Ledger.** The commands of the worker, numbered as it sends them: the host takes
them up one at a time and in order, skips only those sent in a reply to a single
command (where it looks for an answer and not for commands), answers only what it
has taken up and never takes an answer back. `Workflow` maps its `handled`,
`aside`, `delivered` and `nextId` to the ledger (`LedgerKept`).

**Instances.** Composes several runs with the process they share and with a reset.
The factory (`NewWorkflowDefinition`) stamps every object with a fresh `rrID`, by
which the process finds the object's instance. The SDK evicts an object and closes
it later, once its task is over, in a goroutine of its own, when the run may have
another object already; an object evicted while its first task is in flight is
"leaving". `Close` sends `DestroyWorkflow` and ignores what comes of it, so that an
instance may stay behind. A first task that fails may or may not have reached the
process.

**Wire.** One codec serves all goroutines. `Encode`, `Decode` and
`DecodeWorkerInfo` are taken message by message on a frame from the pool, with
every early return; the deferred `putFrame` is part of the step that returns.
`CommandName` and `InitCommand` are the two tables, which lack different entries.
Options that are the JSON `null` make a command into a message without one. `Encode`
assigns the payload's body before it looks at the error of `Marshal`, so that a failure
may leave nothing or a beginning of the frame there.

**Activity.** Each attempt goes through `execute`: store the context, encode,
wait for a worker inside `Exec`, remove the context, judge the reply. The pool
(external) gives a worker to at most `PoolSize` attempts. Heartbeats look up
the context under the lock and record after it.

**Plugin.** Every call is a process with its own `pc`; `mu` is the lock. `Reset`
is one step per thing it does (stop, purge, the two pools, worker info, starting
each Temporal worker, commit), because exits of processes and the SDK's cache go on in
between, and each step may fail. Pools, event bus and sticky cache are external:
a pool replaces a process that exits and then has the bus tell its pid. `Text`
says which pid's text contains which, since the code looks for `wwPID` anywhere
in the message. The bus may drop what does not fit in the channel. A Temporal worker is
made with `WorkerStopTimeout` 0 (`aggregatedpool/workers.go`), so that stopping it does
not wait for the workflow tasks it has taken: `tasks` counts those in flight, and one of
them may put a run into the cache behind the purge. When the metrics cannot be closed
`Stop` unlocks twice (`StopRest`, `SecondUnlock`). The second time nobody may hold the
lock, which ends the program, or another call, which then works without it; `Broken`
names these states.

**ResetLock.** `Plugin` takes what a reset waits for as one step; here that wait is
the subject. A reset holds the lock while the activity pool waits for busy workers;
an activity in the middle of a heartbeat keeps its worker busy and waits for that
lock, twice in a row; `RemoveWorker` holds the lock for reading while it waits for a
free worker. Only timeouts break the ring: that of the pool's reset, which the code sets,
and that of `RemoveWorker`, which is the caller's (external). `sync.RWMutex` (external)
is modelled with a writer that, once announced, keeps new readers out.

**History.** Calls run concurrently and share files. A file holds one cell per event
and one for the end of the document, so that a partial write, a shorter text over a
longer one, and two downloads at once are seen as such. Calls may come before Serve has
set the client and the definition. The server's runs grow while calls are made; the
replayer (external) fails at the first event the code does not reproduce.

**Settings.** `Init` one step at a time, since the TLS files may be replaced between
the look at them and their loading. A metrics section is its driver and the address
given in its own keys and in the section of either driver.

## What is checked

`Workflow` (runs `commands`, `updates`)

* `AnsweredAtMostOnce`: no command of the worker gets two answers.
* `NoAnswerLost`: a command that is to be answered is with the SDK, waiting,
  queued or answered.
* `CancelTargetsLive`: when commands are handled the canceller knows only
  operations that go on, or that were called back before they were registered.
* `LeftoversMadeInLoop`: what a task leaves unsent was answered in the loop by a
  case that does not flush. Such an answer waits for an unrelated event; this is
  how the code works, and the property says that nothing else waits so.
* `ListenerServed`: the current lookup of a started child has its answer.
* `StartWorkflowFirst`: the worker gets `StartWorkflow` once and first.
* `HandledInOrder`, `CommandsAccounted`: the worker's commands are handled in the
  order it sent them, and each is handled, still in the pipeline or was set aside,
  although some cases flush in the middle of the pipeline.
* `LedgerKept`: the run implements `Ledger`.
* `UpdatesSettled`, `UpdateSettledEventually`: an update is rejected, or accepted
  and completed, exactly once, by a task or by `Close`.
* `TaskEnds`, `ResultDelivered`: tasks end; results found between tasks reach the
  worker unless the run ends.

`Instances` (run `instances`)

* `InstanceKept`: an object started in the current process finds its instance there
  until it is closed; the late `Close` of an older object of the run does not take it.
* `LeftoverHarmless`: the process has no instance under the `rrID` of an object that
  has yet to send `StartWorkflow`, so an instance that a lost `DestroyWorkflow` left
  behind is never taken for that of a later object. That it stays there until the
  process is replaced is how the code works.

`Wire` (run `wire`)

* `FramesOwned`: no frame is in the hands of two calls, or of a call and the pool.
* `EncodedOwn`, `DecodedOwn`: a call returns its own messages, all of them when it
  returns no error; a failed encoding leaves nothing or a beginning of them, and a
  decoding error hides a message and what follows it, never one in between.
* `InfoConfirmed`: worker information comes from a frame of one message, with
  identifier 0.

`Activity` (runs `activities`, `heartbeat_after_return`)

* `HeartbeatServed`: a context is there for as long as a worker may execute.
* `LeftBehindUnsent`: a context outlives its attempt only when nothing was sent.
* `AttemptReturns`: every attempt returns.

`Plugin` (runs `resets`, `stale_pid`)

* `TypeOK` includes that `errCh` and `stopCh` never exceed their capacity.
* `OnlyTrackedPoll`: between calls every polling Temporal worker is one the
  plugin will stop, or was left by a failed start.
* `StaleRunsPurged`: a cached run lives in the current workflow process, in the one
  the last reset replaced, or in one that exited since the last purge. A run that a task
  in flight caches behind the purge does outlive its process; the property says that it
  is gone after the next reset and that none is older. Like `OnlyTrackedPoll` it is not
  claimed once a failed `Stop` has released the lock of another call (`Broken`).
* `NoSilentEnd`: the goroutine ends only by `Stop` or with a reported error.
* `GoroutineEnds`, `FirstExitRecovered`: it ends after `Stop`, also one that failed
  without ending the program, and the exit of the first workflow worker clears its runs
  from the cache. A goroutine that waits
  for the lock when `Stop` is called still makes its reset once `Stop` has returned,
  and ends after it.

`ResetLock` (run `reset_lock`)

* `ResetEnds`, `HeartbeatAnswered`: resets and heartbeats return, also when no activity
  ever ends, provided that whoever calls `RemoveWorker` gives it a context that expires:
  the code passes that context on (`workers_manager.go`), and with one that does not, a
  call that finds no free worker keeps the lock. Deadlock is checked too.

`History` (runs `history`, `early_replay`)

* `SavedWhole`: a history reported saved is in its file, whole and with nothing behind
  it, until the next download opens the file. Downloads that share a path at the same
  time get no such promise.
* `ReplayTrusted`: a replay answered with OK ran over all the events it was asked to
  cover, and the code reproduces them; a partial or mixed file never gives OK.
* `FetchEnds`: a call that fetches a history, whether to save or to replay it, comes to
  an end of it: it goes on to the definition, is answered, or panics for want of a client.
  What the replayer does afterwards has no timeout in this code, and nothing is claimed
  of it.

`Settings` (run `settings`)

* `SectionPresent`: the section the reporter dereferences is there, however the
  configuration is written.
* `MetricsAsGiven`: driver and address are those given, the section's own keys before
  the driver's section before the default.
* `TLSAsGiven`: a TLS configuration that was made has the CA, and the kind of client
  authentication, that the configuration names. When the CA file
  holds no certificate any more, `initTLS` returns neither a configuration nor an error;
  the model has that outcome, and the property says nothing of it.

### Disagreements

Three runs are expected to fail; each shows code that does not do what a comment
or message of the repository says.

* `stale_pid`: the exit of a replaced workflow worker is taken for that of an
  activity worker, since `wwPID` is set only by `initPool`.
* `early_replay`: `ReplayWorkflow` uses a nil client before the check that would
  answer "retry in a second".
* `heartbeat_after_return`: a failed `Encode` leaves the context in the table, so
  that a heartbeat is accepted for an activity that does not run.

### Bounds

| Run | Bounds | Why they are enough |
|---|---|---|
| `commands` | every command but three that are handled like another, 4 in a run, 2 in a frame, cancels of 2, 1 queued request, 1 command set aside | two operations, a cancel of both and a version that flushes; a child, two lookups and a cancel: they meet in every order, in one or several tasks |
| `updates` | 3 updates, 2 names, 2 commands, 2 queued requests | two updates share a name, and arrive in different tasks; a signal or a cancel comes between `Execute` and the first task |
| `instances` | 2 runs, 4 objects, 3 processes | a run has an old and a new object at once, next to another run, over an exit and a reset; a leftover instance meets the run's next object |
| `wire` | 2 calls, 2 frames, 2 messages a call | a frame goes from one call to the other and to a new one; the message that fails is first or last |
| `activities` | 3 attempts, 1 local, 1 worker | attempts wait for workers; with and without details and input |
| `resets` | 2 queues, 2 incidents (exits of own or foreign processes and RPC resets), 1 task in flight, 8 pids | any two of the sources of resets meet each other and `Stop`; one of two Temporal workers may fail to start; a task caches its run behind a purge, and a second reset follows; safety and liveness |
| `stale_pid` | 2 incidents, no task | the first exit replaces the process, the second is of the replacement |
| `reset_lock` | 2 workers, 1 manager, 2 resets | one activity waits for the lock while another is busy or free; a reset waits behind a reset |
| `history` | 2 callers, 3 calls, 2 runs of up to 2 events, 1 path | two calls meet on a file and a third sees what they left; a shorter history is written over a longer one |
| `settings` | 4 drivers, 3 kinds of authentication, 1 replaced file | every combination of sections; a file changes at any one point |

### Fairness

* `Workflow`: the goroutine of a task keeps running (weak fairness of its steps);
  this takes for granted that `Exec` returns, which the code does not enforce,
  having no timeout there. The SDK starts a task for an event it has applied and
  evicts a run whose task panicked. Nothing is assumed to start a task for an
  answer left in the queue, no operation is assumed to finish, and no run is
  assumed to be evicted otherwise.
* `Activity`: an attempt's goroutine keeps running and `Exec` returns, since a
  pool gives up allocating after its timeout and a worker answers, dies or has
  its context end. The SDK need not start an attempt.
* `Plugin`: calls that are running keep running, as what they wait for has a
  timeout; who waits for the lock gets it (strong fairness), as `sync.RWMutex`
  guarantees. No exit, reset, `Stop` or eviction is assumed to happen.
* `ResetLock`: who waits for the lock gets it, reader or writer (strong fairness);
  a writer whose readers have left goes on, the pool's contexts expire, and so does the
  context of a caller of `RemoveWorker` (weak fairness). The last is an assumption on
  the caller that this code does not enforce. Nothing is assumed of the activities: they need not end, and need not
  report heartbeats.
* `History`: a call that opens a file, fetches events or writes them goes on, since
  fetching has a timeout of a minute and the rest does not wait. Nothing is assumed of
  taking the definition, which waits for the plugin's lock, nor of the replayer.

## What is proved

Every safety property that a passing run checks is also proved, for every value of the
constants. The constants are only assumed to be what the code makes them; each
assumption is named in the module that declares the constant, and TLC evaluates it
in the runs:

* bounds are natural numbers, a pool has a worker, a history has an event;
* `RepertoireAssumption`: the worker sends messages the codec can decode;
  `UpdatesAssumption`: an update has a name;
* `AttemptsAssumption`: tokens of attempts are distinct and local attempts have none;
* `TextAssumption`: the text of a pid contains the pid;
* `NilAssumption`, `AbsentAssumption`, `NamesAssumption`: the values that stand for a
  nil pointer, a missing section and no run or path are none of the real ones.

* `TypeCorrect` (`WorkflowProofs`): `Spec => []TypeOK`. The work is in the
  lemmas on what queues, callbacks and frames become.
* `AnsweredOnce` (`WorkflowProofs`): `Spec => []AnsweredAtMostOnce`. The property
  is not inductive: that a callback finds its answer nowhere else depends on where
  every other identifier is. The invariant `AnswersInv` says that an identifier
  is in one place at a time (in the pipeline, with the SDK, waiting, queued,
  sent), that those in the pipeline are nowhere else, that numbers the worker has
  not used are nowhere, that no two children share a lookup, that a lookup of a
  child that has not started is unanswered, and that no callback waits during a
  task. Each action moves one identifier from one place to the next.
* `CommandsAreAccounted`, `CommandsInOrder`, `LedgerIsKept` (`WorkflowSafety`): the
  last is the refinement of `Ledger`. `LedgerInv` says that the pipeline ascends and
  is above all that was handled; that pipeline, handled and set aside are all the
  worker has sent, each in one place; and that whatever is or may come to be
  answered (pending, waiting, queued, a lookup) was handled. The third part is what
  lets an answer be a step of the ledger.
* `NoAnswerIsLost`, `CancelsFindLive`, `LeftoversAreEarly` (`WorkflowSafety`), from
  `KeptInv`: the loop flag is set exactly during tasks, and no callback waits then;
  cancellations belong to operations that are pending, called back early or waiting;
  after the first flush only early answers are queued, except while a `Cancel` is
  handled, which ends in a flush.
* `UpdatesAreSettled` (`WorkflowSafety`), from `UpdateInv`: every buffered update has
  its name in `updatesQueue`, so a task that goes through the queue leaves none.
* `StartWorkflowIsFirst` (`WorkflowSafety`), from `StartInv`: after `Execute` the
  queue is empty only once `StartWorkflow` was sent.
* `ListenersAreServed` (`WorkflowSafety`), from `ListenerInv`: the worker looks up a
  child with a command it sent after the one that started the child, so a lookup still
  in the pipeline, or a listener, has a higher number than its child. With `LedgerInv`
  (listeners were handled, and commands are handled in order) a child that starts
  while its own command is handled has no listener yet whose answer could be missing.
* `InstancesAreKept`, `LeftoversAreHarmless` (`InstancesProofs`), from `InstancesInv`:
  objects are made in order with `rrID`s of their own, none lives in a process still
  to come, and every instance is that of an object past its first task.
* `PluginTypes`, `OnlyTrackedWorkersPoll`, `StaleRunsArePurged`, `NoEndIsSilent`
  (`PluginProofs`), from `PluginInv`: resets and `Stop` come after `Serve`; an error is
  on `errCh` only when the goroutine or `Serve` has ended; and unless a failed `Stop` has
  broken the lock, only its holder is between `Lock` and `Unlock`, from the stop of the
  Temporal workers to the commit the plugin has none but those it starts, and between
  the purge and the reset of the workflow pool all that is cached lives in the process
  about to be replaced, or in one that exited since the purge.
* `HeartbeatsServed` and `LeftBehindOnlyUnsent` (`ActivityProofs`), from the
  invariant `RunningInv`, which adds that an attempt past `execute` is stored and
  that one that has not come back from `Exec` has no reply; `ActivityTypes` gives the
  types.
* `FramesAreOwned`, `EncodesItsOwn`, `DecodesItsOwn`, `InfoIsConfirmed` (`WireProofs`),
  from `WireInv`: a call has a frame exactly from `getFrame` to `putFrame`; a frame no
  call has is empty, also in the pool; an `Encode` in progress has packed a beginning of
  its own messages into its frame, a `Decode` holds in its frame the messages it was
  given and has parsed a beginning of them. A step of one call touches only its own
  frame, so what the others know stays true.
* `SectionIsPresent`, `MetricsAreAsGiven`, `TLSIsAsGiven` (`SettingsProofs`), from
  `SettingsInv`: at each step the metrics section is the given one with the changes made
  so far, and lemmas say what the second reading of the keys and the defaults make of
  a section; the kind of client authentication is decided before the files are loaded.
* `HistoryTypes`, `SavedIsWhole`, `ReplayIsTrusted` (`HistoryProofs`), from
  `HistoryInv`: a download that has its file to itself finds it empty when it writes, no
  path with an open file counts as saved, and a call that fetches has fetched no more
  than the events there were. A download that shares its file promises nothing, and so
  a write of one call never breaks what is known of another's file.

Only model-checked: the liveness properties (`TaskEnds`, `ResultDelivered`,
`UpdateSettledEventually`, `AttemptReturns`, `GoroutineEnds`, `FirstExitRecovered`,
`ResetEnds`, `HeartbeatAnswered`, `FetchEnds`), since liveness under
fairness is out of the prover's reach, and that `ResetLock` does not deadlock, which
speaks of enabled actions.

In the two modules about `Workflow`, a fact that serves one theorem only is a step of its
proof, named like a lemma; the prover works through all the lemmas of a module for each
obligation, and would be slow with these among them.

## What is not modelled

* The contents of payloads, headers, options and failures, the data converter and the
  interceptor: data no property tells apart, copied or converted by library calls.
  Their failures are failures of the actions that make the calls.
* The options of commands and their conversion to parameters of the SDK (most of
  `internal/protocol.go`), and the deterministic identifiers of child workflows: they
  fill in fields of library objects.
* The contents of worker information, and the options and registrations of Temporal
  workers; that they may fail, and the task queues, are in `Plugin`.
* The options of metrics reporters and the exporter of worker states; logging;
  declarations of interfaces.
* The mutex of the child registry, which a listener that panics leaves locked: the
  run ends with that panic.
* A worker that neither answers nor dies: the code has no timeout there, and the
  liveness properties of `Workflow` are stated for exchanges that return.

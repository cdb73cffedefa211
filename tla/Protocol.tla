------------------------------ MODULE Protocol ------------------------------
(***************************************************************************)
(* The messages RoadRunner (the host) and the PHP worker exchange, from    *)
(* internal/protocol.go.  A frame is a sequence of messages; a message is  *)
(* a command when it carries one and an answer (a response or an error)    *)
(* when it does not.  Payloads, headers, failures and the options of a     *)
(* command are data no property tells apart and are left out, except the   *)
(* identifiers a command refers to (Cancel.CommandIDs and                  *)
(* GetChildWorkflowExecution.ID), which are the field ids.                 *)
(***************************************************************************)
EXTENDS Naturals, Sequences

NoCommand == "none"

(***************************************************************************)
(* Commands the host sends to the worker.                                  *)
(***************************************************************************)
HostCommands ==
    {"GetWorkerInfo", "InvokeActivity", "InvokeLocalActivity",
     "StartWorkflow", "InvokeSignal", "InvokeQuery", "InvokeUpdate",
     "DestroyWorkflow", "CancelWorkflow", "StackTrace"}

(***************************************************************************)
(* Commands the worker sends to the host and handleMessage acts on.        *)
(***************************************************************************)
Cancellable ==
    {"ExecuteActivity", "ExecuteLocalActivity", "NewTimer"}

External ==
    {"SignalExternalWorkflow", "CancelExternalWorkflow"}

Completing ==
    {"CompleteWorkflow", "ContinueAsNew"}

WorkerCommands ==
    Cancellable \cup External \cup Completing \cup
    {"ExecuteChildWorkflow", "GetChildWorkflowExecution", "SideEffect",
     "GetVersion", "UpsertWorkflowSearchAttributes", "Cancel", "Panic",
     "UndefinedResponse"}

(***************************************************************************)
(* The command names InitCommand can turn into a command: all but          *)
(* InvokeLocalActivity, which it has no case for.                          *)
(***************************************************************************)
Decodable == (HostCommands \ {"InvokeLocalActivity"}) \cup WorkerCommands

IsCommand(msg) == msg.cmd # NoCommand

Command(cmd) == [id |-> 0, cmd |-> cmd, ids |-> <<>>]

(***************************************************************************)
(* The answer to the worker's command id: a response or an error.          *)
(***************************************************************************)
Answer(id) == [id |-> id, cmd |-> NoCommand, ids |-> <<>>]

(***************************************************************************)
(* The messages that may wait for the worker and those it may send, when   *)
(* the worker's commands are numbered by ids.                              *)
(***************************************************************************)
HostMessage(ids) ==
    {Command(cmd) : cmd \in HostCommands} \cup {Answer(id) : id \in ids}

WorkerMessage(ids) ==
    [id : ids, cmd : Decodable \cup {NoCommand}, ids : Seq(ids)]

(***************************************************************************)
(* The identifiers of the worker's commands answered in a queue.           *)
(***************************************************************************)
AnsweredIn(queue) ==
    {queue[i].id : i \in {j \in DOMAIN queue : ~IsCommand(queue[j])}}
=============================================================================
